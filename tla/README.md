# A verification project for PintOS-lab

PintOS-lab is a teaching operating system kernel in C, kept as four successive
copies of Pintos (`project1-threads`, `project2-user_programs`,
`project3-virtual_memory`, `project4-file_system`, each with its own `src/`),
and two small monitor exercises on POSIX threads (`cs140-ps0`).  This directory
holds TLA+ modules that model its concurrent and stateful parts, TLC
configurations that check them on small instances, and proofs for TLAPS.

Where the four copies differ, the model follows `project4-file_system`, the
last and most complete one; `project1-threads` is modelled apart because its
threads and locks are another implementation (priority donation through
`max_priority`, the multi-level feedback queue).

## 1. Inventory

Paths are relative to `src/project4-file_system/src` unless they start with
another project's name.

| Component | Code | State it keeps | Operations |
|---|---|---|---|
| Thread scheduler | `threads/thread.c` | `ready_list`, `sleep_list`, `all_list`, each thread's status and priorities | create, block, unblock, yield, exit, sleep, tick, set_priority |
| Synchronisation | `threads/synch.c` | semaphore value and waiters, lock holder, donated priority | sema down/try/up, lock acquire/try/release, cond wait/signal/broadcast |
| Timer | `devices/timer.c` | tick count, sleepers | sleep, interrupt |
| Interrupt queues, serial port, console | `devices/intq.c`, `devices/input.c`, `devices/serial.c`, `lib/kernel/console.c` | two ring buffers with their waiting threads, enable register, console lock | getc, putc, flush, interrupts |
| Page allocator, heap | `threads/palloc.c`, `threads/malloc.c`, `lib/kernel/bitmap.c` | bitmap of pages, free lists of blocks | get/free pages, malloc/free |
| Processes | `userprog/process.c` | pcb of each child, semaphores of exec and wait | execute, start, wait, exit |
| System calls | `userprog/syscall.c`, `userprog/exception.c` | `filesys_lock`, descriptor and mmap tables | the handlers |
| Frame table | `vm/frame.c` | frame hash, clock list, pins | allocate, evict, free, pin |
| Supplemental pages | `vm/page.c` | status of each page, swap index, dirty bit | install, load, unmap, destroy |
| Swap | `vm/swap.c` | bitmap of slots | out, in, free |
| Buffer cache | `filesys/cache.c` | 64 slots, clock hand, one lock | read, write, close |
| Inodes | `filesys/inode.c` | open-inode list, block index of each file | open, close, remove, read, write, extend |
| Free map | `filesys/free-map.c` | bitmap of sectors | allocate, release |
| Directories, files | `filesys/directory.c`, `filesys/filesys.c`, `filesys/file.c` | entries, current directories | lookup, add, remove, open, create |
| Block layer, IDE | `devices/block.c`, `devices/ide.c` | channel lock, completion semaphore | read, write, interrupt |
| Train station | `cs140-ps0/caltrain.c` | seats, waiting and boarding passengers | load_train, wait_for_train, on_board |
| Reaction | `cs140-ps0/reaction.c` | count of free hydrogen atoms | h, o |
| Advanced scheduler | `project1-threads/src/threads/thread.c`, `threads/float.h`, `devices/timer.c` | recent_cpu, load average, nice, priorities | tick, per-second update, create, sleep, set_nice, set_priority |

### How they interact

* Every component above the scheduler blocks through semaphores; a lock is a
  semaphore with a holder, a condition variable a list of semaphores.  The
  scheduler is entered with interrupts off, and the timer interrupt may preempt
  any code that runs with interrupts on.
* A system call runs in the caller's thread.  `filesys_lock` in `syscall.c`
  serialises the calls that touch files, except that `process_exit` closes files
  without it and page faults read files without it.  Reading the keyboard and
  printing take it too, and keep it while they wait.
* A process shares its pcb with its parent: semaphores `sema_initialization`
  and `sema_wait`, and the flags `exited` and `orphan`, decide who frees it.
* A page fault loads a page through the supplemental page table, which takes a
  frame; the frame table evicts another page, of any process, into swap.
* Files are inodes; an inode reads and writes sectors through the buffer cache,
  which alone talks to the block device of the file system.
* Interrupt handlers (timer, disk, keyboard, serial port) wake threads; those of
  keyboard and serial port also fill and empty the interrupt queues.

### What is hard, and what correctness means

| Component | Hard behaviours | Properties |
|---|---|---|
| Scheduler, synchronisation | preemption between any two sections with interrupts off; donation along chains while owners change; threads that die as owners | one owner, no lost wakeup, one list per thread, donations that cover the waiters |
| Interrupt queues | one side runs in an interrupt handler; the port must be told what to ask for | no byte lost, repeated or overtaken, no lost wakeup, every reader and printer served |
| Page allocator, heap | shared by every thread | no page handed out twice, free lists agree with the pages |
| Processes | parent and child exit in any order; failed load; a page reused at once | wait answers once and truly, each pcb freed once and not used after |
| System calls | waits for keys and for children with `filesys_lock` held, a way out that keeps it, page faults and exits that close files without it | a call gives the lock back once the keys have come, a mapping keeps its file open, stores reach the file |
| Frames, pages, swap | eviction of a page another thread loads, pins or frees | one owner of a frame, page contents survive eviction, a pinned frame stays |
| Buffer cache | eviction, write-back, reset of the machine | cache and disk are one store |
| Inodes, free map | three kinds of block, growth that fails half way, reads between the steps of a write | a sector belongs to one file, none is lost, a file has the bytes written to it |
| Directories | removal of open or current directories, listing while others change | no entry without inode, openers counted, a listing is complete |
| Train station, reaction | woken threads overtaken by others, spurious wakeups | capacity, no early or missing departure, two hydrogens per water |
| Advanced scheduler | fixed-point arithmetic, threads that become ready in the interrupt | priorities and load stay in range, a better thread soon runs |

The list of hazards in `PROJECT.json` gives each at its line of the code, with
the properties that cover it or the reason why none does yet.

## 2. Plan

In the order of importance, lowest layer first; each line is a set of modules
that can be read alone.

1. `BlockStore`, `BufferCache`: done, proved.
2. `ThreadSync`: done, proved.
3. `ProcessContract`, `Process`: done, proved but for liveness.
4. `CalTrain`, `Reaction`: done, proved but for liveness.
5. `Frames`: done, proved; the frame table, the supplemental pages, swap and
   pinning.
6. `FileStore`, `Inodes`, then `Directories` above (proved): done.  Next: a reset of the
   machine between the steps of a write, which needs the free map's file.
7. `Syscalls`: done, proved but for liveness; `filesys_lock`, descriptors, mapped
   files.
8. `ByteQueue`, `SerialPort`: done, proved but for liveness.
9. `Mlfqs`: done, proved.
10. `Ide`: the channel lock and completion semaphore of `devices/ide.c` against
    its interrupt; `Allocator`: bitmap, pages and arenas; the donation of
    `project1-threads`; condition variables on the semaphores of `ThreadSync`.

Abstract specifications: `BlockStore`, `ProcessContract`, `FileStore`,
`ByteQueue`.  No module that has or will have proofs uses a `RECURSIVE`
operator.

## 3. Modules

### BufferCache, BlockStore

`BufferCache` is `filesys/cache.c`.  Each access takes `buffer_cache_lock` and
holds it to the end, so the model interleaves threads before `Acquire` only, and
splits the section after it at each write that a reset could separate from the
next: `Lookup` (the loop over the slots), `TakeEmpty` and `SecondChance` (one
turn of the clock), `Victim` (write-back of a dirty victim), `Vacate`, `Claim`
and `Load` (the new entry, then its data), `CopyOut` or `CopyIn`, `Return`.
`buffer_cache_close` is `Sweep`, one slot per step, and `SweepDone`.  `Reset` is
the power-off or reboot of `devices/shutdown.c`: it empties the memory and
leaves the disk.  A sector's contents are a value of `Data`; the device call is
one step.

`BlockStore` is what the layer above relies on: a map `view` from sectors to
contents, which `read` and `write` use, and a map `durable` which is what a
reset leaves.  A sector becomes durable at any time, by itself; `close` returns
with `durable = view`; a reset makes `view` equal to `durable`.

### ThreadSync

`threads/thread.c` and `threads/synch.c` on one CPU.  `cur`, `ready`, `status`,
`sleepers` are the scheduler's variables; `pri`, `orig`, `waiting`, `locks` the
fields of a thread; `holder`, `lockPri`, `elemOf` those of a lock; `value` and
`waiters` those of the semaphores, a lock's own included.  `pc` and `reg` are
the section a thread is in and its locals.  A section with interrupts off is one
action and includes the switch to the next thread: `Switch`, `Yield`, `Block`,
`Unblock` are the scheduler functions as operators on the new state.

`lock_acquire` is `AcquireRead` (the look at the holder), `AcquireWait`, one
`Donate` for each turn of the donation loop, `Down`/`DownWait` (the loop of
`sema_down`), `AcquireOwn`, `AcquireList`; `lock_release` is `Release`,
`ReleaseUp`, `ReleaseRemove`, `ReleaseRestore`; `thread_exit` is `Exit`,
`ExitRelease` for each lock of the list, `Die`.  `SetPriority`, `Sleep`,
`DownCall`, `UpCall` are the other calls.  `Awake` is the part of the timer
interrupt that wakes sleepers, `IntrUp` a handler that ups a semaphore,
`Preempt` the end of a time slice.  Locks are acquired in the order and
releases in any order the client chooses; what a client may call beside the
locks is the constant `Clients`.

The list element of a lock is shared by whoever links it; `elemOf` remembers
whose list it is on, so that `ReleaseRemove` shows when the element is removed
from another thread's list.  An assertion or a wild pointer stops the kernel:
`panic` names it, and the system stays there.

### Process, ProcessContract

`userprog/process.c` with `sys_exec`, `sys_wait` and `sys_exit`.  `mem` is the
contents of the pages that pcbs live on: a pcb record, or `Freed`.  `Exec`,
`Start` (the child, with a load that may fail), `ExecDone`; `Wait` or
`WaitNone`, `WaitDown`, `Reap`; `Exit`, `ExitChild` and `ExitOrphan` for each
child, `ExitMark`, `ExitRead`, `ExitUp`, `ExitLast`.  Two steps are split
where a timer interrupt between them lets the other side see the difference:
the test of `exited` and what follows it (`process_wait` and the loop over the
children), and the last four statements of `process_exit` that use the pcb.

Free pages are reused for pcbs only; a page reused for something else would be
corrupted instead.  A semaphore of a pcb is its value, since one thread waits
for it.  A process that touches a freed pcb, or fails an assertion, stops the
kernel: `panic` names what it did.

`ProcessContract` is what the comments of `process_execute` and
`process_wait` promise: the life of each process, the children it may still wait
for, and the answers of `exec` and `wait`.  `ContractSpec` maps the pcbs,
lists and locals of `Process` to it.

### Frames

`vm/frame.c`, `vm/page.c` and `vm/swap.c` with the page fault handler and the part
of `sys_read` and `sys_write` that pins the user's buffer.  A step ends where
another process can come in and matter: at every wait for `frame_lock`, between the
readings of an entry and the use of what was read (`PinTest`, `PinRead` and `Pin`,
`Destroy` and `Remove`), and inside the eviction, which holds `frame_lock` but
changes the entry of a process that does not (`Pick`, `SwapOut`, `Mark`, `Index`,
`Take`).  `vm_supt_set_swap` stores the status and the frame in one step, `Mark`:
the only code that looks at both without a wait between is `spte_destroy_func`, and
what it finds between the two stores is `DestroyTorn`.  `FillFresh`, `FillSwap`,
`MapPage` and `Unpin` are the rest of `vm_load_page`; `Exit`, `Destroy`, `Remove`
and `Finish` are `vm_supt_destroy` and `pagedir_destroy`.  A page starts `"fresh"`,
which stands for `ALL_ZERO` and `FROM_FILESYS` and for the first page of the stack,
which `setup_stack` loads by the same calls; reading the executable does not fail,
since it cannot shrink while it runs.  `val` is a history variable: what the process
last wrote to a page.  `panic` names the assertion that stopped the machine, and
`stray` says that a pin, an unpin or a freed slot was another page's.  That really
happens (section 6); what follows it is corrupt memory, so the properties are about
the time before, and the model stops there.

### Inodes, FileStore

`filesys/inode.c` and `filesys/free-map.c`, with the parts of `filesys_create` and
`dir_remove` that allocate and release.  `disk` is what the buffer cache shows of
it: sectors of words, read as inode, index block or data by whoever has the number.
`index_to_sector`, `inode_reserve` and `inode_deallocate` walk the direct, indirect
and doubly indirect blocks each in its own way, as in the code; that they agree is
`NoSharedSector` and `NoLostSector`.  System calls hold `filesys_lock`, so that
`filesys_create`, `inode_open`, `inode_remove` and `inode_deny_write` are one step
each against each other; a write is taken apart (`WriteReserve`, `WriteLength`, one
`WriteChunk` for each sector), because a page fault reads files and an exiting
process closes them (`inode_close`) without the lock.  Such a close can come inside
`inode_open`, between its search and its count (`inode.c:189` and 217), and inside
another `inode_close` as well: that is left out here, where both are one step, and
is in `Syscalls`.  What is said of `Inodes` is about the blocks of files and about
the steps of a write.  `failed` remembers that a call has failed half way: what such
a call does not give back is a disagreement of section 6, and `NoLostSector` is
about the time before.

`FileStore` is what programs rely on: a file is a sequence of bytes, new ones
are 0, it lives until its last name and its last opener are gone, and a write
first makes it longer and then puts its bytes.  It says nothing of blocks;
`ImplementsStore` maps a file to the bytes `byte_to_sector` leads to.

### Directories

`filesys/directory.c`, `filesys/filesys.c`, and the descriptors and current
directories that keep inodes open.  A directory is the sequence of its entries, the
first for its parent; its inode is known by its sector.  Paths are resolved as
`dir_open_path` does it, which follows any inode, removed ones included, except at
the end.  `Settle` counts what a call opens and closes and applies the last close.
`filesys_remove` of a directory closes its inode twice, whether the directory is
empty and goes or is not and stays (`directory.c:364` and 378): `robbed` is the set
of directories that such a call has taken an opener from and that are still open.
An exit is one step here, like a call (see `Syscalls`).  `scan` is one process that
lists a directory with `dir_readdir` while others change it.  `stray` says that a
handle's inode was freed under it (section 6), and the model stops there.

### Syscalls

`userprog/syscall.c`: every call on files as a trap, the wait for `filesys_lock`,
the work and the release; `sys_exec`, which holds the lock while the child loads;
`sys_mmap` and `sys_munmap` with `vm_supt_mm_unmap`, whose look at the status of a
page and whose pinning of its frame are apart; and `process_exit`.  `sys_open` and
`sys_remove` of a file that is open are apart at the place where `inode_open` has
found the inode and has not counted it (`Opened`, `Removed`; `hand` is that inode).
`sys_read` of the keyboard waits in `input_getc` with the lock, and goes on or
exits.  An exit closes the descriptors one by one without the lock, `ExitClose`
taking an opener and `ExitFree` freeing the inode that has none left, and then the
mappings through `sys_munmap`, which does take the lock.

Between any two steps a process that is not in the kernel, or that gets a key,
faults mapped pages in (`Load`), stores into them (`Store`), and any page that is
not pinned is evicted (`Evict`).  A mapped page has two dirty bits, the one of the
page table and the one noted at eviction.  `astray` is the set of processes that
came back from `sys_seek` with the lock.

An exit that closes files while another process opens or closes some meets it
in the middle of changing counts and the list of open inodes.  When the order of
the two decides nothing, the steps above show it; when an inode is freed that was
found, or two changes of one count or of the list run into each other (`Clash`),
memory is corrupt from then on: `broken` says so, as it does when an assertion fails
or a null pointer is followed, and the model stops there (section 6).

### SerialPort, ByteQueue

`devices/intq.c` as it is used: `input` for keys from keyboard and serial port,
`txq` for the bytes to the port.  A thread runs with interrupts off up to where
it blocks, so that `Getc` and `Putc` are one turn of the loop each; they sleep in
`wait` with the queue's own lock, which `GetcAwake` and `PutcAwake` release.
`filesys_lock` and `console_lock` are the locks of the callers, without which two
threads could wait on one queue.  `sys_write` also takes `filesys_lock` before it
prints (`syscall.c:562`), so that a program that prints may have to wait for one
that reads keys; that wait is left out, and `PrinterServed` is about who has come
to the queue.  `keyboard_interrupt` and `serial_interrupt`
are the handlers, `Ier` is `write_ier`, `PrintOff` is printing from a handler,
`Receives` and `Sends` are the hardware.  `ByteQueue` is a bounded FIFO with
the last byte given; each queue implements it.

### Mlfqs

The scheduler of `project1-threads` under `-o mlfqs`.  An action is
what runs with interrupts off, or what a timer interrupt could not tell apart, and
the timer may come between any two: `call` is what is left
of the call a thread is in.  `thread_set_nice` sets the value, `update_priority`
computes a priority, `StorePriority` stores it and `thread_yield` ends the call;
`thread_create`, `sema_up` and `thread_set_priority` end in `Compare`, where the
caller looks whether it is outranked, and perhaps in `thread_yield`.
`thread_set_priority` does not ask for `thread_mlfqs` in the code, and so is an
action here.  `timer_interrupt` is the handler with its order of steps: end of slice
noted, sleepers woken, `recent_cpu` counted, load and decay once a second,
priorities every fourth tick.  Numbers are those of `float.h`, with division that
truncates towards zero.  The code uses an `int` with 14 fractional bits; with up to
2000 threads, `LoadBounded` is why the product 59 * `load_avg` fits (those of
`recent_cpu` have 64 bits).  `lag` and `given` are history variables: `given` has
the threads whose priority does not come from the last update, because a call has
set it or has stored one it had computed before (`"late"`).

### CalTrain, Reaction

`cs140-ps0`.  All shared state is under one mutex, so an action is the code from
where a thread has the mutex to where it gives it back.  A waiting thread is
`"waiting"` until a signal, a broadcast or nothing at all (`Wakes` and `AtomWakes`,
a spurious wakeup) makes it `"woken"`; it then competes for the mutex with every
other thread.  The condition variables are those of POSIX threads, used through
`pintos_thread.h`.  `places` and `aboard` of `CalTrain` and `early` of `Reaction`
are history variables.

### Modules for TLC

`MC*` modules extend a specification with the symmetry of its threads (and of
locks, pages, atoms), used for invariants only.  `Syscalls`, `SerialPort` and
`Reaction` are checked as they are, without symmetry.  Operators commented as
"Mutant of" are variants with a plausible mistake, by which each property is shown
to depend on the code; no specification uses them.

## 4. Runs

| Run | Instance | Shows |
|---|---|---|
| `cache_safety` | 2 threads, 3 sectors, 2 slots, 2 contents, resets | `OneSlotPerSector`, `CleanMatchesDisk`, that the cache implements `BlockStore`, and that each turn of the clock brings its end nearer (`ClockEnds`) |
| `sync_threads` | 3 threads, 1 lock, 1 semaphore up to 2, interrupts; sleep, set priority, exit | `OneList`, `MutualExclusion`, `NoLostWakeup` |
| `process` | main and 2 processes, 2 pages, 1 exit code, fair | `PcbNotStolen`, `OneFreer`, `ContractSpec`, `WaitAnswered`, `ExecReturns` |
| `frames` | 3 processes of 1 page, 2 frames, 2 swap slots, 1 content | `Intact`, `OwnFrames`, `AllReturned`, `NothingMissing`, `PinnedInUse` |
| `inodes` | 13 sectors of 2 bytes, 1 direct block, 2 entries in an index block, 2 files | `NoSharedSector`, `NoLostSector`, `ImplementsStore` |
| `directories` | 2 processes, 2 names, 3 sectors, root of 2 entries, 4 openers | `EntriesLead`, `CountsHandles`, `ListsAll` |
| `syscalls` | 2 processes, 1 file, 1 page, 1 descriptor and 1 mapping each, fair | `LockDiscipline`, `FilesCounted`, `LockGivenBack`, `WrittenBack` |
| `serial` | 2 processes, queues of 2 bytes, 1 key, 2 characters, 1 print with interrupts off, fair | `NeverPanics`, `SleepersKnown`, `Fifos`, `PrinterServed`, `ReaderServed` |
| `mlfqs` | 3 threads, 5 ticks, slices of 3, seconds of 2 ticks, priorities to 4 of which two are given, one nice value, fixed point 20 | `TypeOK`, `LoadBounded`, `PreemptedSoon`, `PriorityCurrent` |
| `train_station` | 5 passengers, trains of 0 to 3 seats, spurious wakeups | `NeverOverfull`, `NoneOverlooked` |
| `reaction` | 4 hydrogens, 3 oxygens, spurious wakeups, fair | `HydrogenBonded`, `EveryWater` |
| `inodes_zero` | `inodes` with writes of no bytes | a disagreement: section 6 |

Each module has a type invariant `TypeOK`, which holds in the same
configurations; in `Mlfqs` it bounds the priorities, and is listed there.  What
the properties mean is said at each definition.  Three more configurations pass
and ask the same questions of other instances: `MCThreadSync_nested` (two
threads and two nested locks), `MCFrames_pages` (two processes of two pages,
where a process also evicts itself) and `MCBufferCache_live` (`LockReleased`:
whoever takes the cache's lock gives it back, under fairness).

Why the bounds are enough.  In the cache, three sectors on two slots make every kind
of miss happen, with clean and dirty victims, while another thread waits; the
theorems hold for every size.  In `ThreadSync`, three threads are needed for a
waiter that is overtaken while another holds; two locks, for an owner that waits and
for an exit that releases several, are in `MCThreadSync_nested`; the three
properties are proved for every size.  In `Process`, three levels of parent and
child need three threads, so that a process can be child and parent at once, and two
pages are fewer than the processes: one is reused.  In `Frames`, three pages on two
frames let one process evict a second one's page while a third loads, pins or exits,
and use up the frames or the slots.  In `Inodes`, a file of seven bytes uses a
direct block, a full indirect block and one entry of the doubly indirect one, writes
start and end inside sectors and leave gaps, and the second file finds the disk full
half way through.  In `Directories`, a root of one usable entry must grow, a third
sector makes a directory in a directory, and `MaxOpen` bounds the openers of all
inodes together.  In `Syscalls`, one file and one page are shared by two processes,
which is where calls interfere, two exits at once included; `MaxDesc` bounds
descriptors, and the history variable `mislaid` lets one `mmap` fail.  In
`SerialPort`, a queue of two bytes wraps round, fills and empties; `MaxOff` bounds
what is printed or flushed with interrupts off, which no thread waits for.  In
`Mlfqs`, `MaxTicks` lets two seconds and the update of all priorities pass, with
slices that end between them and calls that begin before and end after each; its
theorems need no bound.  In the monitors, the largest train takes fewer than all
passengers, and more than one oxygen can be woken, or overtake.  `MaxValue` bounds a
semaphore that interrupts up: a thread that ups it at the bound is left out, never
one that waits for it.  Deadlock is not checked where the system may really stop:
threads that wait for a semaphore nobody ups, a kernel that has panicked or strayed,
processes that have all ended, a disk on which nothing more can be done, a clock
that has reached its bound, atoms without partners.

Fairness.  `Process` and `Syscalls` assume that every thread in the kernel runs in
the end: all user processes have `PRI_DEFAULT` and share the CPU in turn.  That a
program makes a system call, stores or exits is not assumed, nor that a key comes
for the program that `Syscalls` has reading.  `SerialPort` assumes the same of its
threads, that a pending interrupt is delivered and that the port finishes sending;
that a key ever comes is not.  `ReactionFairSpec`, and `CalTrain` for `TrainLeaves`,
assume that a woken thread gets the mutex, and that a boarded passenger sits down;
that a waiting thread is ever woken, or that a thread comes at all, is not assumed.
`FairSpec` of `BufferCache` assumes that the owner of the cache's lock runs in the
end.  `ThreadSync` has no liveness property: threads of a low priority may starve by
design.  That the clock of the cache ends needs no fairness between threads and is
stated as an action property: one turn after another, the slots marked as accessed
get fewer.

## 5. Proofs

* `DevicesProofs`, on `BufferCache` and `SerialPort`.  For the cache, the inductive
  invariant adds to the checked properties what a thread inside the section knows:
  that it owns the lock, that its slot is in range, that after a miss no slot holds
  its sector, and that a dirty victim has been written before it is vacated.  From
  it follow `CacheTyped`, `CachedOnce` and `CleanSlotsAgree`, and
  `CacheImplementsStore`, where each action is mapped to a step of `BlockStore` or
  to none.  `EvictionEnds` is the variant of the clock's loop: a turn that finds no
  victim takes one slot out of the finite set of accessed ones.  Assumed: the cache
  has a slot, there is a sector and a content, `NoThread` is no thread.

  For the interrupt queues, `QueuesNeverPanic` and `SleepersAreKnown`: `SerialInv`
  adds that who is at a queue has the lock of its callers (`Serialised`), that the
  queue's own lock is taken just by who sleeps or has slept there (`QueueLocked`),
  and that no handler waits (`OneSided`).  One lemma, `InterruptKeeps`, covers all
  the handlers.  `QueuesAreFifos`: `ContentsAre` reads a queue's contents without
  remainders, `PutContents` and `GetContents` say what `intq_putc` and `intq_getc`
  do to them, and each action of each side is then `Put`, `Get`, `Exchange`,
  `Flush`, `Done` or nothing for its queue.  Assumed: a queue has room for a byte,
  `None` is neither process nor byte.
* `ThreadSyncProofs`.  `LocksExclude`: a lock's semaphore is down exactly while
  one thread is between its `sema_down` and its `sema_up`, and that thread is the
  holder from `AcquireOwn` to `Release`.  The invariant `LockInv` adds that the
  thread's register names the lock it works on; it does not depend on the lists
  or priorities at all, so that mutual exclusion survives the defects of section
  6.  Steps are grouped by what they do to ownership (`QuietStep`, `OwnStep`,
  `DisownStep`, `UpStep` and so on).

  `OnOneList` and `WakeupsKept` are about the lists.  `Holds(q, S)` says that the
  list `q` has the elements of `S`, each once, in any order: `InsertOrderedHolds`,
  `SortedHolds`, `ThoseHolds`, `FrontTaken` and `BackAdded` say what the list
  functions make of it, whether or not the list was in order, which donations do
  not keep.  What is computed element by element (`InsertEach`, `Those`) is shown
  with the least number at which it would fail (`LeastOne`, `UpTo`).  `Scheduled`
  is the scheduler's part of `ListInv`, one lemma for each of its functions; the
  other part says that `sleepers` and the waiters of `x` hold the blocked threads
  that called `timer_sleep` (`Asleep`) and that are in the loop of `sema_down` of
  `x` (`WaitingFor`).  `WakeInv` is `NoLostWakeup` with a value that is a natural
  number: a woken thread stays counted until it looks (`StillWoken`), so that each
  step moves value and woken threads by one together.  Assumed: the set of threads
  is finite and without the idle thread, `NoLock` is no lock, and a plain semaphore
  is no lock's.
* `EarlierProofs`, on `Mlfqs`, `CalTrain` and `Reaction`.  `MlfqsTyped` and
  `LoadStaysBounded` rest on lemmas about division that truncates: of the load, 59
  parts in 60 of at most `n` and one part of at most `n` stay at most `n`.
  `HighestRunsSoon` is not inductive: the invariant is `LagCounted`, that the ticks
  a better thread has waited are at most the ticks of the running slice, since a
  switch leaves nobody outranked.  `PrioritiesCurrent` follows each priority from
  where it is computed to where it is stored (`PriceInv`): a price that has been
  computed and waits to be stored is current unless a fourth tick has made it late
  (`ComputedCurrent`), so that storing it puts the thread among the `given` ones or
  makes it current; a thread that does not exist is in no call (`Uncalled`), and the
  running one exists (`CurExists`).  Assumed: the set of threads is finite and
  without the idle thread, the constants are positive, nice values are between -20
  and 20.

  In `CalTrain`, `seat_num` and `board_passengers` may both be wrong by the
  passengers who missed their train, but their difference is the places left:
  from that, `TrainsNotOverfull` and `PassengersCalled`.  In `Reaction`, a water is made
  of two hydrogens that have come: `WaterTakesTwo` states `HydrogenBonded`, from the
  invariant `ArrivedCounted`, that those who have come are the free atoms and two
  for each water.  The list of waiting threads may then run out only when all that
  have come have left.
* `DirectoriesProofs`.  The invariant `DirInv` says of the entries after the two for
  the directory and its parent that each leads to an inode in use (`Leads`), no
  inode has two of them (`Alone`), no directory has a name twice (`Distinct`) and a
  removed inode has none (`Marks`); that what a process has open or is in is there
  (`Held`); that an inode is open as often as processes hold it (`Counts`), but for
  directories that are `robbed`, which are open; and that what a listing has still
  to return is after its place (`Covered`, `Listing`).  Every call that closes an
  inode ends in `Settled`, so one lemma, `SettleKeeps`, states what a call must have
  seen to before (`SettlesWithin` when `robbed` may grow, for the removal of a
  directory); `RescanKeeps` is the same for listings.  Searches of a directory use
  the least place at which something would be found (`MinIsLeast`).  From it follow
  `EntriesHaveInodes`, `HandlesCounted`, `ListingComplete` and the types.  Like the
  properties, it is about the time before an inode goes astray (section 6).
  Assumed: processes are finitely many, `None` is no name, number or inode, there
  are two sectors at least.
* `InodesProofs`.  The blocks of a file are the leaves of trees, one for each
  entry of its inode (`Nodes`, `Inner`, `Leaf`), of height 0, 1 or 2 (`Heights`).
  `Sound` says of the files of a disk that no sector is in two places of a tree,
  in two trees or the inode of a file, that each is marked, and that every block
  the length asks for is there.  `Inv` is `Sound` of the files there are (`Trees`),
  with what the open inodes and the write under way rely on: the two system files
  are as they were made (`SystemFiles`), a removed inode goes with its last opener
  (`Openers`), a write that grows has the blocks of the new length already
  (`Writing`), and the inode on the disk may lack what was reserved since but not
  what its own length asks for (`OnDisk`), since it is the one that counts once
  the file is closed.  None can go: without `OnDisk`, a reservation that fails and
  a close would leave a length without blocks.

  `inode_reserve` is followed through its loops once for all heights: `BlockGrown`
  says what the first `n` entries of a block become, `BlockStep` adds an entry,
  `IndexGrows` makes a tree one level higher of a block, and `ReserveGrows` puts
  the direct, indirect and doubly indirect parts together, whether or not the
  disk is full half way.  `Deallocated` says that `inode_deallocate`, which goes by
  the length, hands over sectors of the file only, and all of them if it has no
  block too many.  From `Inv` follow `SectorsNotShared` and `OnlyMarkedReleased`.
  `SectorsNotLost` needs `Exactly`: before a call fails, a file has no block too
  many and each marked sector has a file.  It is stated for programs that never
  write no bytes at offset 0, which would make a file empty and forget its blocks
  (section 6); the other two need no such thing.

  `FilesImplementStore` is the refinement of `FileStore`.  `Contents` and `Opens` are
  what its variables stand for.  What the steps have in common is that every other
  file keeps its blocks and their bytes (`Stays`, `SameContents`), which is where
  `Sound` comes in: a reservation or a new file takes sectors no file has, and the
  sector that `WriteChunk` writes is one block of one file (`ChunkEffect`).  Then
  `filesys_create` is `Create`, `WriteLength` is `Extend`, `WriteChunk` is `Put`, the
  calls that open, close and remove are the steps of `FileStore` of those names, and
  the others none.  That new bytes are 0 needs `Refined` besides `Inv`: a file
  is zero past its length, in the blocks a failed reservation left there too
  (`CleanFiles`), and a write that is to set a length sets a greater one
  (`Longer`).  Like `SectorsNotLost`, it is stated for programs that never
  write no bytes at offset 0.

  Assumed throughout: the three
  sizes are positive, and the device has more than three sectors.
* `SyscallsProofs`.  `LockIsDisciplined`: who is in the middle of a call holds
  `filesys_lock`, and nobody else does but a process astray from `sys_seek`.
  With its types, `LockDiscipline` is inductive; all calls but that one end in
  `Return`, which is one lemma, or go on in a step of their own with the lock.

  `TablesInOrder` is about the lists of descriptors and mappings.  Identifiers go
  up along a list (`Rising`), since each is the successor of the last one
  (`NextIdAbove`); so a search has one answer (`PlaceFound`) and what
  `list_remove` leaves is the list without it (`WithoutGives`, `Lacks`).  No page is
  mapped twice, a page has an entry just when it is mapped, and the mapping that
  `munmap` has named is still there when it goes on.

  `WritesReachFiles` rests on `StoredInv`: the entry of a page that was stored into
  says so in one of its two dirty bits, and in the one noted at eviction if the page
  is in swap (`Stored`).  A fault clears the bit of the page table and keeps the
  other (`LoadIs`), an eviction moves the first into the second (`EvictIs`), a store
  sets the first (`StoreIs`).  `OpenersAreCounted`: `CountInv` adds to
  `FilesCounted` that a file's descriptors are finitely many, and each step is
  `Balanced` for each file: `OpenedGrows`, `OpenedShrinks`, `MappedGrows` and
  `MappedShrinks` say which pairs come and go.  An exit closes the front of its list
  (`ExitCloseIs`, `TailLacks`), and `HandInv` that who is opening, removing or
  freeing has an inode in hand; `Opened` counts only an inode that has an opener
  left, or memory is broken.  The theorem says `FilesCounted`, which is about runs
  in which no exit has met another's call (section 6).  Assumed: `None` is no
  process, file or value; processes and pages are finitely many.
* `FramesProofs`.  `FramesAreOwned` and `PinsAreInUse`.  An eviction holds
  `frame_lock` from its choice to its end, but the owner of the victim goes on
  without it, loads, pins and exits.  `FrameInv` therefore says for each point of
  each process what it still knows: every page of memory is in the pool, in the
  frame table or mapped by a process that leaves (`Accounted`); a mapped page has
  one owner (`MapsOwn`); an entry that says `frame` is true until somebody clears
  it (`EntriesTrue`); no page has two frames and no frame has nobody (`OneFrame`,
  `FramesUsed`); what a process fills, evicts or removes is its to work on
  (`AtWork`); a pin belongs to a load or to a system call's buffer (`Pins`).
  On top of that, `PageInv`: a slot in use has one page and each
  unavailable slot is used (`SlotsOwn`, `SlotsUsed`), and what a process wrote is
  in its frame, in its slot or on the way between them (`PagesKept`).  From it
  follow `PagesSurvive`, `NothingIsMissing` and `AllComesBack`; `FramesTyped` is
  the type invariant.  Like the properties, both invariants are about the time
  before a pin or a slot goes astray (section 6).  Assumed: the
  number of slots is a natural number, `None` is no process, page of memory,
  number or frame entry, and the zero page is none of the contents programs write.
* `ProcessProofs`.  A process and its parent share the pcb without a lock, so
  `PcbInv` says for each point of each thread what it may rely on.  A page on a
  list or in a thread's hands is the pcb of one thread and agrees with it on how
  far it has come (`IsPcbOf`, `Listed`, `Held`); it is there once (`Distinct`); the
  pcb of a process that has not set `exited` is its own (`Owned`); `Working` is the
  parent inside `exec` and `wait`.  From it follow `PcbsNotStolen`, `FreedOnce`
  and the types.  After `exited` is set nothing is claimed of the pcb's page: the
  last uses of it by `process_exit` are the defect of section 6.  `ContractKept`
  maps `Exec` to `Spawn`, `Start` to `Load`, `ExecDone` to `Adopt`, `ExecFail` to
  `Deny`, `WaitNone` to `Refuse`, `Reap` to `Reap`, `Exit` to `Quit`, `ExitChild` to
  `Drop`, `ExitMark` to `End`, and every other step to none.  Assumed: `Main` is a
  thread, `Fail` is none, `Nothing` is neither thread nor page, and `Freed` is no
  pcb.

Model-checked only: liveness under fairness, which is out of the prover's reach.

## 6. What the code does against its word

The run `inodes_zero` of `PROJECT.json` shows one disagreement: a write of no
bytes at offset 0 truncates the file (`inode.c:336`).

More configurations are kept for the reader.  TLC finds each property named here
violated; `tlc -continue` lists them all, except that `MCInodes_disputed` and the
temporal properties are better run one at a time.

| Configuration | Property | Disagreement |
|---|---|---|
| `MCThreadSync_disputed` | `DonationCovers` | a lock is taken before its holder is set, and a waiter in between donates to nobody (`synch.c:238`) |
| `MCThreadSync_disputed` | `NoListCorruption` | the releaser removes the lock's element from the list of the next owner (`synch.c:286`) |
| `MCThreadSync_handlers` | `NoYieldInInterrupt` | a sleeper of a higher priority than the running thread makes the timer interrupt yield, which panics (`thread.c:320`) |
| `MCThreadSync_handlers` | `ReadyFrontHighest` | a donation to a ready thread leaves `ready_list` out of order (`thread.c:458`) |
| `MCThreadSync_handlers` | `NoDanglingHolder` | a donor follows a holder that has exited (`synch.c:225`) |
| `MCThreadSync_restore` | `RestoredCovers` | a second, lower donor is not recorded and its donation is lost at the next release (`synch.c:225`) |
| `MCThreadSync_below` | `NeverBelowOwn` | a release may leave a thread below the priority it has set for itself (`synch.c:300`) |
| `MCProcess_disputed` | `NoUseAfterFree` | a parent frees the pcb of a child that still uses it (`process.c:327`) |
| `MCProcess_disputed` | `WaitedHasExited` | the next owner of a pcb freed too early gets the late wakeup (`process.c:327`) |
| `MCProcess_disputed` | `OrphansEnd` | an orphan frees the address of a field (`process.c:333`) |
| `MCProcess_disputed` | `MainCanExit` | main exits through a null pcb (`process.c:325`) |
| `MCProcess_disputed` | `NoPcbLeak` | the pcb of a child that failed to load is lost (`process.c:107`) |
| `MCFrames_disputed` | `PinOnFrame` | a page of a system call's buffer is evicted between loading and pinning, and the assertion of `vm_pin_page` fails (`page.c:359`); evicted between the test and the next line, its frame is taken to be NULL (`page.c:360`) |
| `MCFrames_disputed` | `OwnerStays` | a process exits while its page is evicted, and `vm_supt_set_dirty` panics (`page.c:178`) |
| `MCFrames_disputed` | `EntryOnFrame` | a process leaves while its page is evicted, finds a frame in the entry and then a status that is `ON_SWAP` already: the assertion of `spte_destroy_func` fails (`page.c:400`) |
| `MCFrames_disputed` | `NoStray` | the entry of a page is used while its eviction has set half of it (`page.c:107`); `vm_frame_pin` may in the same way pin another's frame |
| `MCInodes_disputed` | `FreeMapInode` | when the disk is full, an index block that could not be allocated is taken to be sector 0, and the free map's inode is overwritten (`inode.c:467`) |
| `MCInodes_disputed` | `AllAccounted` | the sectors of a creation or a write that failed half way stay marked (`inode.c:477`, `filesys.c:70`) |
| `MCDirectories_disputed` | `HandlesKept` | removing a directory that is open, refused or not, takes an opener from who has it open (`directory.c:364` and 378) |
| `MCDirectories_disputed` | `NeverStray` | removing a directory closes its inode twice (`directory.c:364`), and takes it from who has it open |
| `MCDirectories_disputed` | `NoOrphan` | a removed directory that nobody has open keeps its sector (`directory.c:378`) |
| `MCDirectories_disputed` | `ParentEntry` | the entry for the parent, whose `in_use` is never set, is given to a file (`directory.c:305`) |
| `Syscalls_disputed` | `NeverAstray` | `sys_seek` of an unknown descriptor returns with `filesys_lock` (`syscall.c:482`) |
| `Syscalls_disputed` | `OpenersKnown` | an exit closes a file, without `filesys_lock`, that another process has found among the open ones and is about to count: its descriptor is for freed memory (`inode.c:189` and 217, `process.c:277`) |
| `Syscalls_disputed` | `NeverBroken` | that same exit; two processes that change the openers or the list of open inodes at once (`inode.c:239`); a process astray from `sys_seek` asks for the lock again; `sys_isdir` and `sys_inumber` follow a descriptor that is not there (`syscall.c:901`); `munmap` pins a page that has been evicted (`page.c:272`), or whatever is in its frame by then |
| `Syscalls_disputed` | `LengthKept` | a mapped page that comes from swap is written back whole, and makes the file longer (`page.c:306`) |
| `MCCalTrain_early` | `BoardedHaveTrain` | a train leaves a passenger between boarding and sitting (`caltrain.c:39`) |
| `MCCalTrain_stuck` | `TrainLeaves` | after a passenger was left behind, the next train may wait for ever (`caltrain.c:82`) |
| `Reaction_spurious` | `NoneEarly` | `reaction_h` waits without a loop, and a spurious wakeup lets it return with no water made (`reaction.c:43`) |

Three more ways of the code are seen in the models themselves, where a property
excepts them.  A program that reads the keyboard keeps `filesys_lock` while it waits
(`syscall.c:526`), and with it everybody who opens, reads or writes a file or has
a mapping to take away (`pc[p] = "keys"` in `LockGivenBack`).  `thread_set_nice` may
store a priority that was computed before a fourth tick repriced the thread
(`thread.c:378` and 381 of `project1-threads`), and `thread_set_priority` sets one
under `-o mlfqs`, which does not last longer than to the next fourth tick
(`thread.c:370`); both are `given` in `PriorityCurrent`.

## 7. Not modelled

Boot, loader, most drivers, the C library and user programs: sequential or
hardware code without a state of their own to relate.  The block layer is an
atomic array of sectors; the page allocator, the heap and the bitmap are sets.
`thread_create` of the last kernel (the threads are given; `Process` and `Mlfqs`
model creation), `sema_try_down` and `lock_try_acquire` (which nothing calls),
condition variables (which only tests call), `load` (an ELF reader, here a choice
of success or failure).  The two middle copies of the kernel are earlier states
of the last; most of the repository's lines are in those copies, in the C
library and in tests, of which the models say nothing.  Of virtual memory:
read-only pages and the order of the clock (whose hand may rest on a freed entry,
and which reads the accessed bits of the wrong process): any unpinned frame may
be the victim.  Of the file system: resets above the buffer cache, the file of
the free map, names that are too long.  Of the system calls: the copying and
checking of arguments, positions in files.  Of the inodes: an exit inside
`inode_open` and `inode_close` is in `Syscalls`, for the openers of a file, and
not in `Inodes`, for its blocks, or in `Directories`.  Of the console: that a
program which prints first waits for `filesys_lock`.  Of project 1: the donation of
priorities, which is off under `-o mlfqs`; the walk of `thread_set_priority`
over the list of threads with interrupts on, which is one step; the start of a
`thread_create`, up to where the new thread is ready.
