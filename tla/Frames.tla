-------------------------------- MODULE Frames --------------------------------
(***************************************************************************)
(* vm/frame.c, vm/page.c and vm/swap.c: processes fault their pages in,    *)
(* take frames away from each other and leave, with the page fault handler *)
(* and the two system calls that pin a user buffer.  frame_lock covers the *)
(* frame table alone: the supplemental page table of a process is read and *)
(* written by its owner without a lock, and by whoever evicts its frames.  *)
(*                                                                         *)
(* Left out: memory-mapped files, read-only pages, the accessed and dirty  *)
(* bits.  Which unpinned frame the clock takes is left open.               *)
(***************************************************************************)
EXTENDS Integers, FiniteSets

CONSTANTS
  Procs,      \* user processes
  Upages,     \* pages of a process
  Kpages,     \* pages of the user pool
  NSlots,     \* swap_size
  Data,       \* contents of a page, other than Zero
  Zero,       \* what a page holds when it is first loaded
  None        \* no page, no slot, no frame, no holder

ASSUME SlotsAssumption == NSlots \in Nat
ASSUME NoneAssumption == None \notin Procs \union Kpages \union Int
ASSUME EntryAssumption == None \notin [t : Procs, upage : Upages, pinned : BOOLEAN]
ASSUME ZeroAssumption == Zero \notin Data

VARIABLES
  pc,         \* pc[p]: where process p is
  reg,        \* reg[p]: its local variables
  spte,       \* spte[p][u]: supplemental page table entry
  pagedir,    \* pagedir[p][u]: the frame that is mapped, or None
  frame,      \* frame[k]: frame table entry, or None
  pool,       \* the free pages of the user pool
  mem,        \* mem[k]: contents of page k
  swap,       \* swap[s]: contents of swap slot s
  available,  \* swap_available
  frame_lock, \* holder of frame_lock
  filesys_lock, \* holder of filesys_lock
  panic,      \* the assertion or PANIC that stopped the machine
  val,        \* history: val[p][u], the last contents p gave its page u
  stray       \* history: a step used a frame or slot that was not its own

locks == << frame_lock, filesys_lock >>
slots == << swap, available >>
memory == << spte, pagedir, frame, pool, mem, slots >>
rest == << locks, panic, val, stray >>
vars == << pc, reg, memory, rest >>

Slots == 0 .. NSlots - 1
Contents == Data \union {Zero}

\* struct supplemental_page_table_entry: status "fresh" is ALL_ZERO or
\* FROM_FILESYS, "gone" an entry that has left the hash table.
Fresh == [status |-> "fresh", kpage |-> None, slot |-> None]
Gone == [status |-> "gone", kpage |-> None, slot |-> None]

\* Mutant of FrameOf: a frame can be evicted as soon as it is allocated.
FrameOfUnpinned(p, u) == [t |-> p, upage |-> u, pinned |-> FALSE]

\* struct frame_table_entry as vm_frame_allocate makes it.
FrameOf(p, u) == [t |-> p, upage |-> u, pinned |-> TRUE]

NoReg == [upage |-> None, kpage |-> None, slot |-> None, then |-> "run"]

\* Processes whose pages are installed, and none of them loaded.
Init ==
  /\ pc = [p \in Procs |-> "run"]
  /\ reg = [p \in Procs |-> NoReg]
  /\ spte = [p \in Procs |-> [u \in Upages |-> Fresh]]
  /\ pagedir = [p \in Procs |-> [u \in Upages |-> None]]
  /\ frame = [k \in Kpages |-> None]
  /\ pool = Kpages
  /\ mem = [k \in Kpages |-> Zero]
  /\ swap = [s \in Slots |-> Zero]
  /\ available = Slots
  /\ frame_lock = None
  /\ filesys_lock = None
  /\ panic = "none"
  /\ val = [p \in Procs |-> [u \in Upages |-> Zero]]
  /\ stray = FALSE

-------------------------------------------------------------------------------
Goto(p, l) == pc' = [pc EXCEPT ![p] = l]

\* PANIC or a failed ASSERT.
Panics(why) ==
  /\ panic' = why
  /\ UNCHANGED << pc, reg, memory, locks, val, stray >>

\* An access that needs no fault.  In a system call it is the kernel that
\* copies to the buffer.
Write(p, u, d) ==
  /\ \/ pc[p] = "run"
     \/ pc[p] = "use" /\ u = reg[p].upage
  /\ pagedir[p][u] # None
  /\ mem' = [mem EXCEPT ![pagedir[p][u]] = d]
  /\ val' = [val EXCEPT ![p][u] = d]
  /\ UNCHANGED << pc, reg, spte, pagedir, frame, pool, slots, locks, panic,
                  stray >>

\* page_fault: the access has to be made again when the page is there.
Fault(p, u) ==
  /\ \/ pc[p] = "run"
     \/ pc[p] = "use" /\ u = reg[p].upage
  /\ pagedir[p][u] = None
  /\ Goto(p, "load")
  /\ reg' = [reg EXCEPT ![p].upage = u, ![p].then = pc[p]]
  /\ UNCHANGED << memory, rest >>

\* sys_read or sys_write of a buffer in page u takes filesys_lock and calls
\* preload_and_pin_pages.
Syscall(p, u) ==
  /\ pc[p] = "run"
  /\ filesys_lock = None
  /\ filesys_lock' = p
  /\ Goto(p, "load")
  /\ reg' = [reg EXCEPT ![p].upage = u, ![p].then = "pin"]
  /\ UNCHANGED << memory, frame_lock, panic, val, stray >>

\* vm_load_page: there is nothing to do for a page that is ON_FRAME.
Load(p) ==
  /\ pc[p] = "load"
  /\ Goto(p, IF spte[p][reg[p].upage].status = "frame"
               THEN reg[p].then
               ELSE "alloc")
  /\ UNCHANGED << reg, memory, rest >>

-------------------------------------------------------------------------------
\* vm_frame_allocate when the pool has a page.
Allocate(p) ==
  /\ pc[p] = "alloc"
  /\ frame_lock = None
  /\ \E k \in pool :
       /\ pool' = pool \ {k}
       /\ frame' = [frame EXCEPT ![k] = FrameOf(p, reg[p].upage)]
       /\ reg' = [reg EXCEPT ![p].kpage = k]
  /\ Goto(p, "fill")
  /\ UNCHANGED << spte, pagedir, mem, slots, rest >>

\* lock_acquire (&frame_lock), for longer than one step.
Acquire(p) == frame_lock = None /\ frame_lock' = p

\* Mutant of Cleared: the victim's page stays mapped.
ClearedNot(k) == pagedir

\* pagedir_clear_page on the page that is in frame k.
Cleared(k) == [pagedir EXCEPT ![frame[k].t][frame[k].upage] = None]

Unpinned == {k \in Kpages : frame[k] # None /\ ~ frame[k].pinned}

\* Otherwise pick_frame_to_evict finds a victim, and its mapping is cleared.
Pick(p) ==
  /\ pc[p] = "alloc"
  /\ pool = {}
  /\ \E k \in Unpinned :
       /\ pagedir' = Cleared(k)
       /\ reg' = [reg EXCEPT ![p].kpage = k]
  /\ Acquire(p)
  /\ Goto(p, "evict")
  /\ UNCHANGED << spte, frame, pool, mem, slots, filesys_lock, panic, val,
                  stray >>

\* The clock has gone round twice: "Can't evict any frame".
PickNone(p) ==
  /\ pc[p] = "alloc"
  /\ frame_lock = None
  /\ pool = {}
  /\ Unpinned = {}
  /\ Panics("no frame")

\* Mutant of Occupied: the slot stays available.
OccupiedNot(s) == available

\* bitmap_set (swap_available, swap_index, false).
Occupied(s) == available \ {s}

\* Mutant of Vacated: the slot is not given back.
VacatedNot(s) == available

\* bitmap_set (swap_available, swap_index, true).
Vacated(s) == available \union {s}

\* vm_swap_out: the first available slot.
SwapOut(p) ==
  /\ pc[p] = "evict"
  /\ \E s \in available :
       /\ \A r \in available : s <= r
       /\ swap' = [swap EXCEPT ![s] = mem[reg[p].kpage]]
       /\ available' = Occupied(s)
       /\ reg' = [reg EXCEPT ![p].slot = s]
  /\ Goto(p, "mark")
  /\ UNCHANGED << spte, pagedir, frame, pool, mem, rest >>

\* bitmap_scan gives BITMAP_ERROR, a sector that block_write refuses.
SwapFull(p) ==
  /\ pc[p] = "evict"
  /\ available = {}
  /\ Panics("no slot")

\* The supplemental entry of the page that is in the frame p evicts.
VictimEntry(p) ==
  LET f == frame[reg[p].kpage] IN spte[f.t][f.upage]

\* The owner of the victim has removed the entry: vm_supt_set_swap returns an
\* ignored FALSE, or writes to freed memory, and vm_supt_set_dirty panics.
VictimGone(p) ==
  /\ pc[p] \in {"mark", "index", "dirty"}
  /\ VictimEntry(p).status = "gone"
  /\ Panics("set dirty")

\* vm_supt_set_swap: status and kpage first.  What a process that leaves finds
\* between the two is DestroyTorn; no other step looks at both.
Mark(p) ==
  LET f == frame[reg[p].kpage] IN
  /\ pc[p] = "mark"
  /\ VictimEntry(p).status # "gone"
  /\ spte' = [spte EXCEPT ![f.t][f.upage].status = "swap",
                          ![f.t][f.upage].kpage = None]
  /\ Goto(p, "index")
  /\ UNCHANGED << reg, pagedir, frame, pool, mem, slots, rest >>

\* Then swap_index, which the owner may meanwhile have read.
Index(p) ==
  LET f == frame[reg[p].kpage] IN
  /\ pc[p] = "index"
  /\ VictimEntry(p).status # "gone"
  /\ spte' = [spte EXCEPT ![f.t][f.upage].slot = reg[p].slot]
  /\ Goto(p, "dirty")
  /\ UNCHANGED << reg, pagedir, frame, pool, mem, slots, rest >>

\* vm_supt_set_dirty, vm_frame_do_free and palloc_get_page: the new frame need
\* not be the one that was evicted.
Take(p) ==
  LET k == reg[p].kpage IN
  /\ pc[p] = "dirty"
  /\ VictimEntry(p).status # "gone"
  /\ \E l \in pool \union {k} :
       /\ pool' = (pool \union {k}) \ {l}
       /\ frame' = [frame EXCEPT ![k] = None, ![l] = FrameOf(p, reg[p].upage)]
       /\ reg' = [reg EXCEPT ![p].kpage = l, ![p].slot = None]
  /\ frame_lock' = None
  /\ Goto(p, "fill")
  /\ UNCHANGED << spte, pagedir, mem, slots, filesys_lock, panic, val, stray >>

-------------------------------------------------------------------------------
\* vm_load_page: memset or file_read for a page that was never loaded.
FillFresh(p) ==
  /\ pc[p] = "fill"
  /\ spte[p][reg[p].upage].status = "fresh"
  /\ mem' = [mem EXCEPT ![reg[p].kpage] = Zero]
  /\ Goto(p, "map")
  /\ UNCHANGED << reg, spte, pagedir, frame, pool, slots, rest >>

\* vm_swap_in, which gives the slot back and panics when it is not taken.
FillSwap(p) ==
  LET s == spte[p][reg[p].upage].slot IN
  /\ pc[p] = "fill"
  /\ spte[p][reg[p].upage].status = "swap"
  /\ \/ /\ s \in available \union {None}
        /\ Panics("swap in")
     \/ /\ s \notin available \union {None}
        /\ mem' = [mem EXCEPT ![reg[p].kpage] = swap[s]]
        /\ available' = Vacated(s)
        /\ Goto(p, "map")
        /\ UNCHANGED << reg, spte, pagedir, frame, pool, swap, rest >>

\* pagedir_set_page, and the entry says ON_FRAME.
MapPage(p) ==
  /\ pc[p] = "map"
  /\ pagedir' = [pagedir EXCEPT ![p][reg[p].upage] = reg[p].kpage]
  /\ spte' = [spte EXCEPT ![p][reg[p].upage].status = "frame",
                          ![p][reg[p].upage].kpage = reg[p].kpage]
  /\ Goto(p, "unpin")
  /\ UNCHANGED << reg, frame, pool, mem, slots, rest >>

Mine(p, k) ==
  frame[k] # None /\ frame[k].t = p /\ frame[k].upage = reg[p].upage

\* The last step of a system call.
Leaves(p) == filesys_lock = p /\ reg[p].then = "run"

\* vm_frame_unpin, at the end of vm_load_page and of a system call; sys_read
\* and sys_write then release filesys_lock.
Unpin(p) ==
  /\ pc[p] = "unpin"
  /\ frame_lock = None
  /\ LET k == reg[p].kpage IN
       /\ stray' = (stray \/ (Leaves(p) /\ ~ Mine(p, k)))
       /\ \/ /\ frame[k] = None
             /\ panic' = "no such frame"
             /\ UNCHANGED << pc, reg, frame, filesys_lock >>
          \/ /\ frame[k] # None
             /\ frame' = [frame EXCEPT ![k].pinned = FALSE]
             /\ Goto(p, reg[p].then)
             /\ reg' = [reg EXCEPT ![p] =
                  IF @.then = "run" THEN NoReg ELSE [@ EXCEPT !.kpage = None]]
             /\ filesys_lock' = IF Leaves(p) THEN None ELSE filesys_lock
             /\ UNCHANGED panic
  /\ UNCHANGED << spte, pagedir, pool, mem, slots, frame_lock, val >>

-------------------------------------------------------------------------------
\* vm_pin_page: without a lock, the status is checked,
PinTest(p) ==
  /\ pc[p] = "pin"
  /\ \/ /\ spte[p][reg[p].upage].status # "frame"
        /\ Panics("status == ON_FRAME")
     \/ /\ spte[p][reg[p].upage].status = "frame"
        /\ Goto(p, "pinread")
        /\ UNCHANGED << reg, memory, rest >>

\* and kpage is read, which may be NULL by now: there is no such frame.
PinRead(p) ==
  LET k == spte[p][reg[p].upage].kpage IN
  /\ pc[p] = "pinread"
  /\ \/ /\ k = None
        /\ Panics("pin NULL")
     \/ /\ k # None
        /\ reg' = [reg EXCEPT ![p].kpage = k]
        /\ Goto(p, "pinlock")
        /\ UNCHANGED << memory, rest >>

\* vm_frame_pin.
Pin(p) ==
  /\ pc[p] = "pinlock"
  /\ frame_lock = None
  /\ LET k == reg[p].kpage IN
       /\ stray' = (stray \/ ~ Mine(p, k))
       /\ \/ /\ frame[k] = None
             /\ panic' = "no such frame"
             /\ UNCHANGED << pc, reg, frame >>
          \/ /\ frame[k] # None
             /\ frame' = [frame EXCEPT ![k].pinned = TRUE]
             /\ reg' = [reg EXCEPT ![p].kpage = None]
             /\ Goto(p, "use")
             /\ UNCHANGED panic
  /\ UNCHANGED << spte, pagedir, pool, mem, slots, locks, val >>

\* Mutant of UseDone: the buffer is not unpinned.
UseDoneKeeps(p) ==
  /\ pc[p] = "use"
  /\ reg' = [reg EXCEPT ![p] = NoReg]
  /\ Goto(p, "run")
  /\ filesys_lock' = None
  /\ UNCHANGED << memory, frame_lock, panic, val, stray >>

\* unpin_preloaded_pages: a page that is no longer ON_FRAME is left alone.
UseDone(p) ==
  /\ pc[p] = "use"
  /\ LET e == spte[p][reg[p].upage] IN
       \/ /\ e.status = "frame"
          /\ reg' = [reg EXCEPT ![p].kpage = e.kpage, ![p].then = "run"]
          /\ Goto(p, "unpin")
          /\ UNCHANGED filesys_lock
       \/ /\ e.status # "frame"
          /\ reg' = [reg EXCEPT ![p] = NoReg]
          /\ Goto(p, "run")
          /\ filesys_lock' = None
  /\ UNCHANGED << memory, frame_lock, panic, val, stray >>

-------------------------------------------------------------------------------
\* process_exit reaches vm_supt_destroy.
Exit(p) ==
  /\ pc[p] = "run"
  /\ Goto(p, "destroy")
  /\ UNCHANGED << reg, memory, rest >>

\* Process q is between the two halves of vm_supt_set_swap on this entry.
HalfMarked(p, u) ==
  \E q \in Procs : pc[q] = "index" /\ frame[reg[q].kpage].t = p
                                   /\ frame[reg[q].kpage].upage = u

\* hash_clear pops an entry and calls spte_destroy_func, which frees the swap
\* slot or goes on to vm_frame_remove_entry.
Destroy(p, u) ==
  LET e == spte[p][u] IN
  /\ pc[p] = "destroy"
  /\ e.status # "gone"
  /\ \/ /\ e.status = "fresh"
        /\ UNCHANGED << pc, reg, available, panic, stray >>
     \/ /\ e.status = "frame"
        /\ reg' = [reg EXCEPT ![p].kpage = e.kpage]
        /\ Goto(p, "remove")
        /\ UNCHANGED << available, panic, stray >>
     \/ /\ e.status = "swap"
        /\ e.slot \in available \union {None}
        /\ panic' = "swap free"
        /\ stray' = (stray \/ HalfMarked(p, u))
        /\ UNCHANGED << pc, reg, available >>
     \/ /\ e.status = "swap"
        /\ e.slot \notin available \union {None}
        /\ available' = Vacated(e.slot)
        /\ stray' = (stray \/ HalfMarked(p, u))
        /\ UNCHANGED << pc, reg, panic >>
  /\ spte' = [spte EXCEPT ![p][u] = Gone]
  /\ UNCHANGED << pagedir, frame, pool, mem, swap, locks, val >>

\* It found a frame in kpage, and then a status that is ON_SWAP already.
DestroyTorn(p, u) ==
  /\ pc[p] = "destroy"
  /\ spte[p][u].status = "frame"
  /\ \E q \in Procs : /\ pc[q] = "mark"
                      /\ frame[reg[q].kpage].t = p /\ frame[reg[q].kpage].upage = u
  /\ Panics("entry ON_FRAME")

\* vm_frame_remove_entry: the page itself is left to pagedir_destroy.
Remove(p) ==
  /\ pc[p] = "remove"
  /\ frame_lock = None
  /\ LET k == reg[p].kpage IN
       \/ /\ frame[k] = None
          /\ Panics("no such frame")
       \/ /\ frame[k] # None
          /\ frame' = [frame EXCEPT ![k] = None]
          /\ reg' = [reg EXCEPT ![p] = NoReg]
          /\ Goto(p, "destroy")
          /\ UNCHANGED << spte, pagedir, pool, mem, slots, rest >>

\* The pages of a process that are present.
Mapped(p) == {pagedir[p][u] : u \in Upages} \ {None}

\* pagedir_destroy frees the pages that are mapped.
Finish(p) ==
  /\ pc[p] = "destroy"
  /\ \A u \in Upages : spte[p][u].status = "gone"
  /\ pool' = pool \union Mapped(p)
  /\ pagedir' = [pagedir EXCEPT ![p] = [u \in Upages |-> None]]
  /\ Goto(p, "dead")
  /\ UNCHANGED << reg, spte, frame, mem, slots, rest >>

\* Another process starts: its pages are installed, none is loaded.
Start(p) ==
  /\ pc[p] = "dead"
  /\ spte' = [spte EXCEPT ![p] = [u \in Upages |-> Fresh]]
  /\ val' = [val EXCEPT ![p] = [u \in Upages |-> Zero]]
  /\ Goto(p, "run")
  /\ UNCHANGED << reg, pagedir, frame, pool, mem, slots, locks, panic, stray >>

Step(p) ==
  \/ \E u \in Upages : \/ Fault(p, u) \/ Syscall(p, u)
                       \/ Destroy(p, u) \/ DestroyTorn(p, u)
  \/ \E u \in Upages, d \in Data : Write(p, u, d)
  \/ Load(p) \/ Allocate(p) \/ Pick(p) \/ PickNone(p)
  \/ SwapOut(p) \/ SwapFull(p)
  \/ Mark(p) \/ Index(p) \/ VictimGone(p) \/ Take(p)
  \/ FillFresh(p) \/ FillSwap(p) \/ MapPage(p) \/ Unpin(p)
  \/ PinTest(p) \/ PinRead(p) \/ Pin(p) \/ UseDone(p)
  \/ Exit(p) \/ Remove(p) \/ Finish(p) \/ Start(p)

\* The machine runs until it panics.  After a stray step memory is corrupt, and
\* what follows is not looked at.
Next == panic = "none" /\ ~ stray /\ \E p \in Procs : Step(p)

Spec == Init /\ [][Next]_vars

-------------------------------------------------------------------------------
Labels == {"run", "load", "alloc", "evict", "mark", "index", "dirty", "fill",
           "map", "unpin", "pin", "pinread", "pinlock", "use", "destroy", "remove",
           "dead"}

\* Types of the variables; a process holds frame_lock in the middle of an
\* eviction and nowhere else.
TypeOK ==
  /\ pc \in [Procs -> Labels]
  /\ reg \in [Procs -> [upage : Upages \union {None},
                        kpage : Kpages \union {None},
                        slot : Slots \union {None},
                        then : {"run", "pin", "use"}]]
  /\ spte \in [Procs -> [Upages ->
                 [status : {"fresh", "frame", "swap", "gone"},
                  kpage : Kpages \union {None}, slot : Slots \union {None}]]]
  /\ pagedir \in [Procs -> [Upages -> Kpages \union {None}]]
  /\ frame \in [Kpages -> {None} \union
                  [t : Procs, upage : Upages, pinned : BOOLEAN]]
  /\ pool \subseteq Kpages
  /\ mem \in [Kpages -> Contents]
  /\ swap \in [Slots -> Contents]
  /\ available \subseteq Slots
  /\ filesys_lock \in Procs \union {None}
  /\ \A p \in Procs :
       frame_lock = p <=> pc[p] \in {"evict", "mark", "index", "dirty"}
  /\ val \in [Procs -> [Upages -> Contents]]
  /\ stray \in BOOLEAN

\* A page that is mapped holds what its process last put there, and so does
\* the slot of a page in swap until it is loaded, however often the page was
\* evicted (vm_frame_allocate, vm_swap_out, vm_swap_in).  Like the properties
\* below it is stated as long as no step took a frame or slot of another page
\* for its own.
Intact ==
  ~ stray => \A p \in Procs, u \in Upages :
    /\ pagedir[p][u] # None => mem[pagedir[p][u]] = val[p][u]
    /\ spte[p][u].status = "swap" /\ ~ HalfMarked(p, u)
         => \/ swap[spte[p][u].slot] = val[p][u]
            \/ pc[p] = "map" /\ reg[p].upage = u

\* No page of memory is mapped twice, and none is mapped and free, so that an
\* eviction or an exit takes a page from its owner alone (pagedir_clear_page,
\* vm_frame_do_free, pagedir_destroy).
OwnFrames ==
  ~ stray => \A p \in Procs, u \in Upages :
    pagedir[p][u] # None =>
      /\ pagedir[p][u] \notin pool
      /\ \A q \in Procs, v \in Upages :
           pagedir[q][v] = pagedir[p][u] => q = p /\ v = u

\* When all processes have left every page and every slot is back: none is
\* lost between the frame table, the page directories and the swap bitmap
\* (vm_supt_destroy, pagedir_destroy, vm_swap_in).
AllReturned ==
  ~ stray /\ panic = "none" /\ (\A p \in Procs : pc[p] = "dead") =>
    /\ pool = Kpages
    /\ available = Slots
    /\ \A k \in Kpages : frame[k] = None

\* The frame table and the swap bitmap are not asked for what they do not
\* have: the PANICs of vm_frame_set_pinned, vm_frame_do_free, vm_swap_in and
\* vm_swap_free are never reached, but by vm_pin_page when the page has been
\* evicted since it was tested (PinOnFrame).
NothingMissing ==
  ~ stray => panic \notin {"no such frame", "swap in", "swap free"}

\* A frame is pinned only while its process loads the page or has it as the
\* buffer of a system call (vm_frame_unpin, unpin_preloaded_pages): none is
\* out of the clock's reach for good.
PinnedInUse ==
  ~ stray => \A k \in Kpages :
    frame[k] # None /\ frame[k].pinned =>
      /\ pc[frame[k].t] \in {"fill", "map", "unpin", "use"}
      /\ reg[frame[k].t].upage = frame[k].upage

\* Not kept by the code.  vm_pin_page finds the page in memory when it was
\* loaded just before (page.c:359, ASSERT (spte->status == ON_FRAME)), and its
\* frame when the test has passed (line 360).
PinOnFrame == panic \notin {"status == ON_FRAME", "pin NULL"}

\* Not kept by the code.  The owner of an evicted page still has its entry when
\* vm_supt_set_dirty looks for it (page.c:178).
OwnerStays == panic # "set dirty"

\* Not kept by the code.  An entry that has a kpage when its owner leaves is
\* ON_FRAME (page.c:400, ASSERT (entry->status == ON_FRAME)).
EntryOnFrame == panic # "entry ON_FRAME"

\* Not kept by the code.  vm_pin_page and vm_unpin_page act on the frame of
\* their page, and spte_destroy_func on its swap slot.
NoStray == ~ stray
===============================================================================
