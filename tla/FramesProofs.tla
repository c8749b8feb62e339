------------------------------ MODULE FramesProofs ------------------------------
(***************************************************************************)
(* Proofs about Frames, for any set of processes, pages, frames and slots: *)
(* no page of memory has two owners, and a frame is pinned only while it   *)
(* is in use.  Who evicts holds frame_lock throughout, but the owner of    *)
(* the victim goes on without it: the invariant says what each still knows *)
(* at every point of its way.  The second part follows the contents of the *)
(* pages through memory and swap.                                          *)
(***************************************************************************)
EXTENDS Frames, TLAPS

Evicting == {"evict", "mark", "index", "dirty"}
Filling == {"fill", "map"}
Wanting == {"alloc"} \union Evicting \union Filling
Pinning == {"pin", "pinread", "pinlock", "use"}

\* Frame k is entered in the frame table as page u of p's.
Holds(k, p, u) == frame[k] # None /\ frame[k].t = p /\ frame[k].upage = u

Regs == [upage : Upages \union {None}, kpage : Kpages \union {None},
         slot : Slots \union {None}, then : {"run", "pin", "use"}]
Entries == [status : {"fresh", "frame", "swap", "gone"},
            kpage : Kpages \union {None}, slot : Slots \union {None}]
FrameEntries == [t : Procs, upage : Upages, pinned : BOOLEAN]

\* The types the argument rests on.
Types ==
  /\ pc \in [Procs -> Labels]
  /\ reg \in [Procs -> Regs]
  /\ spte \in [Procs -> [Upages -> Entries]]
  /\ pagedir \in [Procs -> [Upages -> Kpages \union {None}]]
  /\ frame \in [Kpages -> {None} \union FrameEntries]
  /\ pool \subseteq Kpages /\ available \subseteq Slots

\* A process has the locals that its section works with.
Locals ==
  \A p \in Procs :
    /\ pc[p] \in Wanting \union Pinning \union {"load", "unpin"} => reg[p].upage \in Upages
    /\ pc[p] \in Evicting \union Filling \union {"unpin", "pinlock", "remove"}
         => reg[p].kpage \in Kpages

\* Some process clears frame k: it has chosen it and still says so nowhere.
Clears(k) == frame_lock \in Procs /\ pc[frame_lock] \in {"evict", "mark"} /\ reg[frame_lock].kpage = k

\* Some process takes frame k, which its page no longer has.
Takes(k) == frame_lock \in Procs /\ pc[frame_lock] \in {"index", "dirty"} /\ reg[frame_lock].kpage = k

\* Who evicts has frame_lock, and who is in a system call has filesys_lock.
Locked ==
  /\ \A p \in Procs : frame_lock = p <=> pc[p] \in Evicting
  /\ \A p \in Procs :
       pc[p] \in Pinning \/ (pc[p] \in Wanting \union {"load", "unpin"} /\ reg[p].then # "run")
         => filesys_lock = p

\* The entries of a process go when it leaves, and only then.
Lives ==
  \A p \in Procs, u \in Upages :
    /\ pc[p] \notin {"destroy", "remove", "dead"} => spte[p][u].status # "gone"
    /\ pc[p] = "dead" => spte[p][u].status = "gone" /\ pagedir[p][u] = None
    /\ pc[p] \in Wanting /\ u = reg[p].upage => spte[p][u].status \in {"fresh", "swap"}

\* A page of memory is in the pool, or in the frame table, or mapped by a
\* process that has no entry for it any more.
Accounted ==
  \A k \in Kpages :
    k \in pool <=> frame[k] = None /\ \A p \in Procs, u \in Upages : pagedir[p][u] # k

\* A mapped page has one owner, who has it as its frame or is leaving.
MapsOwn ==
  \A p \in Procs, u \in Upages : pagedir[p][u] # None =>
    /\ frame[pagedir[p][u]] = None \/ Holds(pagedir[p][u], p, u)
    /\ \/ spte[p][u].status = "frame" /\ spte[p][u].kpage = pagedir[p][u]
       \/ spte[p][u].status = "gone" /\ pc[p] \in {"destroy", "remove"}
    /\ \A q \in Procs, v \in Upages : pagedir[q][v] = pagedir[p][u] => q = p /\ v = u

\* A page that is said to be in memory is in its frame, and mapped until
\* somebody evicts it.
EntriesTrue ==
  \A p \in Procs, u \in Upages : spte[p][u].status = "frame" =>
    /\ spte[p][u].kpage \in Kpages
    /\ Holds(spte[p][u].kpage, p, u)
    /\ \/ pagedir[p][u] = spte[p][u].kpage
       \/ Clears(spte[p][u].kpage)

\* No page has two frames.
OneFrame ==
  \A p \in Procs, u \in Upages, k, l \in Kpages : Holds(k, p, u) /\ Holds(l, p, u) => k = l

\* Each frame belongs to somebody: to the entry of its page, to the process
\* that fills or removes it, or to the one that evicts it.
FramesUsed ==
  \A p \in Procs, u \in Upages, k \in Kpages : Holds(k, p, u) =>
    \/ spte[p][u].status = "frame" /\ spte[p][u].kpage = k
    \/ pc[p] \in Filling /\ reg[p].upage = u /\ reg[p].kpage = k
    \/ pc[p] = "remove" /\ reg[p].kpage = k
    \/ Takes(k)

Unmapped(k) == \A p \in Procs, u \in Upages : pagedir[p][u] # k

\* The frame a process fills, evicts, unpins after loading or removes.
Working(p) ==
  /\ pc[p] \in Filling =>
       Mine(p, reg[p].kpage) /\ frame[reg[p].kpage].pinned /\ Unmapped(reg[p].kpage)
  /\ pc[p] = "unpin" /\ ~ Leaves(p) =>
       Mine(p, reg[p].kpage) /\ frame[reg[p].kpage].pinned
  /\ pc[p] = "remove" =>
       /\ frame[reg[p].kpage] # None /\ frame[reg[p].kpage].t = p
       /\ spte[p][frame[reg[p].kpage].upage].status = "gone"
       /\ \/ pagedir[p][frame[reg[p].kpage].upage] = reg[p].kpage
          \/ Clears(reg[p].kpage)
  /\ pc[p] \in Evicting =>
       /\ frame[reg[p].kpage] # None /\ ~ frame[reg[p].kpage].pinned /\ Unmapped(reg[p].kpage)
       /\ pc[p] = "index" => VictimEntry(p).status = "swap"
       /\ pc[p] = "dirty" => VictimEntry(p).status # "frame"

AtWork == \A p \in Procs : Working(p)

\* A pinned frame is being filled, or is the buffer of a system call.
Pinned(k) ==
  frame[k] # None /\ frame[k].pinned =>
    /\ pc[frame[k].t] \in {"fill", "map", "unpin", "use"}
    /\ reg[frame[k].t].upage = frame[k].upage

Pins == \A k \in Kpages : Pinned(k)

FrameInv == Types /\ Locals /\ Locked /\ Lives /\ Accounted /\ MapsOwn /\ EntriesTrue /\ OneFrame
            /\ FramesUsed /\ AtWork /\ Pins

-------------------------------------------------------------------------------
\* What is pinned stays in use when the frame table does not change.
LEMMA PinsKept ==
  ASSUME FrameInv, NEW p \in Procs, frame' = frame,
         \A q \in Procs \ {p} : pc'[q] = pc[q] /\ reg'[q] = reg[q],
         \A k \in Kpages : frame[k] # None /\ frame[k].t = p /\ frame[k].pinned =>
           /\ pc'[p] \in {"fill", "map", "unpin", "use"}
           /\ reg'[p].upage = frame[k].upage
  PROVE  Pins'
<1> SUFFICES ASSUME NEW k \in Kpages PROVE Pinned(k)'
  BY DEF Pins
<1>1. frame[k] # None => frame[k].t \in Procs
  BY DEF FrameInv, Types, FrameEntries
<1> QED
  BY <1>1 DEF FrameInv, Pins, Pinned

\* A process that is not at one of these sections has no frame pinned.
LEMMA NonePinned ==
  ASSUME FrameInv, NEW p \in Procs, pc[p] \notin {"fill", "map", "unpin", "use"},
         NEW k \in Kpages, frame[k] # None, frame[k].pinned
  PROVE  frame[k].t # p
  BY DEF FrameInv, Pins, Pinned

\* A step of p that leaves the frame table, the pool, the entries and the page
\* directories alone, and neither begins nor ends a piece of work on a frame.
LEMMA QuietStep ==
  ASSUME FrameInv, NEW p \in Procs,
         UNCHANGED << spte, pagedir, frame, pool, frame_lock >>,
         \A q \in Procs \ {p} : /\ pc'[q] = pc[q] /\ reg'[q] = reg[q]
                                /\ filesys_lock' = q <=> filesys_lock = q,
         Types', Locals', Locked', Lives',
         pc[p] \notin {"index", "dirty", "remove", "destroy"},
         pc'[p] \notin {"index", "dirty", "remove"},
         pc'[p] \in {"evict", "mark"} <=> pc[p] \in {"evict", "mark"},
         pc'[p] \in Filling <=> pc[p] \in Filling,
         pc[p] \in {"evict", "mark"} \union Filling =>
           reg'[p].kpage = reg[p].kpage /\ reg'[p].upage = reg[p].upage,
         pc'[p] = "unpin" => Leaves(p)',
         \A k \in Kpages : frame[k] # None /\ frame[k].t = p /\ frame[k].pinned =>
           /\ pc'[p] \in {"fill", "map", "unpin", "use"}
           /\ reg'[p].upage = frame[k].upage
  PROVE  FrameInv'
<1>1. \A k : (Clears(k)' <=> Clears(k)) /\ (Takes(k)' <=> Takes(k))
  BY DEF Clears, Takes
<1>2. \A k, q, u : Holds(k, q, u)' <=> Holds(k, q, u)
  BY DEF Holds
<1>3. Accounted' /\ OneFrame'
  BY <1>2 DEF FrameInv, Accounted, OneFrame
<1>4. MapsOwn'
  BY <1>2 DEF FrameInv, MapsOwn
<1>5. EntriesTrue'
  BY <1>1, <1>2 DEF FrameInv, EntriesTrue
<1>6. FramesUsed'
  BY <1>1, <1>2 DEF FrameInv, FramesUsed
<1>7. AtWork'
  <2> SUFFICES ASSUME NEW q \in Procs PROVE Working(q)'
    BY DEF AtWork
  <2>1. CASE q = p
    <3>1. pc'[p] \in Filling =>
            Mine(p, reg[p].kpage)' /\ frame[reg'[p].kpage].pinned /\ Unmapped(reg[p].kpage)'
      BY DEF FrameInv, AtWork, Working, Mine, Unmapped
    <3>2. pc'[p] \in {"evict", "mark"} =>
            /\ frame[reg'[p].kpage] # None /\ ~ frame[reg'[p].kpage].pinned
            /\ Unmapped(reg[p].kpage)'
      BY DEF FrameInv, AtWork, Working, Evicting, Unmapped
    <3> QED
      BY <2>1, <3>1, <3>2 DEF Working, Evicting
  <2>2. CASE q # p
    <3>1. Working(q) /\ pc'[q] = pc[q] /\ reg'[q] = reg[q]
      BY <2>2 DEF FrameInv, AtWork
    <3>2. Leaves(q)' <=> Leaves(q)
      BY <2>2, <3>1 DEF Leaves
    <3>3. \A k : (Mine(q, k)' <=> Mine(q, k)) /\ (Unmapped(k)' <=> Unmapped(k))
      BY <3>1 DEF Mine, Unmapped
    <3>4. VictimEntry(q)' = VictimEntry(q)
      BY <3>1 DEF VictimEntry
    <3> QED
      BY <1>1, <3>1, <3>2, <3>3, <3>4 DEF Working
  <2> QED
    BY <2>1, <2>2
<1>8. Pins'
  BY PinsKept
<1> QED
  BY <1>3, <1>4, <1>5, <1>6, <1>7, <1>8 DEF FrameInv

\* A frame of p's that is pinned while p uses it is in memory.
LEMMA PinnedMapped ==
  ASSUME FrameInv, NEW p \in Procs, pc[p] = "use",
         NEW k \in Kpages, frame[k] # None, frame[k].t = p, frame[k].pinned
  PROVE  LET u == reg[p].upage IN
           /\ frame[k].upage = u
           /\ spte[p][u].status = "frame" /\ spte[p][u].kpage = k /\ pagedir[p][u] = k
<1> DEFINE u == reg[p].upage
<1>1. frame[k].upage = u /\ u \in Upages
  BY DEF FrameInv, Pins, Pinned, Types, FrameEntries
<1>2. Holds(k, p, u)
  BY <1>1 DEF Holds
<1>3. ~ Clears(k) /\ ~ Takes(k)
  BY DEF FrameInv, AtWork, Working, Clears, Takes, Evicting
<1>4. spte[p][u].status = "frame" /\ spte[p][u].kpage = k
  BY <1>1, <1>2, <1>3 DEF FrameInv, FramesUsed, Filling
<1> QED
  BY <1>1, <1>3, <1>4 DEF FrameInv, EntriesTrue

\* A step that changes nothing of all this.
LEMMA StillStep ==
  ASSUME FrameInv, UNCHANGED << pc, reg, spte, pagedir, frame, pool, locks >>,
         available' \subseteq Slots
  PROVE  FrameInv'
<1>1. \A k : (Clears(k)' <=> Clears(k)) /\ (Takes(k)' <=> Takes(k))
  BY DEF Clears, Takes, locks
<1>2. \A k, q, u : Holds(k, q, u)' <=> Holds(k, q, u)
  BY DEF Holds
<1>3. Types' /\ Locals' /\ Locked' /\ Lives' /\ Accounted' /\ Pins'
  BY DEF FrameInv, Types, Locals, Locked, Lives, Accounted, Pins, Pinned, locks
<1>4. MapsOwn' /\ EntriesTrue' /\ OneFrame' /\ FramesUsed'
  BY <1>1, <1>2 DEF FrameInv, MapsOwn, EntriesTrue, OneFrame, FramesUsed
<1>5. AtWork'
  BY <1>1 DEF FrameInv, AtWork, Working, Mine, Leaves, Unmapped, VictimEntry, locks
<1> QED
  BY <1>3, <1>4, <1>5 DEF FrameInv

\* What a process notes down has its type.
LEMMA RegType ==
  ASSUME FrameInv, NEW p \in Procs, NEW r \in Regs, reg' = [reg EXCEPT ![p] = r],
         NEW l \in Labels, pc' = [pc EXCEPT ![p] = l]
  PROVE  /\ reg' \in [Procs -> Regs] /\ pc' \in [Procs -> Labels]
         /\ reg'[p] = r /\ pc'[p] = l
         /\ \A q \in Procs \ {p} : reg'[q] = reg[q] /\ pc'[q] = pc[q]
  BY DEF FrameInv, Types

\* page_fault sends the process to vm_load_page.
LEMMA FaultStep ==
  ASSUME FrameInv, NEW p \in Procs, NEW u \in Upages, Fault(p, u)
  PROVE  FrameInv'
<1> DEFINE r == [reg[p] EXCEPT !.upage = u, !.then = pc[p]]
<1>1. /\ pc[p] \in {"run", "use"} /\ (pc[p] = "use" => u = reg[p].upage)
      /\ pagedir[p][u] = None
      /\ pc' = [pc EXCEPT ![p] = "load"] /\ reg' = [reg EXCEPT ![p] = r]
      /\ UNCHANGED << spte, pagedir, frame, pool, available, frame_lock, filesys_lock >>
  BY DEF Fault, Goto, memory, slots, rest, locks
<1>2. r \in Regs /\ r.upage = u /\ r.kpage = reg[p].kpage /\ r.then = pc[p]
  BY <1>1 DEF FrameInv, Types, Regs
<1>3. /\ reg' \in [Procs -> Regs] /\ pc' \in [Procs -> Labels]
      /\ reg'[p] = r /\ pc'[p] = "load"
      /\ \A q \in Procs \ {p} : reg'[q] = reg[q] /\ pc'[q] = pc[q]
  BY <1>1, <1>2, RegType DEF Labels
<1>4. Types'
  BY <1>1, <1>3 DEF FrameInv, Types
<1>5. Locals'
  BY <1>2, <1>3 DEF FrameInv, Locals, Wanting, Evicting, Filling, Pinning
<1>6. Locked'
  BY <1>1, <1>2, <1>3 DEF FrameInv, Locked, Wanting, Evicting, Filling, Pinning
<1>7. Lives'
  BY <1>1, <1>3 DEF FrameInv, Lives, Wanting, Evicting, Filling
<1>8. ASSUME NEW k \in Kpages, frame[k] # None, frame[k].t = p, frame[k].pinned
      PROVE  FALSE
  BY <1>1, <1>8, NonePinned, PinnedMapped, NoneAssumption
<1> QED
  BY <1>1, <1>3, <1>4, <1>5, <1>6, <1>7, <1>8, QuietStep DEF Filling

\* preload_and_pin_pages, with filesys_lock, does too.
LEMMA SyscallStep ==
  ASSUME FrameInv, NEW p \in Procs, NEW u \in Upages, Syscall(p, u)
  PROVE  FrameInv'
<1> DEFINE r == [reg[p] EXCEPT !.upage = u, !.then = "pin"]
<1>1. /\ pc[p] = "run" /\ filesys_lock = None /\ filesys_lock' = p
      /\ pc' = [pc EXCEPT ![p] = "load"] /\ reg' = [reg EXCEPT ![p] = r]
      /\ UNCHANGED << spte, pagedir, frame, pool, available, frame_lock >>
  BY DEF Syscall, Goto, memory, slots
<1>2. r \in Regs /\ r.upage = u /\ r.kpage = reg[p].kpage
  BY <1>1 DEF FrameInv, Types, Regs
<1>3. /\ reg' \in [Procs -> Regs] /\ pc' \in [Procs -> Labels]
      /\ reg'[p] = r /\ pc'[p] = "load"
      /\ \A q \in Procs \ {p} : reg'[q] = reg[q] /\ pc'[q] = pc[q]
  BY <1>1, <1>2, RegType DEF Labels
<1>4. Types'
  BY <1>1, <1>3 DEF FrameInv, Types
<1>5. Locals'
  BY <1>2, <1>3 DEF FrameInv, Locals, Wanting, Evicting, Filling, Pinning
<1>6. Locked'
  BY <1>1, <1>3, NoneAssumption DEF FrameInv, Locked, Wanting, Evicting, Filling, Pinning
<1>7. Lives'
  BY <1>1, <1>3 DEF FrameInv, Lives, Wanting, Evicting, Filling
<1>8. \A k \in Kpages : ~ (frame[k] # None /\ frame[k].t = p /\ frame[k].pinned)
  BY <1>1, NonePinned
<1>9. \A q \in Procs \ {p} : filesys_lock' = q <=> filesys_lock = q
  BY <1>1, NoneAssumption
<1> QED
  BY <1>1, <1>3, <1>4, <1>5, <1>6, <1>7, <1>8, <1>9, QuietStep DEF Filling

\* Steps that only go on to another section.
LEMMA GoStep ==
  ASSUME FrameInv, NEW p \in Procs, NEW l \in Labels, Goto(p, l),
         UNCHANGED << reg, spte, pagedir, frame, pool, locks >>,
         available' \subseteq Slots,
         \/ pc[p] = "run" /\ l = "destroy"
         \/ pc[p] = "load" /\ l = reg[p].then
         \/ pc[p] = "load" /\ l = "alloc" /\ spte[p][reg[p].upage].status # "frame"
         \/ pc[p] = "fill" /\ l = "map"
         \/ pc[p] = "pin" /\ l = "pinread"
  PROVE  FrameInv'
<1>1. /\ pc' \in [Procs -> Labels] /\ pc'[p] = l
      /\ \A q \in Procs \ {p} : pc'[q] = pc[q]
  BY DEF Goto, FrameInv, Types
<1>2. reg[p] \in Regs
  BY DEF FrameInv, Types
<1>3. Types'
  BY <1>1 DEF FrameInv, Types
<1>4. Locals'
  BY <1>1, <1>2 DEF FrameInv, Locals, Wanting, Evicting, Filling, Pinning, Regs
<1>5. Locked'
  BY <1>1, <1>2 DEF FrameInv, Locked, Wanting, Evicting, Filling, Pinning, Regs, locks
<1>6. Lives'
  <2>1. \A u \in Upages : spte[p][u].status \in {"fresh", "frame", "swap", "gone"}
    BY DEF FrameInv, Types, Entries
  <2> QED
    BY <1>1, <1>2, <2>1 DEF FrameInv, Lives, Wanting, Evicting, Filling, Regs
<1>7. \A k \in Kpages : frame[k] # None /\ frame[k].t = p /\ frame[k].pinned =>
        pc'[p] = "map" /\ reg'[p].upage = frame[k].upage
  BY <1>1, NonePinned DEF FrameInv, Pins, Pinned
<1> QED
  BY <1>1, <1>2, <1>3, <1>4, <1>5, <1>6, <1>7, QuietStep DEF Filling, Regs, locks

\* A step that also notes something down, in the middle of an eviction or of a
\* system call.
LEMMA NoteStep ==
  ASSUME FrameInv, NEW p \in Procs, NEW l \in Labels, Goto(p, l),
         NEW r \in Regs, reg' = [reg EXCEPT ![p] = r],
         UNCHANGED << spte, pagedir, frame, pool, frame_lock >>, available' \subseteq Slots,
         r.upage = reg[p].upage,
         \/ pc[p] = "evict" /\ l = "mark" /\ r.kpage = reg[p].kpage /\ r.then = reg[p].then
            /\ filesys_lock' = filesys_lock
         \/ pc[p] = "pinread" /\ l = "pinlock" /\ r.kpage \in Kpages
            /\ filesys_lock' = filesys_lock
         \/ pc[p] = "use" /\ l = "unpin" /\ r.kpage \in Kpages /\ r.then = "run"
            /\ filesys_lock' = filesys_lock
  PROVE  FrameInv'
<1>1. /\ reg' \in [Procs -> Regs] /\ pc' \in [Procs -> Labels]
      /\ reg'[p] = r /\ pc'[p] = l
      /\ \A q \in Procs \ {p} : reg'[q] = reg[q] /\ pc'[q] = pc[q]
  BY RegType DEF Goto
<1>2. Types'
  BY <1>1 DEF FrameInv, Types
<1>3. Locals'
  BY <1>1 DEF FrameInv, Locals, Wanting, Evicting, Filling, Pinning
<1>4. Locked'
  BY <1>1 DEF FrameInv, Locked, Wanting, Evicting, Filling, Pinning
<1>5. Lives'
  BY <1>1 DEF FrameInv, Lives, Wanting, Evicting, Filling
<1>6. \A k \in Kpages : frame[k] # None /\ frame[k].t = p /\ frame[k].pinned =>
        pc'[p] = "unpin" /\ reg'[p].upage = frame[k].upage
  BY <1>1, NonePinned DEF FrameInv, Pins, Pinned
<1>7. pc'[p] = "unpin" => Leaves(p)'
  BY <1>1 DEF FrameInv, Locked, Pinning, Leaves
<1> QED
  BY <1>1, <1>2, <1>3, <1>4, <1>5, <1>6, <1>7, QuietStep DEF Filling

\* unpin_preloaded_pages finds the page gone, and the call returns.
LEMMA UseGoneStep ==
  ASSUME FrameInv, NEW p \in Procs, pc[p] = "use", Goto(p, "run"),
         reg' = [reg EXCEPT ![p] = NoReg], filesys_lock' = None,
         UNCHANGED << spte, pagedir, frame, pool, available, frame_lock >>,
         spte[p][reg[p].upage].status # "frame"
  PROVE  FrameInv'
<1>1. NoReg \in Regs
  BY DEF NoReg, Regs
<1>2. /\ reg' \in [Procs -> Regs] /\ pc' \in [Procs -> Labels]
      /\ reg'[p] = NoReg /\ pc'[p] = "run"
      /\ \A q \in Procs \ {p} : reg'[q] = reg[q] /\ pc'[q] = pc[q]
  BY <1>1, RegType DEF Goto, Labels
<1>3. filesys_lock = p
  BY DEF FrameInv, Locked, Pinning
<1>4. Types'
  BY <1>2 DEF FrameInv, Types
<1>5. Locals'
  BY <1>2 DEF FrameInv, Locals, Wanting, Evicting, Filling, Pinning
<1>6. Locked'
  BY <1>2, <1>3 DEF FrameInv, Locked, Wanting, Evicting, Filling, Pinning
<1>7. Lives'
  BY <1>2 DEF FrameInv, Lives, Wanting, Evicting, Filling
<1>8. \A k \in Kpages : ~ (frame[k] # None /\ frame[k].t = p /\ frame[k].pinned)
  BY PinnedMapped
<1>9. \A q \in Procs \ {p} : filesys_lock' = q <=> filesys_lock = q
  BY <1>3, NoneAssumption
<1> QED
  BY <1>2, <1>4, <1>5, <1>6, <1>7, <1>8, <1>9, QuietStep DEF Filling

\* The steps that leave the frame table, the pool, the entries and the page
\* directories alone.
LEMMA QuietActions ==
  ASSUME FrameInv, NEW p \in Procs,
         \/ \E u \in Upages : \/ Fault(p, u) \/ Syscall(p, u)
                              \/ \E d \in Data : Write(p, u, d)
         \/ Load(p) \/ PickNone(p) \/ SwapOut(p) \/ SwapFull(p) \/ VictimGone(p)
         \/ FillFresh(p) \/ FillSwap(p) \/ PinTest(p) \/ PinRead(p) \/ UseDone(p) \/ Exit(p)
         \/ \E u \in Upages : DestroyTorn(p, u)
  PROVE  FrameInv'
<1>0. reg[p] \in Regs /\ available \subseteq Slots
  BY DEF FrameInv, Types
<1>1. CASE \E u \in Upages, d \in Data : Write(p, u, d)
  BY <1>1, <1>0, StillStep DEF Write, slots
<1>2. CASE PickNone(p) \/ SwapFull(p) \/ VictimGone(p)
  BY <1>2, <1>0, StillStep DEF PickNone, SwapFull, VictimGone, Panics, memory, slots
<1>3. CASE Load(p)
  BY <1>3, <1>0, GoStep DEF Load, Regs, Labels, memory, slots, rest
<1>4. CASE FillFresh(p)
  BY <1>4, <1>0, GoStep DEF FillFresh, Labels, slots, rest
<1>5. CASE Exit(p)
  BY <1>5, <1>0, GoStep DEF Exit, Labels, memory, slots, rest
<1>10. CASE PinTest(p)
  <2>1. CASE Panics("status == ON_FRAME")
    BY <2>1, <1>0, StillStep DEF Panics, memory, slots
  <2>2. CASE ~ Panics("status == ON_FRAME")
    BY <1>0, <1>10, <2>2, GoStep DEF PinTest, Labels, memory, slots, rest
  <2> QED
    BY <2>1, <2>2
<1>11. CASE \E u \in Upages : DestroyTorn(p, u)
  BY <1>11, <1>0, StillStep DEF DestroyTorn, Panics, memory, slots
<1>6. CASE FillSwap(p)
  <2> DEFINE s == spte[p][reg[p].upage].slot
  <2>1. pc[p] = "fill" /\ reg[p].upage \in Upages
    BY <1>6 DEF FillSwap, FrameInv, Locals, Wanting, Filling
  <2>2. s \in Slots \union {None}
    BY <2>1 DEF FrameInv, Types, Entries
  <2>3. CASE Panics("swap in")
    BY <2>3, <1>0, StillStep DEF Panics, memory, slots
  <2>4. CASE ~ Panics("swap in")
    <3>1. /\ s # None /\ available' = available \union {s} /\ Goto(p, "map")
          /\ UNCHANGED << reg, spte, pagedir, frame, pool, locks >>
      BY <1>6, <2>4 DEF FillSwap, Vacated, rest
    <3> QED
      BY <1>0, <2>1, <2>2, <3>1, GoStep DEF Labels
  <2> QED
    BY <2>3, <2>4
<1>7. CASE SwapOut(p)
  <2>1. PICK s \in available : reg' = [reg EXCEPT ![p] = [reg[p] EXCEPT !.slot = s]]
    BY <1>7 DEF SwapOut
  <2> DEFINE r == [reg[p] EXCEPT !.slot = s]
  <2>2. r \in Regs /\ r.upage = reg[p].upage /\ r.kpage = reg[p].kpage /\ r.then = reg[p].then
    BY <1>0, <2>1 DEF Regs
  <2>3. /\ pc[p] = "evict" /\ Goto(p, "mark") /\ available' \subseteq Slots
        /\ UNCHANGED << spte, pagedir, frame, pool, locks >>
    BY <1>0, <1>7 DEF SwapOut, Occupied, rest
  <2> QED
    BY <2>1, <2>2, <2>3, NoteStep DEF Labels, locks
<1>8. CASE PinRead(p)
  <2>1. CASE Panics("pin NULL")
    BY <2>1, <1>0, StillStep DEF Panics, memory, slots
  <2>2. CASE ~ Panics("pin NULL")
    <3> DEFINE k == spte[p][reg[p].upage].kpage
               r == [reg[p] EXCEPT !.kpage = k]
    <3>1. /\ pc[p] = "pinread" /\ k # None
          /\ reg' = [reg EXCEPT ![p] = r] /\ Goto(p, "pinlock")
          /\ UNCHANGED << spte, pagedir, frame, pool, available, locks >>
      BY <1>8, <2>2 DEF PinRead, memory, slots, rest
    <3>2. k \in Kpages
      BY <3>1 DEF FrameInv, Types, Entries, Locals, Pinning
    <3>3. r \in Regs /\ r.upage = reg[p].upage /\ r.kpage = k
      BY <1>0, <3>2 DEF Regs
    <3> QED
      BY <1>0, <3>1, <3>2, <3>3, NoteStep DEF Labels, locks
  <2> QED
    BY <2>1, <2>2
<1>9. CASE UseDone(p)
  <2> DEFINE e == spte[p][reg[p].upage]
  <2>1. /\ pc[p] = "use"
        /\ UNCHANGED << spte, pagedir, frame, pool, available, frame_lock >>
    BY <1>9 DEF UseDone, memory, slots
  <2>2. CASE e.status = "frame"
    <3> DEFINE r == [reg[p] EXCEPT !.kpage = e.kpage, !.then = "run"]
    <3>1. /\ reg' = [reg EXCEPT ![p] = r] /\ Goto(p, "unpin")
          /\ filesys_lock' = filesys_lock
      BY <1>9, <2>2 DEF UseDone
    <3>2. e.kpage \in Kpages
      BY <2>1, <2>2 DEF FrameInv, EntriesTrue, Locals, Pinning
    <3>3. r \in Regs /\ r.upage = reg[p].upage /\ r.kpage = e.kpage /\ r.then = "run"
      BY <1>0, <3>2 DEF Regs
    <3> QED
      BY <1>0, <2>1, <3>1, <3>2, <3>3, NoteStep DEF Labels
  <2>3. CASE e.status # "frame"
    BY <1>9, <2>1, <2>3, UseGoneStep DEF UseDone
  <2> QED
    BY <2>2, <2>3
<1> QED
  BY <1>1, <1>2, <1>3, <1>4, <1>5, <1>6, <1>7, <1>8, <1>9, <1>10, <1>11, FaultStep,
     SyscallStep

\* vm_frame_allocate with a page of the pool.
LEMMA AllocateStep ==
  ASSUME FrameInv, NEW p \in Procs, Allocate(p)
  PROVE  FrameInv'
<1> DEFINE u == reg[p].upage
<1>1. PICK k \in pool :
        /\ pool' = pool \ {k}
        /\ frame' = [frame EXCEPT ![k] = FrameOf(p, u)]
        /\ reg' = [reg EXCEPT ![p] = [reg[p] EXCEPT !.kpage = k]]
  BY DEF Allocate
<1> DEFINE r == [reg[p] EXCEPT !.kpage = k]
<1>2. /\ pc[p] = "alloc" /\ frame_lock = None /\ pc' = [pc EXCEPT ![p] = "fill"]
      /\ UNCHANGED << spte, pagedir, available, frame_lock, filesys_lock >>
  BY DEF Allocate, Goto, slots, rest, locks
<1>3. r \in Regs /\ r.upage = u /\ r.kpage = k /\ r.then = reg[p].then /\ k \in Kpages /\ u \in Upages
  BY <1>2 DEF FrameInv, Types, Regs, Locals, Wanting
<1>4. /\ reg' \in [Procs -> Regs] /\ pc' \in [Procs -> Labels]
      /\ reg'[p] = r /\ pc'[p] = "fill"
      /\ \A q \in Procs \ {p} : reg'[q] = reg[q] /\ pc'[q] = pc[q]
  BY <1>1, <1>2, <1>3, RegType DEF Labels
<1> HIDE DEF r
<1>5. frame[k] = None /\ Unmapped(k)
  BY <1>1, <1>3 DEF FrameInv, Accounted, Unmapped
<1>6. /\ frame'[k] # None /\ frame'[k].t = p /\ frame'[k].upage = u /\ frame'[k].pinned
      /\ \A j \in Kpages \ {k} : frame'[j] = frame[j]
      /\ frame' \in [Kpages -> {None} \union FrameEntries]
  <2>1. FrameOf(p, u) \in FrameEntries
    BY <1>3 DEF FrameOf, FrameEntries
  <2>2. None \notin FrameEntries
    BY EntryAssumption DEF FrameEntries
  <2> QED
    BY <1>1, <1>3, <2>1, <2>2 DEF FrameInv, Types, FrameOf
<1>7. Types'
  BY <1>1, <1>2, <1>4, <1>6 DEF FrameInv, Types
<1>8. Locals'
  BY <1>3, <1>4 DEF FrameInv, Locals, Wanting, Evicting, Filling, Pinning
<1>9. Locked'
  BY <1>2, <1>3, <1>4 DEF FrameInv, Locked, Wanting, Evicting, Filling, Pinning
<1>10. Lives'
  BY <1>2, <1>3, <1>4 DEF FrameInv, Lives, Wanting, Evicting, Filling
<1>11. Accounted'
  BY <1>1, <1>2, <1>6 DEF FrameInv, Accounted
<1>12. \A j \in Kpages : \A q, v : Holds(j, q, v)' <=> (Holds(j, q, v) \/ (j = k /\ q = p /\ v = u))
  BY <1>5, <1>6 DEF Holds
<1>13. \A j : ~ Clears(j) /\ ~ Takes(j) /\ ~ Clears(j)' /\ ~ Takes(j)'
  BY <1>2, NoneAssumption DEF Clears, Takes
<1>14. \A j \in Kpages : ~ Holds(j, p, u)
  BY <1>2, <1>3, <1>13 DEF FrameInv, FramesUsed, Lives, Wanting, Filling
<1>15. MapsOwn'
  BY <1>1, <1>2, <1>4, <1>5, <1>6 DEF FrameInv, Types, MapsOwn, Unmapped, Holds
<1>16. EntriesTrue'
  BY <1>2, <1>12, <1>13 DEF FrameInv, EntriesTrue
<1>17. OneFrame'
  BY <1>12, <1>14 DEF FrameInv, OneFrame
<1>18. FramesUsed'
  BY <1>2, <1>3, <1>4, <1>12, <1>13 DEF FrameInv, FramesUsed, Filling
<1>19. AtWork'
  <2> SUFFICES ASSUME NEW q \in Procs PROVE Working(q)'
    BY DEF AtWork
  <2>1. CASE q = p
    BY <1>2, <1>3, <1>4, <1>5, <1>6, <2>1
       DEF Working, Filling, Evicting, Mine, Unmapped
  <2>2. CASE q # p
    <3>1. pc[q] \in Evicting \union Filling \union {"unpin", "remove"} => reg[q].kpage \in Kpages
      BY DEF FrameInv, Locals
    <3>2. pc[q] \notin Evicting
      BY <1>2, NoneAssumption DEF FrameInv, Locked
    <3>3. Working(q)
      BY DEF FrameInv, AtWork
    <3> QED
      BY <1>2, <1>4, <1>5, <1>6, <1>13, <2>2, <3>1, <3>2, <3>3
         DEF Working, Filling, Evicting, Mine, Unmapped, Leaves
  <2> QED
    BY <2>1, <2>2
<1>20. Pins'
  <2> SUFFICES ASSUME NEW j \in Kpages PROVE Pinned(j)'
    BY DEF Pins
  <2>1. CASE j = k
    BY <1>3, <1>4, <1>6, <2>1 DEF Pinned
  <2>2. CASE j # k
    <3>1. frame[j] # None => frame[j].t \in Procs
      BY DEF FrameInv, Types, FrameEntries
    <3>2. Pinned(j)
      BY DEF FrameInv, Pins
    <3> QED
      BY <1>2, <1>4, <1>6, <2>2, <3>1, <3>2 DEF Pinned
  <2> QED
    BY <2>1, <2>2
<1> QED
  BY <1>7, <1>8, <1>9, <1>10, <1>11, <1>15, <1>16, <1>17, <1>18, <1>19, <1>20 DEF FrameInv

\* A frame is the frame of one page.
LEMMA FrameOwner ==
  ASSUME FrameInv, NEW k \in Kpages, frame[k] # None
  PROVE  /\ frame[k].t \in Procs /\ frame[k].upage \in Upages
         /\ Holds(k, frame[k].t, frame[k].upage)
         /\ \A q, v : Holds(k, q, v) => q = frame[k].t /\ v = frame[k].upage
  BY DEF FrameInv, Types, FrameEntries, Holds

\* A frame that may be evicted is mapped, while nobody evicts.
LEMMA VictimMapped ==
  ASSUME FrameInv, frame_lock = None, NEW k \in Kpages, frame[k] # None, ~ frame[k].pinned
  PROVE  pagedir[frame[k].t][frame[k].upage] = k
<1> DEFINE t == frame[k].t
           v == frame[k].upage
<1>1. t \in Procs /\ v \in Upages /\ Holds(k, t, v)
  BY FrameOwner
<1>2. ~ Clears(k) /\ ~ Takes(k)
  BY NoneAssumption DEF Clears, Takes
<1>3. CASE spte[t][v].status = "frame" /\ spte[t][v].kpage = k
  BY <1>1, <1>2, <1>3 DEF FrameInv, EntriesTrue
<1>4. CASE pc[t] \in Filling /\ reg[t].kpage = k
  BY <1>1, <1>4 DEF FrameInv, AtWork, Working
<1>5. CASE pc[t] = "remove" /\ reg[t].kpage = k
  BY <1>1, <1>2, <1>5 DEF FrameInv, AtWork, Working
<1> QED
  BY <1>1, <1>2, <1>3, <1>4, <1>5 DEF FrameInv, FramesUsed

\* pick_frame_to_evict: the victim is mapped, and then no longer.
LEMMA PickStep ==
  ASSUME FrameInv, NEW p \in Procs, Pick(p)
  PROVE  FrameInv'
<1>1. PICK k \in Unpinned :
        /\ pagedir' = [pagedir EXCEPT ![frame[k].t][frame[k].upage] = None]
        /\ reg' = [reg EXCEPT ![p] = [reg[p] EXCEPT !.kpage = k]]
  BY DEF Pick, Cleared
<1> DEFINE r == [reg[p] EXCEPT !.kpage = k]
           t == frame[k].t
           v == frame[k].upage
<1>2. /\ pc[p] = "alloc" /\ frame_lock = None /\ frame_lock' = p
      /\ pc' = [pc EXCEPT ![p] = "evict"]
      /\ UNCHANGED << spte, frame, pool, available, filesys_lock >>
      /\ pool = {}
  BY DEF Pick, Acquire, Goto, slots
<1>3. /\ k \in Kpages /\ frame[k] # None /\ ~ frame[k].pinned
      /\ r \in Regs /\ r.upage = reg[p].upage /\ r.kpage = k /\ r.then = reg[p].then
  BY DEF FrameInv, Types, Regs, Unpinned
<1>4. /\ reg' \in [Procs -> Regs] /\ pc' \in [Procs -> Labels]
      /\ reg'[p] = r /\ pc'[p] = "evict"
      /\ \A q \in Procs \ {p} : reg'[q] = reg[q] /\ pc'[q] = pc[q]
  BY <1>1, <1>2, <1>3, RegType DEF Labels
<1> HIDE DEF r
<1>5. t \in Procs /\ v \in Upages /\ Holds(k, t, v) /\ \A q, w : Holds(k, q, w) => q = t /\ w = v
  BY <1>3, FrameOwner
<1> HIDE DEF t, v
<1>6. /\ pagedir' \in [Procs -> [Upages -> Kpages \union {None}]]
      /\ pagedir'[t][v] = None
      /\ \A q \in Procs, w \in Upages : q # t \/ w # v => pagedir'[q][w] = pagedir[q][w]
  BY <1>1, <1>5 DEF FrameInv, Types, t, v
<1>7. /\ \A j : ~ Clears(j) /\ ~ Takes(j) /\ ~ Takes(j)'
      /\ \A j : Clears(j)' <=> j = k
  BY <1>2, <1>3, <1>4, NoneAssumption DEF Clears, Takes
<1>8. pagedir[t][v] = k
  BY <1>2, <1>3, VictimMapped DEF t, v
<1>9. Unmapped(k)' /\ \A j \in Kpages : Unmapped(j) => Unmapped(j)'
  <2>1. k # None /\ None \notin Kpages
    BY <1>3, NoneAssumption
  <2>2. Unmapped(k)'
    BY <1>5, <1>6, <1>8, <2>1 DEF FrameInv, MapsOwn, Unmapped
  <2>3. ASSUME NEW j \in Kpages, Unmapped(j) PROVE Unmapped(j)'
    BY <1>6, <2>1, <2>3 DEF Unmapped
  <2> QED
    BY <2>2, <2>3
<1>10. \A j, q, w : Holds(j, q, w)' <=> Holds(j, q, w)
  BY <1>2 DEF Holds
<1>11. Types'
  BY <1>2, <1>4, <1>6 DEF FrameInv, Types
<1>12. Locals'
  <2>1. reg[p].upage \in Upages
    BY <1>2 DEF FrameInv, Locals, Wanting
  <2> QED
    BY <1>3, <1>4, <2>1 DEF FrameInv, Locals
<1>13. Locked'
  BY <1>2, <1>3, <1>4, NoneAssumption DEF FrameInv, Locked, Wanting, Evicting, Filling, Pinning
<1>14. Lives'
  BY <1>2, <1>3, <1>4, <1>6 DEF FrameInv, Lives, Wanting, Evicting, Filling
<1>15. Accounted'
  BY <1>2, <1>3, <1>6, <1>8 DEF FrameInv, Accounted
<1>16. MapsOwn'
  BY <1>2, <1>4, <1>6, <1>10 DEF FrameInv, MapsOwn
<1>17. EntriesTrue'
  BY <1>2, <1>3, <1>5, <1>6, <1>7, <1>8, <1>10 DEF FrameInv, EntriesTrue, OneFrame
<1>18. OneFrame'
  BY <1>10 DEF FrameInv, OneFrame
<1>19. FramesUsed'
  BY <1>2, <1>4, <1>7, <1>10 DEF FrameInv, FramesUsed, Filling
<1>20. AtWork'
  <2> SUFFICES ASSUME NEW q \in Procs PROVE Working(q)'
    BY DEF AtWork
  <2>1. CASE q = p
    BY <1>2, <1>3, <1>4, <1>9, <2>1 DEF Working, Filling, Evicting
  <2>2. CASE q # p
    <3>1. pc[q] \notin Evicting
      BY <1>2, NoneAssumption DEF FrameInv, Locked
    <3>2. Working(q)
      BY DEF FrameInv, AtWork
    <3>3. pc[q] = "remove" => frame[reg[q].kpage].upage \in Upages
      BY <3>2, FrameOwner DEF FrameInv, Locals, Working
    <3>4. pc'[q] = pc[q] /\ reg'[q] = reg[q]
      BY <1>4, <2>2
    <3>5. CASE pc[q] = "remove"
      BY <1>2, <1>6, <1>7, <1>8, <3>2, <3>3, <3>4, <3>5 DEF Working, Filling, Evicting
    <3>6. CASE pc[q] \in Filling \union {"unpin"}
      <4>1. reg[q].kpage \in Kpages
        BY <3>6 DEF FrameInv, Locals
      <4> QED
        BY <1>2, <1>9, <3>2, <3>4, <3>6, <4>1 DEF Working, Filling, Evicting, Mine, Leaves
    <3>7. CASE pc[q] \notin Filling \union Evicting \union {"unpin", "remove"}
      BY <3>4, <3>7 DEF Working
    <3> QED
      BY <3>1, <3>5, <3>6, <3>7
  <2> QED
    BY <2>1, <2>2
<1>21. Pins'
  BY <1>2, <1>4, PinsKept, NonePinned
<1> QED
  BY <1>11, <1>12, <1>13, <1>14, <1>15, <1>16, <1>17, <1>18, <1>19, <1>20, <1>21 DEF FrameInv

\* Only one process evicts: the holder of frame_lock.
LEMMA Evictor ==
  ASSUME FrameInv, NEW p \in Procs, pc[p] \in Evicting
  PROVE  LET k == reg[p].kpage IN
         /\ frame_lock = p /\ \A q \in Procs : pc[q] \in Evicting => q = p
         /\ k \in Kpages /\ frame[k] # None /\ ~ frame[k].pinned /\ Unmapped(k)
         /\ \A j : Clears(j) <=> pc[p] \in {"evict", "mark"} /\ j = k
         /\ \A j : Takes(j) <=> pc[p] \in {"index", "dirty"} /\ j = k
<1>1. frame_lock = p /\ \A q \in Procs : pc[q] \in Evicting => q = p
  BY DEF FrameInv, Locked
<1>2. reg[p].kpage \in Kpages
  BY DEF FrameInv, Locals
<1> QED
  BY <1>1, <1>2 DEF FrameInv, AtWork, Working, Clears, Takes

\* vm_supt_set_swap, the first half: the frame no longer has an entry.
LEMMA MarkStep ==
  ASSUME FrameInv, NEW p \in Procs, Mark(p)
  PROVE  FrameInv'
<1> DEFINE k == reg[p].kpage
           t == frame[k].t
           v == frame[k].upage
<1>1. /\ pc[p] = "mark" /\ spte[t][v].status # "gone"
      /\ spte' = [spte EXCEPT ![t][v] = [spte[t][v] EXCEPT !.status = "swap", !.kpage = None]]
      /\ pc' = [pc EXCEPT ![p] = "index"]
      /\ UNCHANGED << reg, pagedir, frame, pool, available, frame_lock, filesys_lock >>
  BY DEF Mark, VictimEntry, Goto, slots, rest, locks
<1>2. /\ frame_lock = p /\ \A q \in Procs : pc[q] \in Evicting => q = p
      /\ k \in Kpages /\ frame[k] # None /\ ~ frame[k].pinned /\ Unmapped(k)
      /\ \A j : (Clears(j) <=> j = k) /\ ~ Takes(j)
  BY <1>1, Evictor DEF Evicting
<1>3. /\ t \in Procs /\ v \in Upages /\ Holds(k, t, v)
      /\ \A q, w : Holds(k, q, w) => q = t /\ w = v
  BY <1>2, FrameOwner
<1> HIDE DEF k, t, v
<1>4. spte[t][v].status = "frame" /\ spte[t][v].kpage = k
  <2>1. ~ (pc[t] \in Filling /\ reg[t].kpage = k)
    BY <1>2, <1>3 DEF FrameInv, AtWork, Working
  <2>2. ~ (pc[t] = "remove" /\ reg[t].kpage = k)
    BY <1>1, <1>3 DEF FrameInv, AtWork, Working, v
  <2> QED
    BY <1>2, <1>3, <2>1, <2>2 DEF FrameInv, FramesUsed
<1>5. /\ spte' \in [Procs -> [Upages -> Entries]]
      /\ spte'[t][v].status = "swap"
      /\ \A q \in Procs, w \in Upages : q # t \/ w # v => spte'[q][w] = spte[q][w]
  <2>1. spte[t][v] \in Entries
    BY <1>3 DEF FrameInv, Types
  <2>2. /\ [spte[t][v] EXCEPT !.status = "swap", !.kpage = None] \in Entries
        /\ [spte[t][v] EXCEPT !.status = "swap", !.kpage = None].status = "swap"
    BY <2>1 DEF Entries
  <2> QED
    BY <1>1, <1>3, <2>2 DEF FrameInv, Types
<1>6. pc' \in [Procs -> Labels] /\ pc'[p] = "index" /\ \A q \in Procs \ {p} : pc'[q] = pc[q]
  BY <1>1 DEF FrameInv, Types, Labels
<1>7. \A j : (Takes(j)' <=> j = k) /\ ~ Clears(j)'
  BY <1>1, <1>2, <1>6 DEF Clears, Takes, k
<1>8. \A j, q, w : Holds(j, q, w)' <=> Holds(j, q, w)
  BY <1>1 DEF Holds
<1>9. Types'
  BY <1>1, <1>5, <1>6 DEF FrameInv, Types
<1>10. Locals' /\ Locked'
  BY <1>1, <1>6 DEF FrameInv, Locals, Locked, Wanting, Evicting, Filling, Pinning
<1>11. Lives'
  BY <1>1, <1>4, <1>5, <1>6 DEF FrameInv, Lives, Wanting, Evicting, Filling
<1>12. Accounted' /\ OneFrame'
  BY <1>1, <1>8 DEF FrameInv, Accounted, OneFrame
<1>13. MapsOwn'
  BY <1>1, <1>2, <1>4, <1>5, <1>6, <1>8 DEF FrameInv, MapsOwn, Unmapped
<1>14. EntriesTrue'
  BY <1>1, <1>2, <1>3, <1>5, <1>8 DEF FrameInv, EntriesTrue
<1>15. FramesUsed'
  BY <1>1, <1>2, <1>3, <1>5, <1>6, <1>7, <1>8 DEF FrameInv, FramesUsed, OneFrame, Filling
<1>16. AtWork'
  <2> SUFFICES ASSUME NEW q \in Procs PROVE Working(q)'
    BY DEF AtWork
  <2>1. CASE q = p
    <3>1. VictimEntry(p)' = spte'[t][v]
      BY <1>1 DEF VictimEntry, k, t, v
    <3>2. /\ frame'[reg'[p].kpage] # None /\ ~ frame'[reg'[p].kpage].pinned
          /\ \A r \in Procs, u \in Upages : pagedir'[r][u] # reg'[p].kpage
      BY <1>1, <1>2 DEF Unmapped, k
    <3> QED
      BY <1>5, <1>6, <2>1, <3>1, <3>2 DEF Working, Filling, Unmapped
  <2>2. CASE q # p
    <3>1. Working(q) /\ pc'[q] = pc[q] /\ pc[q] \notin Evicting
      BY <1>2, <1>6, <2>2 DEF FrameInv, AtWork
    <3>2. CASE pc[q] = "remove"
      <4>1. reg[q].kpage \in Kpages /\ frame[reg[q].kpage].upage \in Upages
        BY <3>1, <3>2, FrameOwner DEF FrameInv, Locals, Working
      <4>2. spte[q][frame[reg[q].kpage].upage].status = "gone" /\ reg[q].kpage # k
        BY <1>4, <3>1, <3>2 DEF Working, t, v
      <4>3. spte'[q][frame[reg[q].kpage].upage] = spte[q][frame[reg[q].kpage].upage]
        BY <1>4, <1>5, <4>1, <4>2
      <4> QED
        BY <1>1, <1>2, <3>1, <3>2, <4>2, <4>3 DEF Working, Filling, Evicting
    <3>3. CASE pc[q] # "remove"
      BY <1>1, <3>1, <3>3 DEF Working, Filling, Mine, Leaves, Unmapped
    <3> QED
      BY <3>2, <3>3
  <2> QED
    BY <2>1, <2>2
<1>17. Pins'
  BY <1>1, <1>6, PinsKept, NonePinned
<1> QED
  BY <1>9, <1>10, <1>11, <1>12, <1>13, <1>14, <1>15, <1>16, <1>17 DEF FrameInv

\* The second half.
LEMMA IndexStep ==
  ASSUME FrameInv, NEW p \in Procs, Index(p)
  PROVE  FrameInv'
<1> DEFINE k == reg[p].kpage
           t == frame[k].t
           v == frame[k].upage
<1>1. /\ pc[p] = "index"
      /\ spte' = [spte EXCEPT ![t][v] = [spte[t][v] EXCEPT !.slot = reg[p].slot]]
      /\ pc' = [pc EXCEPT ![p] = "dirty"]
      /\ UNCHANGED << reg, pagedir, frame, pool, available, frame_lock, filesys_lock >>
  BY DEF Index, Goto, slots, rest, locks
<1>2. /\ frame_lock = p /\ \A q \in Procs : pc[q] \in Evicting => q = p
      /\ k \in Kpages /\ frame[k] # None /\ ~ frame[k].pinned /\ Unmapped(k)
      /\ \A j : ~ Clears(j) /\ (Takes(j) <=> j = k)
  BY <1>1, Evictor DEF Evicting
<1>3. t \in Procs /\ v \in Upages
  BY <1>2, FrameOwner
<1>4. spte[t][v].status = "swap"
  BY <1>1 DEF FrameInv, AtWork, Working, VictimEntry, Evicting
<1> HIDE DEF k, t, v
<1>5. /\ spte' \in [Procs -> [Upages -> Entries]]
      /\ \A q \in Procs, w \in Upages :
           spte'[q][w].status = spte[q][w].status /\ spte'[q][w].kpage = spte[q][w].kpage
  <2>1. spte[t][v] \in Entries /\ reg[p].slot \in Slots \union {None}
    BY <1>3 DEF FrameInv, Types, Regs
  <2>2. /\ [spte[t][v] EXCEPT !.slot = reg[p].slot] \in Entries
        /\ [spte[t][v] EXCEPT !.slot = reg[p].slot].status = spte[t][v].status
        /\ [spte[t][v] EXCEPT !.slot = reg[p].slot].kpage = spte[t][v].kpage
    BY <2>1 DEF Entries
  <2> QED
    BY <1>1, <1>3, <2>2 DEF FrameInv, Types
<1>6. pc' \in [Procs -> Labels] /\ pc'[p] = "dirty" /\ \A q \in Procs \ {p} : pc'[q] = pc[q]
  BY <1>1 DEF FrameInv, Types, Labels
<1>7. \A j : (Takes(j)' <=> j = k) /\ ~ Clears(j)'
  BY <1>1, <1>2, <1>6 DEF Clears, Takes, k
<1>8. \A j, q, w : Holds(j, q, w)' <=> Holds(j, q, w)
  BY <1>1 DEF Holds
<1>9. Types'
  BY <1>1, <1>5, <1>6 DEF FrameInv, Types
<1>10. Locals' /\ Locked'
  BY <1>1, <1>6 DEF FrameInv, Locals, Locked, Wanting, Evicting, Filling, Pinning
<1>11. Lives'
  BY <1>1, <1>5, <1>6 DEF FrameInv, Lives, Wanting, Evicting, Filling
<1>12. Accounted' /\ OneFrame'
  BY <1>1, <1>8 DEF FrameInv, Accounted, OneFrame
<1>13. MapsOwn'
  BY <1>1, <1>5, <1>6, <1>8 DEF FrameInv, MapsOwn
<1>14. EntriesTrue'
  BY <1>1, <1>2, <1>5, <1>8 DEF FrameInv, EntriesTrue
<1>15. FramesUsed'
  BY <1>1, <1>2, <1>5, <1>6, <1>7, <1>8 DEF FrameInv, FramesUsed, Filling
<1>16. AtWork'
  <2> SUFFICES ASSUME NEW q \in Procs PROVE Working(q)'
    BY DEF AtWork
  <2>1. CASE q = p
    <3>1. VictimEntry(p)'.status = "swap"
      BY <1>1, <1>3, <1>4, <1>5 DEF VictimEntry, k, t, v
    <3> QED
      BY <1>1, <1>2, <1>6, <2>1, <3>1 DEF Working, Filling, Evicting, Unmapped, k
  <2>2. CASE q # p
    <3>1. Working(q) /\ pc'[q] = pc[q] /\ pc[q] \notin Evicting
      BY <1>2, <1>6, <2>2 DEF FrameInv, AtWork
    <3>2. pc[q] = "remove" => frame[reg[q].kpage].upage \in Upages
      BY <3>1, FrameOwner DEF FrameInv, Locals, Working
    <3> QED
      BY <1>1, <1>2, <1>5, <3>1, <3>2 DEF Working, Filling, Mine, Leaves, Unmapped
  <2> QED
    BY <2>1, <2>2
<1>17. Pins'
  BY <1>1, <1>6, PinsKept, NonePinned
<1> QED
  BY <1>9, <1>10, <1>11, <1>12, <1>13, <1>14, <1>15, <1>16, <1>17 DEF FrameInv

\* vm_frame_do_free of the victim and palloc_get_page.
LEMMA TakeStep ==
  ASSUME FrameInv, NEW p \in Procs, Take(p)
  PROVE  FrameInv'
<1> DEFINE k == reg[p].kpage
           u == reg[p].upage
<1>1. PICK l \in pool \union {k} :
        /\ pool' = (pool \union {k}) \ {l}
        /\ frame' = [frame EXCEPT ![k] = None, ![l] = FrameOf(p, u)]
        /\ reg' = [reg EXCEPT ![p] = [reg[p] EXCEPT !.kpage = l, !.slot = None]]
  BY DEF Take
<1> DEFINE r == [reg[p] EXCEPT !.kpage = l, !.slot = None]
<1>2. /\ pc[p] = "dirty" /\ frame_lock' = None /\ pc' = [pc EXCEPT ![p] = "fill"]
      /\ UNCHANGED << spte, pagedir, available, filesys_lock >>
  BY DEF Take, Goto, slots
<1>3. /\ frame_lock = p /\ \A q \in Procs : pc[q] \in Evicting => q = p
      /\ k \in Kpages /\ frame[k] # None /\ ~ frame[k].pinned /\ Unmapped(k)
      /\ \A j : ~ Clears(j) /\ (Takes(j) <=> j = k)
  BY <1>2, Evictor DEF Evicting
<1>4. \A j : ~ Clears(j)' /\ ~ Takes(j)'
  BY <1>2, NoneAssumption DEF Clears, Takes
<1>5. l \in Kpages /\ Unmapped(l) /\ (l # k => frame[l] = None) /\ u \in Upages
  BY <1>2, <1>3 DEF FrameInv, Types, Accounted, Locals, Wanting, Evicting, Unmapped
<1>6. r \in Regs /\ r.upage = u /\ r.kpage = l /\ r.then = reg[p].then
  BY <1>5 DEF FrameInv, Types, Regs
<1>7. /\ reg' \in [Procs -> Regs] /\ pc' \in [Procs -> Labels]
      /\ reg'[p] = r /\ pc'[p] = "fill"
      /\ \A q \in Procs \ {p} : reg'[q] = reg[q] /\ pc'[q] = pc[q]
  BY <1>1, <1>2, <1>6, RegType DEF Labels
<1> HIDE DEF r
<1>8. \A q \in Procs, w \in Upages : Holds(k, q, w) => spte[q][w].status # "frame"
  BY <1>2 DEF FrameInv, AtWork, Working, Holds, VictimEntry, Evicting
<1> HIDE DEF k, u
<1>9. /\ frame'[l] # None /\ frame'[l].t = p /\ frame'[l].upage = u /\ frame'[l].pinned
      /\ k # l => frame'[k] = None
      /\ \A j \in Kpages : j # k /\ j # l => frame'[j] = frame[j]
      /\ frame' \in [Kpages -> {None} \union FrameEntries]
  <2>1. FrameOf(p, u) \in FrameEntries
    BY <1>5 DEF FrameOf, FrameEntries
  <2>2. None \notin FrameEntries
    BY EntryAssumption DEF FrameEntries
  <2> QED
    BY <1>1, <1>3, <1>5, <2>1, <2>2 DEF FrameInv, Types, FrameOf
<1>10. Types'
  BY <1>1, <1>2, <1>3, <1>5, <1>7, <1>9 DEF FrameInv, Types
<1>11. Locals'
  BY <1>5, <1>6, <1>7 DEF FrameInv, Locals, Wanting, Evicting, Filling, Pinning
<1>12. Locked'
  BY <1>2, <1>3, <1>6, <1>7, NoneAssumption DEF FrameInv, Locked, Wanting, Evicting, Filling, Pinning
<1>13. Lives'
  BY <1>2, <1>6, <1>7 DEF FrameInv, Lives, Wanting, Evicting, Filling, u
<1>14. Accounted'
  BY <1>1, <1>2, <1>3, <1>5, <1>9 DEF FrameInv, Accounted, Unmapped
<1>15. \A j \in Kpages : \A q, w :
         Holds(j, q, w)' <=> (j # k /\ j # l /\ Holds(j, q, w)) \/ (j = l /\ q = p /\ w = u)
  BY <1>3, <1>5, <1>9 DEF Holds
<1>16. \A j \in Kpages : j # k => ~ Holds(j, p, u)
  BY <1>2, <1>3, <1>5 DEF FrameInv, FramesUsed, Lives, Wanting, Evicting, Filling, u
<1>17. MapsOwn'
  BY <1>1, <1>2, <1>3, <1>5, <1>7, <1>9, <1>15 DEF FrameInv, Types, MapsOwn, Unmapped, Holds
<1>18. EntriesTrue'
  <2>1. \A q, w : l # k => ~ Holds(l, q, w)
    BY <1>5 DEF Holds
  <2> QED
    BY <1>2, <1>3, <1>8, <1>15, <2>1 DEF FrameInv, EntriesTrue
<1>19. OneFrame'
  BY <1>15, <1>16 DEF FrameInv, OneFrame
<1>20. FramesUsed'
  BY <1>2, <1>3, <1>4, <1>6, <1>7, <1>15 DEF FrameInv, FramesUsed, Filling
<1>21. AtWork'
  <2> SUFFICES ASSUME NEW q \in Procs PROVE Working(q)'
    BY DEF AtWork
  <2>1. CASE q = p
    BY <1>2, <1>5, <1>6, <1>7, <1>9, <2>1 DEF Working, Filling, Evicting, Mine, Unmapped
  <2>2. CASE q # p
    <3>1. Working(q) /\ pc'[q] = pc[q] /\ reg'[q] = reg[q] /\ pc[q] \notin Evicting
      BY <1>3, <1>7, <2>2 DEF FrameInv, AtWork
    <3>2. CASE pc[q] = "remove"
      <4> DEFINE j == reg[q].kpage
      <4>1. j \in Kpages /\ frame[j] # None /\ Holds(j, q, frame[j].upage)
            /\ frame[j].upage \in Upages /\ pagedir[q][frame[j].upage] = j
        BY <1>3, <3>1, <3>2, FrameOwner DEF FrameInv, Locals, Working, Holds
      <4>2. j # k /\ j # l
        BY <1>3, <1>5, <4>1 DEF Unmapped
      <4> QED
        BY <1>2, <1>9, <3>1, <3>2, <4>1, <4>2 DEF Working, Filling, Evicting
    <3>3. CASE pc[q] \in Filling \/ (pc[q] = "unpin" /\ ~ Leaves(q))
      <4>1. reg[q].kpage \in Kpages /\ Mine(q, reg[q].kpage) /\ frame[reg[q].kpage].pinned
        BY <3>1, <3>3 DEF FrameInv, Locals, Working
      <4>2. reg[q].kpage # k /\ reg[q].kpage # l
        BY <1>3, <1>5, <4>1 DEF Mine
      <4> QED
        BY <1>2, <1>9, <3>1, <3>3, <4>1, <4>2 DEF Working, Filling, Evicting, Mine, Leaves, Unmapped
    <3>4. CASE pc[q] \notin Filling \union {"remove"} /\ (pc[q] = "unpin" => Leaves(q))
      BY <1>2, <3>1, <3>4 DEF Working, Leaves
    <3> QED
      BY <3>2, <3>3, <3>4
  <2> QED
    BY <2>1, <2>2
<1>22. Pins'
  <2> SUFFICES ASSUME NEW j \in Kpages PROVE Pinned(j)'
    BY DEF Pins
  <2>1. CASE j = l
    BY <1>6, <1>7, <1>9, <2>1 DEF Pinned
  <2>2. CASE j # l
    <3>1. frame[j] # None => frame[j].t \in Procs
      BY FrameOwner
    <3>2. Pinned(j)
      BY DEF FrameInv, Pins
    <3> QED
      BY <1>2, <1>7, <1>9, <2>2, <3>1, <3>2 DEF Pinned
  <2> QED
    BY <2>1, <2>2
<1> QED
  BY <1>10, <1>11, <1>12, <1>13, <1>14, <1>17, <1>18, <1>19, <1>20, <1>21, <1>22 DEF FrameInv

\* pagedir_set_page, and the entry says so.
LEMMA MapStep ==
  ASSUME FrameInv, NEW p \in Procs, MapPage(p)
  PROVE  FrameInv'
<1> DEFINE k == reg[p].kpage
           u == reg[p].upage
<1>1. /\ pc[p] = "map" /\ pc' = [pc EXCEPT ![p] = "unpin"]
      /\ pagedir' = [pagedir EXCEPT ![p][u] = k]
      /\ spte' = [spte EXCEPT ![p][u] = [spte[p][u] EXCEPT !.status = "frame", !.kpage = k]]
      /\ UNCHANGED << reg, frame, pool, available, frame_lock, filesys_lock >>
  BY DEF MapPage, Goto, slots, rest, locks
<1>2. /\ k \in Kpages /\ u \in Upages /\ Mine(p, k) /\ Holds(k, p, u)
      /\ frame[k].pinned /\ Unmapped(k)
  BY <1>1 DEF FrameInv, Locals, AtWork, Working, Wanting, Filling, Mine, Holds
<1> HIDE DEF k, u
<1>3. pc' \in [Procs -> Labels] /\ pc'[p] = "unpin" /\ \A q \in Procs \ {p} : pc'[q] = pc[q]
  BY <1>1 DEF FrameInv, Types, Labels
<1>4. /\ pagedir' \in [Procs -> [Upages -> Kpages \union {None}]]
      /\ pagedir'[p][u] = k
      /\ \A q \in Procs, w \in Upages : q # p \/ w # u => pagedir'[q][w] = pagedir[q][w]
  BY <1>1, <1>2 DEF FrameInv, Types
<1>5. /\ spte' \in [Procs -> [Upages -> Entries]]
      /\ spte'[p][u].status = "frame" /\ spte'[p][u].kpage = k
      /\ \A q \in Procs, w \in Upages : q # p \/ w # u => spte'[q][w] = spte[q][w]
  <2>1. spte[p][u] \in Entries
    BY <1>2 DEF FrameInv, Types
  <2>2. /\ [spte[p][u] EXCEPT !.status = "frame", !.kpage = k] \in Entries
        /\ [spte[p][u] EXCEPT !.status = "frame", !.kpage = k].status = "frame"
        /\ [spte[p][u] EXCEPT !.status = "frame", !.kpage = k].kpage = k
    BY <1>2, <2>1 DEF Entries
  <2> QED
    BY <1>1, <1>2, <2>2 DEF FrameInv, Types
<1>6. pagedir[p][u] = None
  BY <1>1, <1>2 DEF FrameInv, MapsOwn, Lives, Wanting, Filling, u
<1>7. \A j \in Kpages : j # k /\ Unmapped(j) => Unmapped(j)'
  BY <1>2, <1>4 DEF Unmapped
<1>8. /\ \A j : (Clears(j)' <=> Clears(j)) /\ (Takes(j)' <=> Takes(j))
      /\ ~ Clears(k) /\ ~ Takes(k)
  BY <1>1, <1>2, <1>3 DEF FrameInv, AtWork, Working, Clears, Takes, Evicting
<1>9. \A j, q, w : Holds(j, q, w)' <=> Holds(j, q, w)
  BY <1>1 DEF Holds
<1>10. Types'
  BY <1>1, <1>3, <1>4, <1>5 DEF FrameInv, Types
<1>11. Locals' /\ Locked'
  BY <1>1, <1>3 DEF FrameInv, Locals, Locked, Wanting, Evicting, Filling, Pinning
<1>12. Lives'
  BY <1>1, <1>3, <1>4, <1>5 DEF FrameInv, Lives, Wanting, Evicting, Filling
<1>13. Accounted'
  BY <1>1, <1>2, <1>4, <1>6, NoneAssumption DEF FrameInv, Accounted, Holds
<1>14. MapsOwn'
  BY <1>1, <1>2, <1>3, <1>4, <1>5, <1>9 DEF FrameInv, MapsOwn, Unmapped
<1>15. EntriesTrue'
  BY <1>2, <1>4, <1>5, <1>8, <1>9 DEF FrameInv, EntriesTrue
<1>16. OneFrame'
  BY <1>9 DEF FrameInv, OneFrame
<1>17. FramesUsed'
  BY <1>1, <1>2, <1>3, <1>5, <1>8, <1>9 DEF FrameInv, FramesUsed, OneFrame, Filling, k, u
<1>18. AtWork'
  <2> SUFFICES ASSUME NEW q \in Procs PROVE Working(q)'
    BY DEF AtWork
  <2>1. CASE q = p
    BY <1>1, <1>2, <1>3, <2>1 DEF Working, Filling, Evicting, Mine, k, u
  <2>2. CASE q # p
    <3>1. Working(q) /\ pc'[q] = pc[q]
      BY <1>3, <2>2 DEF FrameInv, AtWork
    <3> DEFINE j == reg[q].kpage
    <3>2. CASE pc[q] \in Evicting
      <4>1. j \in Kpages /\ frame[j] # None /\ j # k /\ ~ frame[j].pinned /\ Unmapped(j)
        BY <1>2, <3>2, Evictor
      <4>2. VictimEntry(q)' = VictimEntry(q)
        <5>1. frame[j].t \in Procs /\ frame[j].upage \in Upages
              /\ Holds(j, frame[j].t, frame[j].upage)
          BY <4>1, FrameOwner
        <5>2. frame[j].t # p \/ frame[j].upage # u
          BY <1>2, <4>1, <5>1 DEF FrameInv, OneFrame
        <5> QED
          BY <1>1, <1>5, <5>1, <5>2 DEF VictimEntry
      <4> QED
        BY <1>1, <1>7, <3>1, <3>2, <4>1, <4>2 DEF Working, Evicting, Filling
    <3>3. CASE pc[q] = "remove"
      <4>1. frame[j].upage \in Upages
        BY <3>1, <3>3, FrameOwner DEF FrameInv, Locals, Working
      <4> QED
        BY <1>1, <1>4, <1>5, <1>8, <2>2, <3>1, <3>3, <4>1 DEF Working, Evicting, Filling
    <3>4. CASE pc[q] \in Filling
      <4>1. j \in Kpages /\ j # k
        BY <1>2, <2>2, <3>1, <3>4 DEF FrameInv, Locals, Working, Mine
      <4> QED
        BY <1>1, <1>7, <3>1, <3>4, <4>1 DEF Working, Evicting, Filling, Mine
    <3>5. CASE pc[q] \notin Filling \union Evicting \union {"remove"}
      BY <1>1, <3>1, <3>5 DEF Working, Mine, Leaves
    <3> QED
      BY <3>2, <3>3, <3>4, <3>5
  <2> QED
    BY <2>1, <2>2
<1>19. Pins'
  <2>1. \A j \in Kpages : frame[j] # None /\ frame[j].t = p /\ frame[j].pinned =>
          pc'[p] = "unpin" /\ reg'[p].upage = frame[j].upage
    BY <1>1, <1>3 DEF FrameInv, Pins, Pinned
  <2> QED
    BY <1>1, <1>3, <2>1, PinsKept
<1> QED
  BY <1>10, <1>11, <1>12, <1>13, <1>14, <1>15, <1>16, <1>17, <1>18, <1>19 DEF FrameInv

\* Only the pin of frame k changes.
LEMMA PinnedSet ==
  ASSUME FrameInv, NEW k \in Kpages, frame[k] # None, NEW b \in BOOLEAN,
         frame' = [frame EXCEPT ![k] = [frame[k] EXCEPT !.pinned = b]]
  PROVE  /\ frame' \in [Kpages -> {None} \union FrameEntries]
         /\ frame'[k] # None /\ frame'[k].t = frame[k].t /\ frame'[k].upage = frame[k].upage
         /\ frame'[k].pinned = b
         /\ \A j \in Kpages \ {k} : frame'[j] = frame[j]
<1>1. None \notin FrameEntries
  BY EntryAssumption DEF FrameEntries
<1>2. frame[k] \in FrameEntries
  BY DEF FrameInv, Types
<1> DEFINE e == [frame[k] EXCEPT !.pinned = b]
<1>3. e \in FrameEntries /\ e.t = frame[k].t /\ e.upage = frame[k].upage /\ e.pinned = b
  BY <1>2 DEF FrameEntries
<1> QED
  BY <1>1, <1>3 DEF FrameInv, Types

\* A frame of p's own is pinned or unpinned, with no eviction going on.
LEMMA SetPinned ==
  ASSUME FrameInv, NEW p \in Procs, NEW k \in Kpages,
         pc[p] \in {"unpin", "pinlock"}, frame_lock = None,
         frame[k] # None, Mine(p, k),
         frame' \in [Kpages -> {None} \union FrameEntries],
         frame'[k] # None, frame'[k].t = p, frame'[k].upage = reg[p].upage,
         frame'[k].pinned => pc'[p] = "use",
         \A j \in Kpages \ {k} : frame'[j] = frame[j],
         reg' \in [Procs -> Regs], pc' \in [Procs -> Labels],
         pc'[p] \in {"run", "pin", "use"},
         \A q \in Procs \ {p} : reg'[q] = reg[q] /\ pc'[q] = pc[q],
         pc'[p] # "run" => reg'[p].upage = reg[p].upage /\ filesys_lock' = p,
         \A q \in Procs \ {p} : filesys_lock' = q <=> filesys_lock = q,
         UNCHANGED << spte, pagedir, pool, available, frame_lock >>
  PROVE  FrameInv'
<1>3. \A j \in Kpages : \A q, w : Holds(j, q, w)' <=> Holds(j, q, w)
  BY DEF Holds, Mine
<1>4. \A j : ~ Clears(j) /\ ~ Takes(j) /\ ~ Clears(j)' /\ ~ Takes(j)'
  BY NoneAssumption DEF Clears, Takes
<1>5. reg[p].upage \in Upages
  BY DEF FrameInv, Locals, Pinning
<1>6. Types'
  BY DEF FrameInv, Types
<1>7. Locals'
  BY <1>5 DEF FrameInv, Locals, Wanting, Evicting, Filling, Pinning
<1>8. Locked'
  BY DEF FrameInv, Locked, Wanting, Evicting, Filling, Pinning
<1>9. Lives'
  BY DEF FrameInv, Lives, Wanting, Evicting, Filling
<1>10. Accounted'
  BY DEF FrameInv, Accounted
<1>11. MapsOwn'
  <2>1. \A q \in Procs, w \in Upages : pagedir[q][w] # None => pagedir[q][w] \in Kpages
    BY DEF FrameInv, Types
  <2> QED
    BY <1>3, <2>1 DEF FrameInv, MapsOwn
<1>12. EntriesTrue' /\ OneFrame'
  BY <1>3, <1>4 DEF FrameInv, EntriesTrue, OneFrame
<1>13. FramesUsed'
  BY <1>3, <1>4 DEF FrameInv, FramesUsed, Filling
<1>14. AtWork'
  <2> SUFFICES ASSUME NEW q \in Procs PROVE Working(q)'
    BY DEF AtWork
  <2>1. CASE q = p
    BY <2>1 DEF Working, Filling, Evicting
  <2>2. CASE q # p
    <3>1. Working(q) /\ pc'[q] = pc[q] /\ reg'[q] = reg[q] /\ pc[q] \notin Evicting
          /\ (Leaves(q)' <=> Leaves(q))
      BY <2>2, NoneAssumption DEF FrameInv, AtWork, Locked, Leaves
    <3>2. pc[q] \in Filling \union {"unpin", "remove"} => reg[q].kpage \in Kpages
      BY DEF FrameInv, Locals
    <3>3. \A j \in Kpages : /\ frame'[j] = None <=> frame[j] = None
                            /\ frame'[j].t = frame[j].t /\ frame'[j].upage = frame[j].upage
                            /\ frame[j].t = q => frame'[j].pinned = frame[j].pinned
      BY <2>2 DEF Mine
    <3>4. CASE pc[q] \in Filling
      BY <3>1, <3>2, <3>3, <3>4 DEF Working, Filling, Evicting, Mine, Unmapped
    <3>5. CASE pc[q] = "unpin"
      BY <3>1, <3>2, <3>3, <3>5 DEF Working, Filling, Evicting, Mine
    <3>6. CASE pc[q] = "remove"
      BY <1>4, <3>1, <3>2, <3>3, <3>6 DEF Working, Filling, Evicting
    <3>7. CASE pc[q] \notin Filling \union {"unpin", "remove"}
      BY <3>1, <3>7 DEF Working
    <3> QED
      BY <3>4, <3>5, <3>6, <3>7
  <2> QED
    BY <2>1, <2>2
<1>15. Pins'
  <2> SUFFICES ASSUME NEW j \in Kpages PROVE Pinned(j)'
    BY DEF Pins
  <2>1. CASE j = k
    BY <2>1 DEF Pinned
  <2>2. CASE j # k
    <3>1. frame[j] # None => frame[j].t \in Procs /\ Holds(j, frame[j].t, frame[j].upage)
      BY FrameOwner
    <3>2. Pinned(j)
      BY DEF FrameInv, Pins
    <3>3. CASE frame[j] # None /\ frame[j].t = p
      <4>1. Holds(k, p, reg[p].upage)
        BY DEF Holds, Mine
      <4>2. ~ frame[j].pinned
        BY <1>5, <2>2, <3>1, <3>2, <3>3, <4>1 DEF FrameInv, OneFrame, Pinned
      <4> QED
        BY <2>2, <4>2 DEF Pinned
    <3>4. CASE ~ (frame[j] # None /\ frame[j].t = p)
      BY <2>2, <3>1, <3>2, <3>4 DEF Pinned
    <3> QED
      BY <3>3, <3>4
  <2> QED
    BY <2>1, <2>2
<1> QED
  BY <1>6, <1>7, <1>8, <1>9, <1>10, <1>11, <1>12, <1>13, <1>14, <1>15 DEF FrameInv

\* vm_frame_unpin after loading, and at the end of a system call.
LEMMA UnpinStep ==
  ASSUME FrameInv, NEW p \in Procs, Unpin(p), ~ stray'
  PROVE  FrameInv'
<1> DEFINE k == reg[p].kpage
           l == reg[p].then
           b == FALSE
           r == IF l = "run" THEN NoReg ELSE [reg[p] EXCEPT !.kpage = None]
<1>1. /\ pc[p] = "unpin" /\ frame_lock = None
      /\ UNCHANGED << spte, pagedir, pool, available, frame_lock >>
  BY DEF Unpin, slots
<1>2. k \in Kpages /\ Mine(p, k) /\ frame[k] # None
  BY <1>1 DEF FrameInv, Locals, AtWork, Working, Unpin, Mine
<1>3. /\ frame' = [frame EXCEPT ![k] = [frame[k] EXCEPT !.pinned = b]]
      /\ pc' = [pc EXCEPT ![p] = l]
      /\ reg' = [reg EXCEPT ![p] = r]
      /\ filesys_lock' = IF Leaves(p) THEN None ELSE filesys_lock
  BY <1>2 DEF Unpin, Goto
<1>4. r \in Regs /\ l \in {"run", "pin", "use"} /\ (l # "run" => r.upage = reg[p].upage)
  <2>1. reg[p] \in Regs
    BY DEF FrameInv, Types
  <2> QED
    BY <2>1 DEF Regs, NoReg
<1>5. l # "run" => filesys_lock' = p
  BY <1>1, <1>3 DEF FrameInv, Locked, Leaves
<1>6. \A q \in Procs \ {p} : filesys_lock' = q <=> filesys_lock = q
  BY <1>3, NoneAssumption DEF Leaves
<1>7. b \in BOOLEAN /\ ~ b
  OBVIOUS
<1> HIDE DEF k, l, b, r
<1>8. /\ frame' \in [Kpages -> {None} \union FrameEntries]
      /\ frame'[k] # None /\ frame'[k].t = p /\ frame'[k].upage = reg[p].upage
      /\ ~ frame'[k].pinned
      /\ \A j \in Kpages \ {k} : frame'[j] = frame[j]
  BY <1>2, <1>3, <1>7, PinnedSet DEF Mine
<1>9. /\ reg' \in [Procs -> Regs] /\ pc' \in [Procs -> Labels]
      /\ reg'[p] = r /\ pc'[p] = l
      /\ \A q \in Procs \ {p} : reg'[q] = reg[q] /\ pc'[q] = pc[q]
  <2>1. l \in Labels
    BY <1>4 DEF Labels
  <2> QED
    BY <1>3, <1>4, <2>1, RegType
<1> QED
  BY <1>1, <1>2, <1>4, <1>5, <1>6, <1>8, <1>9, SetPinned

\* vm_frame_pin of the frame of the buffer.
LEMMA PinStep ==
  ASSUME FrameInv, NEW p \in Procs, Pin(p), ~ stray'
  PROVE  FrameInv'
<1> DEFINE k == reg[p].kpage
           b == TRUE
           r == [reg[p] EXCEPT !.kpage = None]
<1>1. /\ pc[p] = "pinlock" /\ frame_lock = None
      /\ UNCHANGED << spte, pagedir, pool, available, frame_lock, filesys_lock >>
  BY DEF Pin, slots, locks
<1>2. k \in Kpages /\ Mine(p, k) /\ frame[k] # None
  BY <1>1 DEF FrameInv, Locals, Pin, Mine
<1>3. /\ frame' = [frame EXCEPT ![k] = [frame[k] EXCEPT !.pinned = b]]
      /\ pc' = [pc EXCEPT ![p] = "use"]
      /\ reg' = [reg EXCEPT ![p] = r]
  BY <1>2 DEF Pin, Goto
<1>4. r \in Regs /\ r.upage = reg[p].upage /\ filesys_lock = p
  <2>1. reg[p] \in Regs
    BY DEF FrameInv, Types
  <2>2. filesys_lock = p
    BY <1>1 DEF FrameInv, Locked, Pinning
  <2> QED
    BY <2>1, <2>2 DEF Regs
<1>5. b \in BOOLEAN
  OBVIOUS
<1> HIDE DEF k, b, r
<1>6. /\ frame' \in [Kpages -> {None} \union FrameEntries]
      /\ frame'[k] # None /\ frame'[k].t = p /\ frame'[k].upage = reg[p].upage
      /\ \A j \in Kpages \ {k} : frame'[j] = frame[j]
  BY <1>2, <1>3, <1>5, PinnedSet DEF Mine
<1>7. /\ reg' \in [Procs -> Regs] /\ pc' \in [Procs -> Labels]
      /\ reg'[p] = r /\ pc'[p] = "use"
      /\ \A q \in Procs \ {p} : reg'[q] = reg[q] /\ pc'[q] = pc[q]
  <2>1. "use" \in Labels
    BY DEF Labels
  <2> QED
    BY <1>3, <1>4, <2>1, RegType
<1>8. /\ pc[p] \in {"unpin", "pinlock"} /\ pc'[p] \in {"run", "pin", "use"}
      /\ reg'[p].upage = reg[p].upage /\ filesys_lock' = p
      /\ \A q \in Procs \ {p} : filesys_lock' = q <=> filesys_lock = q
  BY <1>1, <1>4, <1>7
<1> QED
  BY <1>1, <1>2, <1>6, <1>7, <1>8, SetPinned

\* hash_clear pops an entry, which nobody else is changing.
LEMMA DestroyStep ==
  ASSUME FrameInv, NEW p \in Procs, NEW u \in Upages, Destroy(p, u), ~ stray'
  PROVE  FrameInv'
<1>1. /\ pc[p] = "destroy" /\ spte[p][u].status \in {"fresh", "frame", "swap"}
      /\ spte' = [spte EXCEPT ![p][u] = Gone]
      /\ UNCHANGED << pagedir, frame, pool, frame_lock, filesys_lock >>
  BY DEF Destroy, locks
<1>2. /\ spte' \in [Procs -> [Upages -> Entries]] /\ spte'[p][u].status = "gone"
      /\ \A q \in Procs, w \in Upages : q # p \/ w # u => spte'[q][w] = spte[q][w]
  <2>1. Gone \in Entries /\ Gone.status = "gone"
    BY DEF Gone, Entries
  <2> QED
    BY <1>1, <2>1 DEF FrameInv, Types
<1>3. /\ pc' \in [Procs -> Labels] /\ reg' \in [Procs -> Regs]
      /\ \A q \in Procs \ {p} : pc'[q] = pc[q] /\ reg'[q] = reg[q]
      /\ pc'[p] \in {"destroy", "remove"}
      /\ pc'[p] = "remove" <=> spte[p][u].status = "frame"
      /\ pc'[p] = "remove" => reg'[p].kpage = spte[p][u].kpage /\ spte[p][u].kpage \in Kpages
  <2> DEFINE r == [reg[p] EXCEPT !.kpage = spte[p][u].kpage]
  <2>1. CASE spte[p][u].status = "frame"
    <3>1. spte[p][u].kpage \in Kpages
      BY <2>1 DEF FrameInv, EntriesTrue
    <3>2. r \in Regs /\ r.kpage = spte[p][u].kpage
      BY <3>1 DEF FrameInv, Types, Regs
    <3>3. reg' = [reg EXCEPT ![p] = r] /\ pc' = [pc EXCEPT ![p] = "remove"]
      BY <1>1, <2>1 DEF Destroy, Goto
    <3> QED
      BY <2>1, <3>1, <3>2, <3>3, RegType DEF Labels
  <2>2. CASE spte[p][u].status # "frame"
    BY <1>1, <2>2 DEF Destroy, FrameInv, Types
  <2> QED
    BY <2>1, <2>2
<1>4. available' \subseteq Slots
  <2>1. spte[p][u].slot \in Slots \union {None} /\ available \subseteq Slots
    BY DEF FrameInv, Types, Entries
  <2> QED
    BY <1>1, <2>1 DEF Destroy, Vacated
<1>5. \A j : (Clears(j)' <=> Clears(j)) /\ (Takes(j)' <=> Takes(j))
  BY <1>1, <1>3 DEF Clears, Takes
<1>6. \A j, q, w : Holds(j, q, w)' <=> Holds(j, q, w)
  BY <1>1 DEF Holds
<1>7. Types'
  BY <1>1, <1>2, <1>3, <1>4 DEF FrameInv, Types
<1>8. Locals'
  BY <1>1, <1>3 DEF FrameInv, Locals, Wanting, Evicting, Filling, Pinning
<1>9. Locked'
  BY <1>1, <1>3 DEF FrameInv, Locked, Wanting, Evicting, Filling, Pinning
<1>10. Lives'
  BY <1>1, <1>2, <1>3 DEF FrameInv, Lives, Wanting, Evicting, Filling
<1>11. Accounted' /\ OneFrame'
  BY <1>1, <1>6 DEF FrameInv, Accounted, OneFrame
<1>12. MapsOwn'
  BY <1>1, <1>2, <1>3, <1>6 DEF FrameInv, MapsOwn
<1>13. EntriesTrue'
  BY <1>1, <1>2, <1>5, <1>6 DEF FrameInv, EntriesTrue
<1>14. FramesUsed'
  BY <1>1, <1>2, <1>3, <1>5, <1>6 DEF FrameInv, FramesUsed, Filling
<1>15. AtWork'
  <2> SUFFICES ASSUME NEW q \in Procs PROVE Working(q)'
    BY DEF AtWork
  <2>1. CASE q = p
    <3>1. CASE pc'[p] = "remove"
      <4> DEFINE k == spte[p][u].kpage
      <4>1. /\ k \in Kpages /\ Holds(k, p, u) /\ reg'[p].kpage = k
            /\ pagedir[p][u] = k \/ Clears(k)
        BY <1>3, <3>1 DEF FrameInv, EntriesTrue
      <4> HIDE DEF k
      <4> QED
        BY <1>1, <1>2, <1>5, <2>1, <3>1, <4>1 DEF Working, Filling, Evicting, Holds
    <3>2. CASE pc'[p] # "remove"
      BY <1>3, <2>1, <3>2 DEF Working, Filling, Evicting
    <3> QED
      BY <3>1, <3>2
  <2>2. CASE q # p
    <3>1. Working(q) /\ pc'[q] = pc[q] /\ reg'[q] = reg[q]
      BY <1>3, <2>2 DEF FrameInv, AtWork
    <3>2. CASE pc[q] \in Evicting
      <4> DEFINE j == reg[q].kpage
      <4>1. j \in Kpages /\ frame[j] # None /\ frame[j].t \in Procs /\ frame[j].upage \in Upages
        BY <3>2, Evictor, FrameOwner
      <4>2. pc[q] = "index" => ~ (frame[j].t = p /\ frame[j].upage = u)
        <5> SUFFICES ASSUME pc[q] = "index", frame[j].t = p, frame[j].upage = u PROVE FALSE
          OBVIOUS
        <5>1. HalfMarked(p, u) /\ spte[p][u].status = "swap"
          BY <3>1 DEF HalfMarked, Working, VictimEntry, Evicting
        <5> QED
          BY <5>1 DEF Destroy
      <4>3. /\ pc[q] = "index" => VictimEntry(q)' = VictimEntry(q)
            /\ pc[q] = "dirty" => VictimEntry(q)'.status \in {VictimEntry(q).status, "gone"}
        <5> DEFINE t == frame[j].t
                   w == frame[j].upage
        <5>1. VictimEntry(q) = spte[t][w] /\ VictimEntry(q)' = spte'[t][w]
          BY <1>1, <3>1 DEF VictimEntry
        <5>2. t \in Procs /\ w \in Upages
          BY <4>1
        <5> HIDE DEF j, t, w
        <5>3. t # p \/ w # u => spte'[t][w] = spte[t][w]
          BY <1>2, <5>2
        <5>4. spte'[p][u].status = "gone"
          BY <1>2
        <5> QED
          BY <4>2, <5>1, <5>3, <5>4 DEF t, w
      <4> QED
        BY <1>1, <3>1, <3>2, <4>3 DEF Working, Filling, Evicting, Unmapped
    <3>3. CASE pc[q] = "remove"
      <4>1. frame[reg[q].kpage].upage \in Upages
        BY <3>1, <3>3, FrameOwner DEF FrameInv, Locals, Working
      <4> QED
        BY <1>1, <1>2, <1>5, <2>2, <3>1, <3>3, <4>1 DEF Working, Filling, Evicting
    <3>4. CASE pc[q] \notin Evicting \union {"remove"}
      BY <1>1, <3>1, <3>4 DEF Working, Mine, Leaves, Unmapped
    <3> QED
      BY <3>2, <3>3, <3>4
  <2> QED
    BY <2>1, <2>2
<1>16. Pins'
  BY <1>1, <1>3, PinsKept, NonePinned
<1> QED
  BY <1>7, <1>8, <1>9, <1>10, <1>11, <1>12, <1>13, <1>14, <1>15, <1>16 DEF FrameInv

\* vm_frame_remove_entry: the page stays mapped until pagedir_destroy.
LEMMA RemoveStep ==
  ASSUME FrameInv, NEW p \in Procs, Remove(p)
  PROVE  FrameInv'
<1> DEFINE k == reg[p].kpage
           u == frame[k].upage
<1>1. pc[p] = "remove" /\ frame_lock = None
  BY DEF Remove
<1>2. \A j : ~ Clears(j) /\ ~ Takes(j)
  BY <1>1, NoneAssumption DEF Clears, Takes
<1>3. /\ k \in Kpages /\ frame[k] # None /\ frame[k].t = p
      /\ spte[p][u].status = "gone" /\ pagedir[p][u] = k
  BY <1>1, <1>2 DEF FrameInv, Locals, AtWork, Working
<1>4. u \in Upages /\ Holds(k, p, u) /\ \A q, w : Holds(k, q, w) => q = p /\ w = u
  BY <1>3, FrameOwner
<1>5. /\ frame' = [frame EXCEPT ![k] = None]
      /\ reg' = [reg EXCEPT ![p] = NoReg] /\ pc' = [pc EXCEPT ![p] = "destroy"]
      /\ UNCHANGED << spte, pagedir, pool, available, frame_lock, filesys_lock >>
  BY <1>3 DEF Remove, Goto, slots, rest, locks
<1> HIDE DEF k, u
<1>6. NoReg \in Regs
  BY DEF NoReg, Regs
<1>7. /\ reg' \in [Procs -> Regs] /\ pc' \in [Procs -> Labels]
      /\ pc'[p] = "destroy"
      /\ \A q \in Procs \ {p} : reg'[q] = reg[q] /\ pc'[q] = pc[q]
  BY <1>5, <1>6, RegType DEF Labels
<1>8. /\ frame' \in [Kpages -> {None} \union FrameEntries]
      /\ frame'[k] = None /\ \A j \in Kpages \ {k} : frame'[j] = frame[j]
  BY <1>3, <1>5 DEF FrameInv, Types
<1>9. \A j \in Kpages : \A q, w : Holds(j, q, w)' <=> j # k /\ Holds(j, q, w)
  BY <1>8 DEF Holds
<1>10. \A j : ~ Clears(j)' /\ ~ Takes(j)'
  BY <1>1, <1>5, NoneAssumption DEF Clears, Takes
<1>11. Types'
  BY <1>5, <1>7, <1>8 DEF FrameInv, Types
<1>12. Locals'
  BY <1>7 DEF FrameInv, Locals, Wanting, Evicting, Filling, Pinning
<1>13. Locked'
  BY <1>1, <1>5, <1>7 DEF FrameInv, Locked, Wanting, Evicting, Filling, Pinning
<1>14. Lives'
  BY <1>1, <1>5, <1>7 DEF FrameInv, Lives, Wanting, Evicting, Filling
<1>15. Accounted'
  BY <1>3, <1>4, <1>5, <1>8 DEF FrameInv, Accounted
<1>16. MapsOwn'
  <2>1. \A q \in Procs, w \in Upages : pagedir[q][w] # None => pagedir[q][w] \in Kpages
    BY DEF FrameInv, Types
  <2> QED
    BY <1>5, <1>7, <1>8, <1>9, <2>1 DEF FrameInv, MapsOwn
<1>17. EntriesTrue'
  BY <1>2, <1>3, <1>4, <1>5, <1>9 DEF FrameInv, EntriesTrue
<1>18. OneFrame'
  BY <1>9 DEF FrameInv, OneFrame
<1>19. FramesUsed'
  BY <1>1, <1>2, <1>5, <1>7, <1>9 DEF FrameInv, FramesUsed, Filling, k
<1>20. AtWork'
  <2> SUFFICES ASSUME NEW q \in Procs PROVE Working(q)'
    BY DEF AtWork
  <2>1. CASE q = p
    BY <1>7, <2>1 DEF Working, Filling, Evicting
  <2>2. CASE q # p
    <3>1. Working(q) /\ pc'[q] = pc[q] /\ reg'[q] = reg[q] /\ pc[q] \notin Evicting
      BY <1>1, <1>7, <2>2, NoneAssumption DEF FrameInv, AtWork, Locked
    <3> DEFINE j == reg[q].kpage
    <3>2. CASE pc[q] \in Filling \union {"unpin"}
      <4>1. j \in Kpages
        BY <3>2 DEF FrameInv, Locals
      <4> QED
        BY <1>3, <1>5, <1>8, <2>2, <3>1, <3>2, <4>1
           DEF Working, Filling, Evicting, Mine, Leaves, Unmapped
    <3>3. CASE pc[q] = "remove"
      <4>1. j \in Kpages /\ frame[j].t = q
        BY <3>1, <3>3 DEF FrameInv, Locals, Working
      <4> QED
        BY <1>2, <1>3, <1>5, <1>8, <2>2, <3>1, <3>3, <4>1 DEF Working, Filling, Evicting
    <3>4. CASE pc[q] \notin Filling \union {"unpin", "remove"}
      BY <3>1, <3>4 DEF Working
    <3> QED
      BY <3>2, <3>3, <3>4
  <2> QED
    BY <2>1, <2>2
<1>21. Pins'
  <2> SUFFICES ASSUME NEW j \in Kpages PROVE Pinned(j)'
    BY DEF Pins
  <2>1. CASE j = k
    BY <1>8, <2>1 DEF Pinned
  <2>2. CASE j # k
    <3>1. frame[j] # None => frame[j].t \in Procs
      BY FrameOwner
    <3>2. Pinned(j)
      BY DEF FrameInv, Pins
    <3> QED
      BY <1>1, <1>7, <1>8, <2>2, <3>1, <3>2 DEF Pinned
  <2> QED
    BY <2>1, <2>2
<1> QED
  BY <1>11, <1>12, <1>13, <1>14, <1>15, <1>16, <1>17, <1>18, <1>19, <1>20, <1>21 DEF FrameInv

\* pagedir_destroy frees what is still mapped: no frame of it is in use.
LEMMA FinishStep ==
  ASSUME FrameInv, NEW p \in Procs, Finish(p)
  PROVE  FrameInv'
<1>1. /\ pc[p] = "destroy" /\ \A u \in Upages : spte[p][u].status = "gone"
      /\ pool' = pool \union Mapped(p)
      /\ pagedir' = [pagedir EXCEPT ![p] = [u \in Upages |-> None]]
      /\ pc' = [pc EXCEPT ![p] = "dead"]
      /\ UNCHANGED << reg, spte, frame, available, frame_lock, filesys_lock >>
  BY DEF Finish, Goto, slots, rest, locks
<1>2. pc' \in [Procs -> Labels] /\ pc'[p] = "dead" /\ \A q \in Procs \ {p} : pc'[q] = pc[q]
  BY <1>1 DEF FrameInv, Types, Labels
<1>3. /\ pagedir' \in [Procs -> [Upages -> Kpages \union {None}]]
      /\ \A u \in Upages : pagedir'[p][u] = None
      /\ \A q \in Procs \ {p} : pagedir'[q] = pagedir[q]
  BY <1>1 DEF FrameInv, Types
<1>4. \A j : j \in Mapped(p) <=> j # None /\ \E u \in Upages : pagedir[p][u] = j
  BY DEF Mapped
<1>5. \A j : (Clears(j)' <=> Clears(j)) /\ (Takes(j)' <=> Takes(j))
  BY <1>1, <1>2 DEF Clears, Takes
<1>6. \A j, q, w : Holds(j, q, w)' <=> Holds(j, q, w)
  BY <1>1 DEF Holds
<1>7. \A j \in Mapped(p) : j \in Kpages /\ frame[j] = None
  <2> SUFFICES ASSUME NEW u \in Upages, pagedir[p][u] # None
               PROVE  pagedir[p][u] \in Kpages /\ frame[pagedir[p][u]] = None
    BY <1>4
  <2> DEFINE j == pagedir[p][u]
  <2>1. j \in Kpages
    BY DEF FrameInv, Types
  <2>2. ~ Takes(j)
    BY DEF FrameInv, AtWork, Working, Evicting, Takes, Unmapped
  <2>3. ~ Holds(j, p, u)
    BY <1>1, <2>1, <2>2 DEF FrameInv, FramesUsed, Filling
  <2> QED
    BY <2>1, <2>3 DEF FrameInv, MapsOwn
<1>8. Types'
  BY <1>1, <1>2, <1>3, <1>7 DEF FrameInv, Types
<1>9. Locals' /\ Locked'
  BY <1>1, <1>2 DEF FrameInv, Locals, Locked, Wanting, Evicting, Filling, Pinning
<1>10. Lives'
  BY <1>1, <1>2, <1>3 DEF FrameInv, Lives, Wanting, Evicting, Filling
<1>11. Accounted'
  <2> SUFFICES ASSUME NEW j \in Kpages
               PROVE  j \in pool' <=> frame[j] = None /\ Unmapped(j)'
    BY <1>1 DEF Accounted, Unmapped
  <2>1. j # None
    BY NoneAssumption
  <2>2. j \in pool <=> frame[j] = None /\ Unmapped(j)
    BY DEF FrameInv, Accounted, Unmapped
  <2>3. CASE j \in Mapped(p)
    <3>1. PICK u \in Upages : pagedir[p][u] = j
      BY <1>4, <2>3
    <3>2. Unmapped(j)'
      BY <1>3, <2>1, <3>1 DEF FrameInv, MapsOwn, Unmapped
    <3> QED
      BY <1>1, <1>7, <2>3, <3>2
  <2>4. CASE j \notin Mapped(p)
    <3>1. Unmapped(j)' <=> Unmapped(j)
      BY <1>3, <1>4, <2>1, <2>4 DEF Unmapped
    <3> QED
      BY <1>1, <2>2, <2>4, <3>1
  <2> QED
    BY <2>3, <2>4
<1>12. MapsOwn'
  <2> SUFFICES ASSUME NEW q \in Procs, NEW w \in Upages, pagedir'[q][w] # None
               PROVE  /\ pagedir[q][w] \notin pool' /\ q # p /\ pagedir'[q] = pagedir[q]
    BY <1>1, <1>2, <1>3, <1>6 DEF FrameInv, MapsOwn
  <2>1. q # p /\ pagedir'[q] = pagedir[q]
    BY <1>3
  <2>2. pagedir[q][w] \in Kpages
    BY <2>1 DEF FrameInv, Types
  <2>3. pagedir[q][w] \notin pool
    BY <2>2 DEF FrameInv, Accounted
  <2>4. pagedir[q][w] \notin Mapped(p)
    BY <1>4, <2>1 DEF FrameInv, MapsOwn
  <2> QED
    BY <1>1, <2>1, <2>3, <2>4
<1>13. EntriesTrue' /\ OneFrame'
  BY <1>1, <1>3, <1>5, <1>6 DEF FrameInv, EntriesTrue, OneFrame
<1>14. FramesUsed'
  BY <1>1, <1>2, <1>5, <1>6 DEF FrameInv, FramesUsed, Filling
<1>15. AtWork'
  <2> SUFFICES ASSUME NEW q \in Procs PROVE Working(q)'
    BY DEF AtWork
  <2>1. CASE q = p
    BY <1>2, <2>1 DEF Working, Filling, Evicting
  <2>2. CASE q # p
    <3>1. Working(q) /\ pc'[q] = pc[q] /\ (pc[q] \in Evicting \union Filling => reg[q].kpage \in Kpages)
      BY <1>2, <2>2 DEF FrameInv, AtWork, Locals
    <3>2. \A j \in Kpages : Unmapped(j) => Unmapped(j)'
      BY <1>3, NoneAssumption DEF Unmapped
    <3>3. pc[q] = "remove" => pagedir'[q] = pagedir[q]
      BY <1>3, <2>2
    <3> QED
      BY <1>1, <1>5, <3>1, <3>2, <3>3 DEF Working, Filling, Evicting, Mine, Leaves, VictimEntry
  <2> QED
    BY <2>1, <2>2
<1>16. Pins'
  BY <1>1, <1>2, PinsKept, NonePinned
<1> QED
  BY <1>8, <1>9, <1>10, <1>11, <1>12, <1>13, <1>14, <1>15, <1>16 DEF FrameInv

\* A process starts with none of its pages loaded.
LEMMA StartStep ==
  ASSUME FrameInv, NEW p \in Procs, Start(p)
  PROVE  FrameInv'
<1>1. /\ pc[p] = "dead" /\ pc' = [pc EXCEPT ![p] = "run"]
      /\ spte' = [spte EXCEPT ![p] = [u \in Upages |-> Fresh]]
      /\ UNCHANGED << reg, pagedir, frame, pool, available, frame_lock, filesys_lock >>
  BY DEF Start, Goto, slots, locks
<1>2. pc' \in [Procs -> Labels] /\ pc'[p] = "run" /\ \A q \in Procs \ {p} : pc'[q] = pc[q]
  BY <1>1 DEF FrameInv, Types, Labels
<1>3. /\ spte' \in [Procs -> [Upages -> Entries]]
      /\ \A u \in Upages : spte'[p][u].status = "fresh"
      /\ \A q \in Procs \ {p} : spte'[q] = spte[q]
  <2>1. Fresh \in Entries /\ Fresh.status = "fresh"
    BY DEF Fresh, Entries
  <2> QED
    BY <1>1, <2>1 DEF FrameInv, Types
<1>4. \A u \in Upages : spte[p][u].status = "gone" /\ pagedir[p][u] = None
  BY <1>1 DEF FrameInv, Lives
<1>5. \A j : (Clears(j)' <=> Clears(j)) /\ (Takes(j)' <=> Takes(j))
  BY <1>1, <1>2 DEF Clears, Takes
<1>6. \A j, q, w : Holds(j, q, w)' <=> Holds(j, q, w)
  BY <1>1 DEF Holds
<1>7. Types'
  BY <1>1, <1>2, <1>3 DEF FrameInv, Types
<1>8. Locals' /\ Locked'
  BY <1>1, <1>2 DEF FrameInv, Locals, Locked, Wanting, Evicting, Filling, Pinning
<1>9. Lives'
  BY <1>1, <1>2, <1>3 DEF FrameInv, Lives, Wanting, Evicting, Filling
<1>10. Accounted' /\ OneFrame'
  BY <1>1, <1>6 DEF FrameInv, Accounted, OneFrame
<1>11. MapsOwn'
  BY <1>1, <1>2, <1>3, <1>4, <1>6 DEF FrameInv, MapsOwn
<1>12. EntriesTrue'
  BY <1>1, <1>3, <1>5, <1>6 DEF FrameInv, EntriesTrue
<1>13. FramesUsed'
  BY <1>1, <1>2, <1>3, <1>4, <1>5, <1>6 DEF FrameInv, FramesUsed, Filling
<1>14. AtWork'
  <2> SUFFICES ASSUME NEW q \in Procs PROVE Working(q)'
    BY DEF AtWork
  <2>1. CASE q = p
    BY <1>2, <2>1 DEF Working, Filling, Evicting
  <2>2. CASE q # p
    <3>1. Working(q) /\ pc'[q] = pc[q] /\ spte'[q] = spte[q]
      BY <1>2, <1>3, <2>2 DEF FrameInv, AtWork
    <3>2. CASE pc[q] \in Evicting
      <4> DEFINE j == reg[q].kpage
      <4>1. j \in Kpages /\ frame[j] # None /\ frame[j].t \in Procs /\ frame[j].upage \in Upages
        BY <3>2, Evictor, FrameOwner
      <4>2. CASE frame[j].t = p
        BY <1>1, <1>3, <1>4, <3>1, <3>2, <4>1, <4>2
           DEF Working, Filling, Evicting, VictimEntry, Unmapped
      <4>3. CASE frame[j].t # p
        BY <1>1, <1>3, <3>1, <3>2, <4>1, <4>3
           DEF Working, Filling, Evicting, VictimEntry, Unmapped
      <4> QED
        BY <4>2, <4>3
    <3>3. CASE pc[q] \notin Evicting
      BY <1>1, <1>5, <3>1, <3>3 DEF Working, Filling, Mine, Leaves, Unmapped
    <3> QED
      BY <3>2, <3>3
  <2> QED
    BY <2>1, <2>2
<1>15. Pins'
  BY <1>1, <1>2, PinsKept, NonePinned
<1> QED
  BY <1>7, <1>8, <1>9, <1>10, <1>11, <1>12, <1>13, <1>14, <1>15 DEF FrameInv

\* At boot all pages are in the pool.
LEMMA InitFrames == Init => FrameInv
<1> SUFFICES ASSUME Init PROVE FrameInv
  OBVIOUS
<1>1. /\ \A p \in Procs : pc[p] = "run" /\ reg[p] = NoReg
      /\ \A p \in Procs, u \in Upages : spte[p][u] = Fresh /\ pagedir[p][u] = None
      /\ \A k \in Kpages : frame[k] = None
      /\ pool = Kpages /\ frame_lock = None
  BY DEF Init
<1>2. Types
  <2>1. NoReg \in Regs /\ Fresh \in Entries
    BY DEF NoReg, Regs, Fresh, Entries
  <2> QED
    BY <2>1 DEF Init, Types, Labels
<1>3. Fresh.status = "fresh"
  BY DEF Fresh
<1>4. Locals /\ Locked /\ Lives
  BY <1>1, <1>3, NoneAssumption DEF Locals, Locked, Lives, Wanting, Evicting, Filling, Pinning
<1>5. Accounted /\ MapsOwn /\ EntriesTrue
  BY <1>1, <1>3, NoneAssumption DEF Accounted, MapsOwn, EntriesTrue
<1>6. OneFrame /\ FramesUsed /\ Pins
  BY <1>1 DEF OneFrame, FramesUsed, Pins, Pinned, Holds
<1>7. AtWork
  BY <1>1 DEF AtWork, Working, Evicting, Filling
<1> QED
  BY <1>2, <1>4, <1>5, <1>6, <1>7 DEF FrameInv

\* Every step keeps the invariant, or is one that used what was not its own.
LEMMA NextFrames ==
  ASSUME FrameInv, [Next]_vars, ~ stray'
  PROVE  FrameInv'
<1>1. CASE UNCHANGED vars
  <2>1. available \subseteq Slots
    BY DEF FrameInv, Types
  <2> QED
    BY <1>1, <2>1, StillStep DEF vars, memory, slots, rest
<1>2. CASE Next
  <2>1. PICK p \in Procs : Step(p)
    BY <1>2 DEF Next
  <2>2. CASE \/ \E u \in Upages : \/ Fault(p, u) \/ Syscall(p, u)
                                  \/ \E d \in Data : Write(p, u, d)
             \/ Load(p) \/ PickNone(p) \/ SwapOut(p) \/ SwapFull(p) \/ VictimGone(p)
             \/ FillFresh(p) \/ FillSwap(p) \/ PinTest(p) \/ PinRead(p) \/ UseDone(p) \/ Exit(p)
             \/ \E u \in Upages : DestroyTorn(p, u)
    BY <2>2, QuietActions
  <2> QED
    BY <2>1, <2>2, AllocateStep, PickStep, MarkStep, IndexStep, TakeStep, MapStep,
       UnpinStep, PinStep, DestroyStep, RemoveStep, FinishStep, StartStep DEF Step
<1> QED
  BY <1>1, <1>2

\* The invariant, and it is inductive: the machine is not looked at after a
\* stray step, and takes none.
Kept == ~ stray => FrameInv

LEMMA Invariance == Spec => []Kept
<1>1. Init => Kept
  BY InitFrames DEF Kept
<1>2. Kept /\ [Next]_vars => Kept'
  <2> SUFFICES ASSUME Kept, [Next]_vars, ~ stray' PROVE FrameInv'
    BY DEF Kept
  <2>1. ~ stray
    BY DEF Next, vars, rest
  <2> QED
    BY <2>1, NextFrames DEF Kept
<1> QED
  BY <1>1, <1>2, PTL DEF Spec

\* No page of memory has two owners, or one owner and a place in the pool,
\* whatever processes, pages and slots there are: what pagedir_clear_page,
\* vm_frame_do_free and pagedir_destroy rely on.
THEOREM FramesAreOwned == Spec => []OwnFrames
<1>1. Kept => OwnFrames
  <2> SUFFICES ASSUME FrameInv, NEW p \in Procs, NEW u \in Upages, pagedir[p][u] # None
               PROVE  /\ pagedir[p][u] \notin pool
                      /\ \A q \in Procs, v \in Upages :
                           pagedir[q][v] = pagedir[p][u] => q = p /\ v = u
    BY DEF Kept, OwnFrames
  <2>1. pagedir[p][u] \in Kpages
    BY DEF FrameInv, Types
  <2> QED
    BY <2>1 DEF FrameInv, Accounted, MapsOwn
<1> QED
  BY <1>1, Invariance, PTL

\* A pinned frame is pinned by the process that has it, which is filling it or
\* has it as the buffer of a system call.
THEOREM PinsAreInUse == Spec => []PinnedInUse
<1>1. Kept => PinnedInUse
  BY DEF Kept, PinnedInUse, FrameInv, Pins, Pinned
<1> QED
  BY <1>1, Invariance, PTL

-------------------------------------------------------------------------------
(***************************************************************************)
(* The contents of the pages: no page loses what its process wrote, no     *)
(* slot has two pages, and none is lost.  This rests on whose the frames   *)
(* are.  Each step is one lemma; a step that copies nothing is an instance *)
(* of CalmStep.                                                            *)
(***************************************************************************)

\* Somebody has written the page it evicts to a slot, and says so nowhere yet.
Writing(q) == pc[q] \in {"mark", "index"}

\* Page u of p's is in its swap slot: the entry says so in full, and the page
\* has not been read back.
Held(p, u) == /\ spte[p][u].status = "swap"
              /\ ~ HalfMarked(p, u)
              /\ ~ (pc[p] = "map" /\ reg[p].upage = u)

\* A slot in use has one page.
SlotsOwn ==
  /\ \A p \in Procs, u \in Upages : Held(p, u) =>
       /\ spte[p][u].slot \in Slots \ available
       /\ \A q \in Procs, v \in Upages :
            Held(q, v) /\ spte[q][v].slot = spte[p][u].slot => q = p /\ v = u
       /\ \A q \in Procs : Writing(q) => reg[q].slot # spte[p][u].slot
  /\ \A q \in Procs : Writing(q) => reg[q].slot \in Slots \ available

\* And each is in use that is not available.
SlotsUsed ==
  \A s \in Slots \ available :
    \/ \E p \in Procs, u \in Upages : Held(p, u) /\ spte[p][u].slot = s
    \/ \E q \in Procs : Writing(q) /\ reg[q].slot = s

\* The contents of a page are where it is: in its frame, in its slot, or on the
\* way from one to the other.
PagesKept ==
  \A p \in Procs, u \in Upages :
    /\ pagedir[p][u] # None => mem[pagedir[p][u]] = val[p][u]
    /\ Held(p, u) => swap[spte[p][u].slot] = val[p][u]
    /\ spte[p][u].status = "fresh" => val[p][u] = Zero
    /\ pc[p] = "map" /\ reg[p].upage = u => mem[reg[p].kpage] = val[p][u]
    /\ \A q \in Procs :
         /\ pc[q] = "evict" /\ Holds(reg[q].kpage, p, u) => mem[reg[q].kpage] = val[p][u]
         /\ Writing(q) /\ Holds(reg[q].kpage, p, u) => swap[reg[q].slot] = val[p][u]

Contained ==
  /\ mem \in [Kpages -> Contents]
  /\ swap \in [Slots -> Contents]
  /\ val \in [Procs -> [Upages -> Contents]]

PageInv == SlotsOwn /\ SlotsUsed /\ PagesKept /\ Contained

-------------------------------------------------------------------------------
\* The page of an entry whose eviction is half way is in the frame that is
\* evicted.
LEMMA HalfHeld ==
  ASSUME FrameInv, NEW p \in Procs, NEW u \in Upages, HalfMarked(p, u)
  PROVE  \E q \in Procs : /\ pc[q] = "index" /\ Holds(reg[q].kpage, p, u)
                          /\ reg[q].kpage \in Kpages /\ ~ frame[reg[q].kpage].pinned
                          /\ spte[p][u].status = "swap"
<1>1. PICK q \in Procs : pc[q] = "index" /\ frame[reg[q].kpage].t = p
                                         /\ frame[reg[q].kpage].upage = u
  BY DEF HalfMarked
<1> QED
  BY <1>1, Evictor DEF FrameInv, AtWork, Working, VictimEntry, Evicting, Holds

\* Nobody evicts the page that a process loads.
LEMMA LoadedAlone ==
  ASSUME FrameInv, NEW p \in Procs, pc[p] \in Filling
  PROVE  LET k == reg[p].kpage  u == reg[p].upage IN
         /\ k \in Kpages /\ u \in Upages /\ Holds(k, p, u) /\ Unmapped(k)
         /\ ~ HalfMarked(p, u)
         /\ \A q \in Procs : pc[q] \in Evicting =>
              reg[q].kpage \in Kpages /\ reg[q].kpage # k /\ ~ Holds(reg[q].kpage, p, u)
<1> DEFINE k == reg[p].kpage  u == reg[p].upage
<1>1. k \in Kpages /\ u \in Upages
  BY DEF FrameInv, Locals, Wanting
<1>2. Holds(k, p, u) /\ frame[k].pinned /\ Unmapped(k)
  BY DEF FrameInv, AtWork, Working, Mine, Holds
<1>3. \A q \in Procs : pc[q] \in Evicting =>
        reg[q].kpage \in Kpages /\ reg[q].kpage # k /\ ~ Holds(reg[q].kpage, p, u)
  BY <1>1, <1>2, Evictor DEF FrameInv, OneFrame
<1> HIDE DEF k, u
<1>4. ~ HalfMarked(p, u)
  BY <1>1, <1>3, HalfHeld DEF Evicting
<1> QED
  BY <1>1, <1>2, <1>3, <1>4 DEF k, u

\* A step of p that copies no page and gives no slot away.
LEMMA CalmStep ==
  ASSUME PageInv, NEW p \in Procs, UNCHANGED << mem, swap, available, val >>,
         \A q \in Procs \ {p} : pc'[q] = pc[q] /\ reg'[q] = reg[q],
         pc'[p] \notin {"map", "evict"},
         Writing(p)' <=> Writing(p),
         Writing(p) => reg'[p].slot = reg[p].slot /\ reg'[p].kpage = reg[p].kpage,
         \A q \in Procs, u \in Upages :
           /\ Held(q, u)' <=> Held(q, u)
           /\ Held(q, u) => spte'[q][u].slot = spte[q][u].slot
           /\ spte'[q][u].status = "fresh" => spte[q][u].status = "fresh"
           /\ pagedir'[q][u] \in {None, pagedir[q][u]}
           /\ \A r \in Procs : pc'[r] \in {"evict", "mark", "index"}
                /\ Holds(reg[r].kpage, q, u)' => Holds(reg[r].kpage, q, u)
  PROVE  PageInv'
<1>1. \A q \in Procs : /\ Writing(q)' <=> Writing(q)
                       /\ Writing(q) => reg'[q].slot = reg[q].slot /\ reg'[q].kpage = reg[q].kpage
                       /\ pc'[q] \in {"map", "evict"} => pc[q] = pc'[q] /\ reg'[q] = reg[q]
  BY DEF Writing
<1>2. SlotsOwn'
  BY <1>1 DEF PageInv, SlotsOwn
<1>3. SlotsUsed'
  BY <1>1 DEF PageInv, SlotsUsed
<1>4. PagesKept'
  BY <1>1 DEF PageInv, PagesKept, Writing
<1>5. Contained'
  BY DEF PageInv, Contained
<1> QED
  BY <1>2, <1>3, <1>4, <1>5 DEF PageInv

\* One at a section that has nothing to do with where pages are, which stays
\* at such a section.
LEMMA AsideStep ==
  ASSUME FrameInv, PageInv, NEW p \in Procs, UNCHANGED << mem, swap, available, val >>,
         \A q \in Procs \ {p} : pc'[q] = pc[q] /\ reg'[q] = reg[q],
         {pc[p], pc'[p]} \intersect {"map", "evict", "mark", "index"} = {},
         frame' = frame \/ \A q \in Procs : pc[q] \notin {"evict", "mark", "index"},
         \A q \in Procs, u \in Upages :
           /\ spte'[q][u].status = "swap" <=> spte[q][u].status = "swap"
           /\ spte[q][u].status = "swap" => spte'[q][u] = spte[q][u]
           /\ spte'[q][u].status = "fresh" => spte[q][u].status = "fresh"
           /\ pagedir'[q][u] \in {None, pagedir[q][u]}
  PROVE  PageInv'
<1>1. \A q \in Procs : /\ pc'[q] \in {"map", "evict", "mark", "index"} => q # p
                       /\ pc[q] \in {"map", "evict", "mark", "index"} => q # p
  OBVIOUS
<1>2. \A q \in Procs, u \in Upages : HalfMarked(q, u)' <=> HalfMarked(q, u)
  BY <1>1 DEF HalfMarked
<1>3. \A q \in Procs, u \in Upages : Held(q, u)' <=> Held(q, u)
  BY <1>1, <1>2 DEF Held
<1>4. \A q \in Procs, u \in Upages : \A r \in Procs :
        pc'[r] \in {"evict", "mark", "index"} /\ Holds(reg[r].kpage, q, u)'
          => Holds(reg[r].kpage, q, u)
  <2> SUFFICES ASSUME NEW q \in Procs, NEW u \in Upages, NEW r \in Procs,
                      pc'[r] \in {"evict", "mark", "index"}, Holds(reg[r].kpage, q, u)'
               PROVE  Holds(reg[r].kpage, q, u)
    OBVIOUS
  <2>1. reg'[r] = reg[r] /\ frame' = frame
    BY <1>1
  <2> QED
    BY <2>1 DEF Holds
<1>5. \A q \in Procs, u \in Upages :
        /\ Held(q, u) => spte'[q][u].slot = spte[q][u].slot
        /\ spte'[q][u].status = "fresh" => spte[q][u].status = "fresh"
        /\ pagedir'[q][u] \in {None, pagedir[q][u]}
  BY DEF Held
<1>6. ~ Writing(p) /\ ~ Writing(p)' /\ pc'[p] \notin {"map", "evict"}
  BY DEF Writing
<1> HIDE DEF Held
<1> QED
  BY <1>3, <1>4, <1>5, <1>6, CalmStep

\* A step in which nothing happens to pages and processes.
LEMMA NoStep ==
  ASSUME PageInv, UNCHANGED << pc, reg, memory, val >>
  PROVE  PageInv'
<1>1. \A q \in Procs, u \in Upages : Held(q, u)' <=> Held(q, u)
  BY DEF Held, HalfMarked, memory
<1>2. \A k, q, u : Holds(k, q, u)' <=> Holds(k, q, u)
  BY DEF Holds, memory
<1>3. \A q : Writing(q)' <=> Writing(q)
  BY DEF Writing
<1> QED
  BY <1>1, <1>2, <1>3 DEF PageInv, SlotsOwn, SlotsUsed, PagesKept, Contained, memory, slots

\* Only p moves.
LEMMA OneMoves ==
  ASSUME FrameInv, NEW p \in Procs, NEW l, Goto(p, l),
         reg' = reg \/ \E r : reg' = [reg EXCEPT ![p] = r]
  PROVE  pc'[p] = l /\ \A q \in Procs \ {p} : pc'[q] = pc[q] /\ reg'[q] = reg[q]
  BY DEF FrameInv, Types, Goto

\* The steps that leave page directories and entries alone and copy nothing.
LEMMA AsideActions ==
  ASSUME FrameInv, PageInv, NEW p \in Procs, ~ stray',
         \/ \E u \in Upages : Fault(p, u) \/ Syscall(p, u)
         \/ Load(p) \/ PickNone(p) \/ SwapFull(p) \/ VictimGone(p)
         \/ PinTest(p) \/ PinRead(p) \/ UseDone(p) \/ Exit(p) \/ Allocate(p) \/ Take(p)
         \/ Unpin(p) \/ Pin(p) \/ Remove(p) \/ \E u \in Upages : DestroyTorn(p, u)
  PROVE  PageInv'
<1>0. reg[p].then \in {"run", "pin", "use"}
  BY DEF FrameInv, Types, Regs
<1>1. CASE \/ PickNone(p) \/ SwapFull(p) \/ VictimGone(p)
          \/ \E u \in Upages : DestroyTorn(p, u)
  BY <1>1, NoStep DEF Panics, PickNone, SwapFull, VictimGone, DestroyTorn
<1>2. CASE \E u \in Upages : Fault(p, u) \/ Syscall(p, u)
  <2>1. PICK u \in Upages : Fault(p, u) \/ Syscall(p, u)
    BY <1>2
  <2>2. /\ pc[p] \in {"run", "use"} /\ Goto(p, "load")
        /\ \E r : reg' = [reg EXCEPT ![p] = r]
        /\ UNCHANGED << spte, pagedir, frame, mem, swap, available, val >>
    BY <2>1 DEF Fault, Syscall, memory, slots, rest
  <2> QED
    BY <2>2, OneMoves, AsideStep
<1>3. CASE Load(p)
  <2> DEFINE l == IF spte[p][reg[p].upage].status = "frame" THEN reg[p].then ELSE "alloc"
  <2>1. /\ pc[p] = "load" /\ Goto(p, l) /\ l \in {"run", "pin", "use", "alloc"}
        /\ UNCHANGED << reg, spte, pagedir, frame, mem, swap, available, val >>
    BY <1>0, <1>3 DEF Load, memory, slots, rest
  <2> HIDE DEF l
  <2> QED
    BY <2>1, OneMoves, AsideStep
<1>4. CASE Exit(p)
  <2>1. /\ pc[p] = "run" /\ Goto(p, "destroy")
        /\ UNCHANGED << reg, spte, pagedir, frame, mem, swap, available, val >>
    BY <1>4 DEF Exit, memory, slots, rest
  <2> QED
    BY <2>1, OneMoves, AsideStep
<1>5. CASE PinTest(p) \/ PinRead(p)
  <2>1. CASE UNCHANGED << pc, reg, memory, val >>
    BY <2>1, NoStep
  <2>2. CASE ~ UNCHANGED << pc, reg, memory, val >>
    <3>1. /\ pc[p] \in {"pin", "pinread"}
          /\ \E l \in {"pinread", "pinlock"} : Goto(p, l)
          /\ reg' = reg \/ \E r : reg' = [reg EXCEPT ![p] = r]
          /\ UNCHANGED << spte, pagedir, frame, mem, swap, available, val >>
      BY <1>5, <2>2 DEF PinTest, PinRead, Panics, memory, slots, rest
    <3> QED
      BY <3>1, OneMoves, AsideStep
  <2> QED
    BY <2>1, <2>2
<1>6. CASE UseDone(p)
  <2>1. /\ pc[p] = "use"
        /\ \E l \in {"unpin", "run"} : Goto(p, l)
        /\ \E r : reg' = [reg EXCEPT ![p] = r]
        /\ UNCHANGED << spte, pagedir, frame, mem, swap, available, val >>
    BY <1>6 DEF UseDone, memory, slots
  <2> QED
    BY <2>1, OneMoves, AsideStep
<1>7. CASE Allocate(p) \/ Unpin(p) \/ Pin(p) \/ Remove(p)
  <2>1. \A q \in Procs : pc[q] \notin {"evict", "mark", "index"}
    BY <1>7, NoneAssumption DEF Allocate, Unpin, Pin, Remove, FrameInv, Locked, Evicting
  <2>2. UNCHANGED << spte, pagedir, mem, swap, available, val >>
    BY <1>7 DEF Allocate, Unpin, Pin, Remove, Panics, memory, slots, rest
  <2>3. pc[p] \in {"alloc", "unpin", "pinlock", "remove"}
    BY <1>7 DEF Allocate, Unpin, Pin, Remove
  <2>4. CASE UNCHANGED << pc, reg, frame, pool >>
    BY <2>2, <2>4, NoStep DEF memory, slots
  <2>5. CASE ~ UNCHANGED << pc, reg, frame, pool >>
    <3>1. \E l \in {"fill", "run", "pin", "use", "destroy"} :
            Goto(p, l) /\ \E r : reg' = [reg EXCEPT ![p] = r]
      <4>1. CASE Allocate(p)
        BY <4>1 DEF Allocate
      <4>2. CASE Unpin(p)
        BY <1>0, <2>5, <4>2 DEF Unpin
      <4>3. CASE Pin(p)
        BY <2>5, <4>3 DEF Pin
      <4>4. CASE Remove(p)
        BY <2>5, <4>4 DEF Remove, Panics, memory
      <4> QED
        BY <1>7, <4>1, <4>2, <4>3, <4>4
    <3>2. /\ pc'[p] \in {"fill", "run", "pin", "use", "destroy"}
          /\ \A q \in Procs \ {p} : pc'[q] = pc[q] /\ reg'[q] = reg[q]
      BY <3>1, OneMoves
    <3>3. {pc[p], pc'[p]} \intersect {"map", "evict", "mark", "index"} = {}
      BY <2>3, <3>2
    <3> QED
      BY <2>1, <2>2, <3>2, <3>3, AsideStep
  <2> QED
    BY <2>4, <2>5
<1>8. CASE Take(p)
  <2>1. /\ pc[p] = "dirty" /\ Goto(p, "fill") /\ \E r : reg' = [reg EXCEPT ![p] = r]
        /\ UNCHANGED << spte, pagedir, mem, swap, available, val >>
    BY <1>8 DEF Take, slots
  <2>2. \A q \in Procs : pc[q] \notin {"evict", "mark", "index"}
    BY <2>1 DEF FrameInv, Locked, Evicting
  <2> QED
    BY <2>1, <2>2, OneMoves, AsideStep
<1> QED
  BY <1>1, <1>2, <1>3, <1>4, <1>5, <1>6, <1>7, <1>8

\* A mapped page, in use by its process, is in memory and on its way nowhere.
LEMMA MappedPage ==
  ASSUME FrameInv, NEW p \in Procs, NEW u \in Upages, pagedir[p][u] # None
  PROVE  LET k == pagedir[p][u] IN
         /\ k \in Kpages /\ ~ Unmapped(k) /\ ~ Held(p, u)
         /\ pc[p] \notin {"destroy", "remove"} =>
              spte[p][u].status = "frame" /\ Holds(k, p, u)
         /\ \A q \in Procs, v \in Upages : pagedir[q][v] = k => q = p /\ v = u
         /\ pc[p] \in Filling => reg[p].upage # u
<1> DEFINE k == pagedir[p][u]
<1>1. k \in Kpages
  BY DEF FrameInv, Types
<1>2. ~ Unmapped(k)
  BY DEF Unmapped
<1>3. spte[p][u].status \in {"frame", "gone"}
  BY DEF FrameInv, MapsOwn
<1>4. pc[p] \notin {"destroy", "remove"} => spte[p][u].status = "frame" /\ Holds(k, p, u)
  BY DEF FrameInv, MapsOwn, EntriesTrue
<1>5. pc[p] \in Filling => reg[p].upage # u
  BY <1>3, <1>4 DEF FrameInv, Lives, Wanting, Filling
<1> QED
  BY <1>1, <1>2, <1>3, <1>4, <1>5 DEF Held, FrameInv, MapsOwn

\* A store of the process: only its page's contents change.
LEMMA WriteStep ==
  ASSUME FrameInv, PageInv, NEW p \in Procs, NEW u \in Upages, NEW d \in Data, Write(p, u, d)
  PROVE  PageInv'
<1> DEFINE k == pagedir[p][u]
<1>1. /\ pc[p] \in {"run", "use"} /\ k # None
      /\ mem' = [mem EXCEPT ![k] = d] /\ val' = [val EXCEPT ![p][u] = d]
      /\ UNCHANGED << pc, reg, spte, pagedir, frame, swap, available >>
  BY DEF Write, slots
<1>2. /\ k \in Kpages /\ ~ Unmapped(k) /\ ~ Held(p, u)
      /\ spte[p][u].status = "frame" /\ Holds(k, p, u)
      /\ \A q \in Procs, v \in Upages : pagedir[q][v] = k => q = p /\ v = u
  BY <1>1, MappedPage
<1>3. /\ mem' \in [Kpages -> Contents] /\ mem'[k] = d
      /\ \A j \in Kpages \ {k} : mem'[j] = mem[j]
      /\ val' \in [Procs -> [Upages -> Contents]] /\ val'[p][u] = d
      /\ \A q \in Procs, v \in Upages : q # p \/ v # u => val'[q][v] = val[q][v]
  BY <1>1, <1>2 DEF PageInv, Contained, Contents
<1> HIDE DEF k
<1>4. \A q \in Procs, v \in Upages : Held(q, v)' <=> Held(q, v)
  BY <1>1 DEF Held, HalfMarked
<1>5. \A j, q, v : Holds(j, q, v)' <=> Holds(j, q, v)
  BY <1>1 DEF Holds
<1>6. \A q : Writing(q)' <=> Writing(q)
  BY <1>1 DEF Writing
<1>7. SlotsOwn' /\ SlotsUsed'
  BY <1>1, <1>4, <1>6 DEF PageInv, SlotsOwn, SlotsUsed
<1>8. \A q \in Procs : pc[q] \in Evicting =>
        reg[q].kpage \in Kpages /\ reg[q].kpage # k /\ ~ Holds(reg[q].kpage, p, u)
  BY <1>2, Evictor DEF FrameInv, OneFrame
<1>9. \A q \in Procs : pc[q] = "map" => reg[q].kpage \in Kpages /\ reg[q].kpage # k
  BY <1>2, LoadedAlone DEF Filling
<1>10. PagesKept'
  <2> SUFFICES ASSUME NEW q \in Procs, NEW v \in Upages
               PROVE  /\ pagedir[q][v] # None => mem'[pagedir[q][v]] = val'[q][v]
                      /\ Held(q, v) => swap[spte[q][v].slot] = val'[q][v]
                      /\ spte[q][v].status = "fresh" => val'[q][v] = Zero
                      /\ pc[q] = "map" /\ reg[q].upage = v => mem'[reg[q].kpage] = val'[q][v]
                      /\ \A r \in Procs :
                           /\ pc[r] = "evict" /\ Holds(reg[r].kpage, q, v)
                                => mem'[reg[r].kpage] = val'[q][v]
                           /\ Writing(r) /\ Holds(reg[r].kpage, q, v)
                                => swap[reg[r].slot] = val'[q][v]
    BY <1>1, <1>4, <1>5, <1>6 DEF PagesKept
  <2>1. pagedir[q][v] # None => pagedir[q][v] \in Kpages
    BY DEF FrameInv, Types
  <2>2. CASE q = p /\ v = u
    BY <1>1, <1>2, <1>3, <1>8, <2>2 DEF k, Evicting, Writing
  <2>3. CASE q # p \/ v # u
    BY <1>2, <1>3, <1>8, <1>9, <2>1, <2>3 DEF PageInv, PagesKept, Evicting, Writing
  <2> QED
    BY <2>2, <2>3
<1> QED
  BY <1>1, <1>3, <1>7, <1>10 DEF PageInv, Contained

\* pick_frame_to_evict: the victim's page is no longer mapped, and its contents
\* are in the frame.
LEMMA PickKeeps ==
  ASSUME FrameInv, PageInv, NEW p \in Procs, Pick(p)
  PROVE  PageInv'
<1>1. PICK k \in Unpinned :
        /\ pagedir' = [pagedir EXCEPT ![frame[k].t][frame[k].upage] = None]
        /\ reg' = [reg EXCEPT ![p] = [reg[p] EXCEPT !.kpage = k]]
  BY DEF Pick, Cleared
<1>2. /\ pc[p] = "alloc" /\ frame_lock = None /\ Goto(p, "evict")
      /\ UNCHANGED << spte, frame, mem, swap, available, val >>
  BY DEF Pick, Acquire, slots
<1>3. /\ pc'[p] = "evict" /\ reg'[p].kpage = k
      /\ \A q \in Procs \ {p} : pc'[q] = pc[q] /\ reg'[q] = reg[q]
  <2>1. reg[p] \in Regs /\ reg'[p] = [reg[p] EXCEPT !.kpage = k]
    BY <1>1 DEF FrameInv, Types
  <2>2. reg'[p].kpage = k
    BY <2>1 DEF Regs
  <2> QED
    BY <1>1, <1>2, <2>2, OneMoves
<1>4. /\ k \in Kpages /\ frame[k] # None /\ ~ frame[k].pinned
      /\ frame[k].t \in Procs /\ frame[k].upage \in Upages
      /\ \A q, v : Holds(k, q, v) => q = frame[k].t /\ v = frame[k].upage
  BY FrameOwner DEF Unpinned
<1>5. mem[k] = val[frame[k].t][frame[k].upage]
  BY <1>2, <1>4, VictimMapped, NoneAssumption DEF PageInv, PagesKept
<1>6. \A q \in Procs : pc[q] \notin Evicting /\ ~ Writing(q) /\ ~ Writing(q)'
  BY <1>2, <1>3, NoneAssumption DEF FrameInv, Locked, Evicting, Writing
<1>7. \A q \in Procs, u \in Upages : Held(q, u)' <=> Held(q, u)
  BY <1>2, <1>3, <1>6 DEF Held, HalfMarked, Evicting
<1>8. \A j, q, u : Holds(j, q, u)' <=> Holds(j, q, u)
  BY <1>2 DEF Holds
<1>9. \A q \in Procs, u \in Upages : pagedir'[q][u] \in {None, pagedir[q][u]}
  BY <1>1, <1>4 DEF FrameInv, Types
<1>10. SlotsOwn' /\ SlotsUsed'
  BY <1>2, <1>6, <1>7 DEF PageInv, SlotsOwn, SlotsUsed
<1>11. PagesKept'
  BY <1>2, <1>3, <1>4, <1>5, <1>6, <1>7, <1>8, <1>9 DEF PageInv, PagesKept, Evicting
<1> QED
  BY <1>2, <1>10, <1>11 DEF PageInv, Contained

\* vm_swap_out: the contents are in the slot, which had no page.
LEMMA SwapOutKeeps ==
  ASSUME FrameInv, PageInv, NEW p \in Procs, SwapOut(p)
  PROVE  PageInv'
<1> DEFINE k == reg[p].kpage
<1>1. PICK s \in available :
        /\ swap' = [swap EXCEPT ![s] = mem[k]] /\ available' = available \ {s}
        /\ reg' = [reg EXCEPT ![p] = [reg[p] EXCEPT !.slot = s]]
  BY DEF SwapOut, Occupied
<1>2. /\ pc[p] = "evict" /\ Goto(p, "mark")
      /\ UNCHANGED << spte, pagedir, frame, mem, val >>
  BY DEF SwapOut, rest
<1>3. /\ pc'[p] = "mark" /\ reg'[p].kpage = k /\ reg'[p].slot = s
      /\ \A q \in Procs \ {p} : pc'[q] = pc[q] /\ reg'[q] = reg[q]
  <2>1. reg[p] \in Regs /\ reg'[p] = [reg[p] EXCEPT !.slot = s]
    BY <1>1 DEF FrameInv, Types
  <2>2. reg'[p].kpage = k /\ reg'[p].slot = s
    BY <2>1 DEF Regs
  <2> QED
    BY <1>1, <1>2, <2>2, OneMoves
<1>4. s \in Slots /\ available \subseteq Slots /\ k \in Kpages
  BY <1>1, <1>2, Evictor DEF FrameInv, Types, Evicting
<1>5. /\ swap' \in [Slots -> Contents] /\ swap'[s] = mem[k]
      /\ \A r \in Slots \ {s} : swap'[r] = swap[r]
  BY <1>1, <1>4 DEF PageInv, Contained
<1> HIDE DEF k
<1>6. \A q \in Procs : pc[q] \in Evicting => q = p
  BY <1>2, Evictor DEF Evicting
<1>7. \A q \in Procs : Writing(q)' <=> q = p
  BY <1>2, <1>3, <1>6 DEF Writing, Evicting
<1>8. \A q \in Procs, u \in Upages : Held(q, u)' <=> Held(q, u)
  BY <1>2, <1>3, <1>6 DEF Held, HalfMarked, Evicting
<1>9. \A j, q, u : Holds(j, q, u)' <=> Holds(j, q, u)
  BY <1>2 DEF Holds
<1>10. SlotsOwn'
  BY <1>1, <1>2, <1>3, <1>4, <1>7, <1>8 DEF PageInv, SlotsOwn
<1>11. SlotsUsed'
  <2>1. \A q \in Procs : ~ Writing(q)
    BY <1>2, <1>6 DEF Writing, Evicting
  <2> QED
    BY <1>1, <1>2, <1>3, <1>4, <1>7, <1>8, <2>1 DEF PageInv, SlotsUsed
<1>12. PagesKept'
  <2>1. \A q \in Procs, u \in Upages : Held(q, u) =>
          swap'[spte[q][u].slot] = swap[spte[q][u].slot]
    BY <1>1, <1>5 DEF PageInv, SlotsOwn
  <2>2. \A q \in Procs, u \in Upages : Holds(k, q, u) => mem[k] = val[q][u]
    BY <1>2 DEF PageInv, PagesKept, k
  <2> QED
    BY <1>2, <1>3, <1>5, <1>6, <1>7, <1>8, <1>9, <2>1, <2>2 DEF PageInv, PagesKept, Evicting
<1> QED
  BY <1>2, <1>5, <1>10, <1>11, <1>12 DEF PageInv, Contained

\* vm_supt_set_swap, the first half: nothing has moved.
LEMMA MarkKeeps ==
  ASSUME FrameInv, PageInv, NEW p \in Procs, Mark(p)
  PROVE  PageInv'
<1> DEFINE k == reg[p].kpage
           t == frame[k].t
           v == frame[k].upage
<1>1. /\ pc[p] = "mark" /\ Goto(p, "index")
      /\ spte' = [spte EXCEPT ![t][v] = [spte[t][v] EXCEPT !.status = "swap", !.kpage = None]]
      /\ UNCHANGED << reg, pagedir, frame, mem, swap, available, val >>
  BY DEF Mark, slots, rest
<1>2. /\ t \in Procs /\ v \in Upages /\ spte[t][v].status # "swap"
      /\ \A q \in Procs : pc[q] \in Evicting => q = p
  <2>1. /\ k \in Kpages /\ frame[k] # None /\ ~ frame[k].pinned /\ ~ Takes(k)
        /\ \A q \in Procs : pc[q] \in Evicting => q = p
    BY <1>1, Evictor DEF Evicting
  <2>2. t \in Procs /\ v \in Upages /\ Holds(k, t, v)
    BY <2>1, FrameOwner
  <2>3. spte[t][v].status = "frame" \/ (pc[t] = "remove" /\ reg[t].kpage = k)
    <3>1. ~ (pc[t] \in Filling /\ reg[t].kpage = k)
      <4>1. pc[t] \in Filling => \A q \in Procs : pc[q] \in Evicting => reg[q].kpage # reg[t].kpage
        BY <2>2, LoadedAlone
      <4> QED
        BY <1>1, <4>1 DEF Evicting
    <3>2. \/ spte[t][v].status = "frame" /\ spte[t][v].kpage = k
          \/ pc[t] \in Filling /\ reg[t].upage = v /\ reg[t].kpage = k
          \/ pc[t] = "remove" /\ reg[t].kpage = k
          \/ Takes(k)
      BY <2>1, <2>2 DEF FrameInv, FramesUsed
    <3> QED
      BY <2>1, <3>1, <3>2
  <2>4. pc[t] = "remove" /\ reg[t].kpage = k => spte[t][v].status = "gone"
    <3>1. Working(t)
      BY <2>2 DEF FrameInv, AtWork
    <3> QED
      BY <3>1 DEF Working
  <2> QED
    BY <2>1, <2>2, <2>3, <2>4
<1>3. \A q \in Procs, u \in Upages : q # t \/ u # v => spte'[q][u] = spte[q][u]
  <2>1. spte \in [Procs -> [Upages -> Entries]]
    BY DEF FrameInv, Types
  <2> HIDE DEF t, v
  <2> QED
    BY <1>1, <1>2, <2>1
<1>4. spte'[t][v].status = "swap"
  <2>1. spte[t][v] \in Entries
    BY <1>2 DEF FrameInv, Types
  <2> QED
    BY <1>1, <1>2, <2>1 DEF FrameInv, Types, Entries
<1>5. pc'[p] = "index" /\ \A q \in Procs \ {p} : pc'[q] = pc[q]
  BY <1>1, OneMoves
<1>6. \A q \in Procs, u \in Upages : HalfMarked(q, u)' <=> q = t /\ u = v
  BY <1>1, <1>2, <1>5 DEF HalfMarked, Evicting
<1>7. \A q \in Procs, u \in Upages : ~ HalfMarked(q, u)
  BY <1>1, <1>2 DEF HalfMarked, Evicting
<1> HIDE DEF k, t, v
<1>8. \A q \in Procs, u \in Upages : Held(q, u)' <=> Held(q, u)
  BY <1>1, <1>2, <1>3, <1>5, <1>6, <1>7 DEF Held
<1>9. \A q \in Procs, u \in Upages :
        /\ Held(q, u) => spte'[q][u].slot = spte[q][u].slot
        /\ spte'[q][u].status = "fresh" => spte[q][u].status = "fresh"
  BY <1>2, <1>3, <1>4 DEF Held
<1>10. \A j, q, u : Holds(j, q, u)' <=> Holds(j, q, u)
  BY <1>1 DEF Holds
<1> HIDE DEF Held
<1> QED
  BY <1>1, <1>5, <1>8, <1>9, <1>10, CalmStep DEF Writing

\* The second half: the entry has its slot, and the contents are there.
LEMMA IndexKeeps ==
  ASSUME FrameInv, PageInv, NEW p \in Procs, Index(p)
  PROVE  PageInv'
<1>1. pc[p] = "index"
  BY DEF Index
<1>2. /\ reg[p].kpage \in Kpages /\ frame[reg[p].kpage] # None
      /\ ~ frame[reg[p].kpage].pinned
      /\ \A q \in Procs : pc[q] \in Evicting => q = p
  BY <1>1, Evictor DEF Evicting
<1>3. PICK k \in Kpages, s \in Slots \union {None}, t \in Procs, v \in Upages :
        /\ k = reg[p].kpage /\ s = reg[p].slot
        /\ t = frame[k].t /\ v = frame[k].upage /\ Holds(k, t, v)
  <2> DEFINE k == reg[p].kpage
  <2>1. frame[k].t \in Procs /\ frame[k].upage \in Upages /\ Holds(k, frame[k].t, frame[k].upage)
    BY <1>2, FrameOwner
  <2>2. reg[p].slot \in Slots \union {None}
    BY DEF FrameInv, Types, Regs
  <2> QED
    BY <1>2, <2>1, <2>2
<1>4. /\ pc[p] = "index" /\ Goto(p, "dirty")
      /\ spte' = [spte EXCEPT ![t][v] = [spte[t][v] EXCEPT !.slot = s]]
      /\ UNCHANGED << reg, pagedir, frame, mem, swap, available, val >>
  BY <1>3 DEF Index, slots, rest
<1>5. spte[t][v].status = "swap"
  BY <1>4, <1>3 DEF FrameInv, AtWork, Working, VictimEntry, Evicting
<1>6. ~ (pc[t] = "map" /\ reg[t].upage = v)
  BY <1>4, <1>3, LoadedAlone DEF Evicting, Filling
<1>7. /\ spte'[t][v].status = "swap" /\ spte'[t][v].slot = s
      /\ \A q \in Procs, u \in Upages : q # t \/ u # v => spte'[q][u] = spte[q][u]
  <2>1. spte[t][v] \in Entries
    BY <1>3 DEF FrameInv, Types
  <2> QED
    BY <1>4, <1>3, <1>5, <2>1 DEF FrameInv, Types, Entries
<1>8. pc'[p] = "dirty" /\ \A q \in Procs \ {p} : pc'[q] = pc[q]
  BY <1>4, OneMoves
<1>9. \A q \in Procs, u \in Upages :
        /\ HalfMarked(q, u) <=> q = t /\ u = v
        /\ ~ HalfMarked(q, u)'
  BY <1>4, <1>2, <1>3, <1>8 DEF HalfMarked, Evicting
<1>10. Writing(p) /\ \A q \in Procs : ~ Writing(q)' /\ (Writing(q) => q = p)
  BY <1>4, <1>2, <1>8 DEF Writing, Evicting
<1>11. s \in Slots \ available /\ swap[s] = val[t][v]
  BY <1>3, <1>10 DEF PageInv, SlotsOwn, PagesKept
<1>12. /\ Held(t, v)' /\ ~ Held(t, v)
       /\ \A q \in Procs, u \in Upages : q # t \/ u # v => (Held(q, u)' <=> Held(q, u))
  <2>1. \A q \in Procs : pc[q] = "map" <=> pc'[q] = "map"
    BY <1>4, <1>8
  <2>2. Held(t, v)' /\ ~ Held(t, v)
    BY <1>4, <1>3, <1>6, <1>7, <1>9, <2>1 DEF Held
  <2>3. ASSUME NEW q \in Procs, NEW u \in Upages, q # t \/ u # v
        PROVE  Held(q, u)' <=> Held(q, u)
    BY <1>4, <1>7, <1>9, <2>1, <2>3 DEF Held
  <2> QED
    BY <2>2, <2>3
<1>13. \A q \in Procs, u \in Upages : Held(q, u) => spte[q][u].slot # s
  BY <1>3, <1>10 DEF PageInv, SlotsOwn
<1>14. \A j, q, u : Holds(j, q, u)' <=> Holds(j, q, u)
  BY <1>4 DEF Holds
<1> HIDE DEF Held
<1>15. SlotsOwn'
  <2> SUFFICES ASSUME NEW q \in Procs, NEW u \in Upages, Held(q, u)'
               PROVE  /\ spte'[q][u].slot \in Slots \ available
                      /\ \A r \in Procs, w \in Upages :
                           Held(r, w)' /\ spte'[r][w].slot = spte'[q][u].slot => r = q /\ w = u
    BY <1>4, <1>10 DEF SlotsOwn
  <2>1. CASE q = t /\ u = v
    BY <1>7, <1>11, <1>12, <1>13, <2>1
  <2>2. CASE q # t \/ u # v
    <3>1. Held(q, u) /\ spte'[q][u] = spte[q][u] /\ spte[q][u].slot # s
      BY <1>7, <1>12, <1>13, <2>2
    <3>2. \A r \in Procs, w \in Upages : r # t \/ w # v =>
            (Held(r, w)' <=> Held(r, w)) /\ spte'[r][w] = spte[r][w]
      BY <1>7, <1>12
    <3> QED
      BY <1>7, <3>1, <3>2 DEF PageInv, SlotsOwn
  <2> QED
    BY <2>1, <2>2
<1>16. SlotsUsed'
  <2> SUFFICES ASSUME NEW x \in Slots \ available
               PROVE  \E q \in Procs, u \in Upages : Held(q, u)' /\ spte'[q][u].slot = x
    BY <1>4 DEF SlotsUsed
  <2>1. CASE \E q \in Procs, u \in Upages : Held(q, u) /\ spte[q][u].slot = x
    BY <1>7, <1>12, <2>1
  <2>2. CASE \E q \in Procs : Writing(q) /\ reg[q].slot = x
    <3>1. x = s
      BY <1>3, <1>10, <2>2
    <3>2. t \in Procs /\ v \in Upages /\ Held(t, v)' /\ spte'[t][v].slot = x
      BY <1>3, <1>7, <1>12, <3>1
    <3> QED
      BY <3>2
  <2> QED
    BY <2>1, <2>2 DEF PageInv, SlotsUsed
<1>17. PagesKept'
  <2>1. \A q \in Procs : pc'[q] \in {"map", "evict"} => pc[q] = pc'[q]
    BY <1>8
  <2>2. \A q \in Procs, u \in Upages : spte'[q][u].status = "fresh" => spte[q][u].status = "fresh"
    BY <1>5, <1>7
  <2> QED
    BY <1>4, <1>7, <1>10, <1>11, <1>12, <1>14, <2>1, <2>2 DEF PageInv, PagesKept
<1> QED
  BY <1>4, <1>15, <1>16, <1>17 DEF PageInv, Contained

\* A page is filled, with zeros or from its slot: only the frame of p changes,
\* and the slot is given back.
LEMMA FillKeeps ==
  ASSUME FrameInv, PageInv, NEW p \in Procs, FillFresh(p) \/ FillSwap(p)
  PROVE  PageInv'
<1> SUFFICES ASSUME ~ Panics("swap in") PROVE PageInv'
  BY NoStep DEF Panics
<1>1. pc[p] = "fill"
  BY DEF FillFresh, FillSwap
<1>2. PICK k \in Kpages, u \in Upages :
        /\ k = reg[p].kpage /\ u = reg[p].upage
        /\ Holds(k, p, u) /\ Unmapped(k) /\ ~ HalfMarked(p, u)
        /\ \A q \in Procs : pc[q] \in Evicting => reg[q].kpage \in Kpages /\ reg[q].kpage # k
  BY <1>1, LoadedAlone DEF Filling
<1> DEFINE s == spte[p][u].slot
<1>3. /\ Goto(p, "map") /\ UNCHANGED << reg, spte, pagedir, frame, swap, val >>
      /\ \/ /\ spte[p][u].status = "fresh" /\ available' = available
            /\ mem' = [mem EXCEPT ![k] = Zero]
         \/ /\ spte[p][u].status = "swap" /\ available' = available \union {s}
            /\ mem' = [mem EXCEPT ![k] = swap[s]]
  BY <1>2 DEF FillFresh, FillSwap, Vacated, slots, rest
<1>4. pc'[p] = "map" /\ \A q \in Procs \ {p} : pc'[q] = pc[q]
  BY <1>3, OneMoves
<1>5. /\ Held(p, u) <=> spte[p][u].status = "swap"
      /\ \A q \in Procs, w \in Upages : Held(q, w)' <=> Held(q, w) /\ ~ (q = p /\ w = u)
  <2>1. \A q \in Procs : pc'[q] = "index" <=> pc[q] = "index"
    BY <1>1, <1>4
  <2>2. \A q \in Procs, w \in Upages : HalfMarked(q, w)' <=> HalfMarked(q, w)
    BY <1>3, <2>1 DEF HalfMarked
  <2> QED
    BY <1>1, <1>2, <1>3, <1>4, <2>2 DEF Held
<1>6. \A q \in Procs : Writing(q)' <=> Writing(q)
  BY <1>1, <1>4 DEF Writing
<1>7. \A x : x \in available' <=> x \in available \/ (Held(p, u) /\ x = s)
  BY <1>3, <1>5
<1>8. /\ mem' \in [Kpages -> Contents] /\ mem'[k] = val[p][u]
      /\ \A j \in Kpages \ {k} : mem'[j] = mem[j]
  <2>1. Held(p, u) => s \in Slots /\ swap[s] = val[p][u] /\ swap[s] \in Contents
    BY DEF PageInv, SlotsOwn, PagesKept, Contained
  <2>2. spte[p][u].status = "fresh" => val[p][u] = Zero
    BY DEF PageInv, PagesKept
  <2> QED
    BY <1>3, <1>5, <2>1, <2>2 DEF PageInv, Contained, Contents
<1>12. UNCHANGED << reg, spte, pagedir, frame, swap, val >>
  BY <1>3
<1> HIDE DEF Held
<1>9. SlotsOwn'
  <2>1. ASSUME NEW q \in Procs, NEW w \in Upages, Held(q, w)'
        PROVE  Held(q, w) /\ spte[q][w].slot \in Slots \ available'
    <3>1. Held(q, w) /\ (q # p \/ w # u)
      BY <1>5, <2>1
    <3>2. spte[q][w].slot \in Slots \ available
      BY <3>1 DEF PageInv, SlotsOwn
    <3>3. Held(p, u) => spte[q][w].slot # s
      BY <3>1 DEF PageInv, SlotsOwn
    <3> QED
      BY <1>7, <3>1, <3>2, <3>3
  <2>2. ASSUME NEW q \in Procs, Writing(q)
        PROVE  reg[q].slot \in Slots \ available'
    <3>1. reg[q].slot \in Slots \ available /\ (Held(p, u) => reg[q].slot # s)
      BY <2>2 DEF PageInv, SlotsOwn
    <3> QED
      BY <1>7, <3>1
  <2>3. \A q \in Procs, w \in Upages : Held(q, w)' =>
          /\ spte'[q][w].slot \in Slots \ available'
          /\ \A r \in Procs, v \in Upages :
               Held(r, v)' /\ spte'[r][v].slot = spte'[q][w].slot => r = q /\ v = w
          /\ \A r \in Procs : Writing(r)' => reg'[r].slot # spte'[q][w].slot
    <3> SUFFICES ASSUME NEW q \in Procs, NEW w \in Upages, Held(q, w)'
                 PROVE  /\ spte'[q][w].slot \in Slots \ available'
                        /\ \A r \in Procs, v \in Upages :
                             Held(r, v)' /\ spte'[r][v].slot = spte'[q][w].slot
                               => r = q /\ v = w
                        /\ \A r \in Procs : Writing(r)' => reg'[r].slot # spte'[q][w].slot
      OBVIOUS
    <3>1. Held(q, w) /\ spte'[q][w].slot \in Slots \ available'
      BY <1>12, <2>1
    <3>2. ASSUME NEW r \in Procs, NEW v \in Upages, Held(r, v)',
                 spte'[r][v].slot = spte'[q][w].slot
          PROVE  r = q /\ v = w
      <4>1. Held(r, v) /\ spte[r][v].slot = spte[q][w].slot
        BY <1>12, <2>1, <3>2
      <4> QED
        BY <3>1, <4>1 DEF PageInv, SlotsOwn
    <3>3. ASSUME NEW r \in Procs, Writing(r)'
          PROVE  reg'[r].slot # spte'[q][w].slot
      BY <1>6, <1>12, <3>1, <3>3 DEF PageInv, SlotsOwn
    <3> QED
      BY <3>1, <3>2, <3>3
  <2>4. \A q \in Procs : Writing(q)' => reg'[q].slot \in Slots \ available'
    BY <1>6, <1>12, <2>2
  <2> QED
    BY <2>3, <2>4 DEF SlotsOwn
<1>10. SlotsUsed'
  <2> SUFFICES ASSUME NEW x \in Slots \ available'
               PROVE  \/ \E q \in Procs, w \in Upages : Held(q, w)' /\ spte[q][w].slot = x
                      \/ \E q \in Procs : Writing(q) /\ reg[q].slot = x
    BY <1>3, <1>6 DEF SlotsUsed
  <2>1. x \in Slots \ available /\ ~ (Held(p, u) /\ x = s)
    BY <1>7
  <2> QED
    BY <1>5, <2>1 DEF PageInv, SlotsUsed
<1>11. PagesKept'
  <2>1. \A q \in Procs, w \in Upages : pagedir[q][w] # None => pagedir[q][w] \in Kpages \ {k}
    <3>1. pagedir \in [Procs -> [Upages -> Kpages \union {None}]]
      BY DEF FrameInv, Types
    <3> QED
      BY <1>2, <3>1 DEF Unmapped
  <2>2. \A q \in Procs \ {p} : pc[q] = "map" => reg[q].kpage \in Kpages \ {k}
    <3> SUFFICES ASSUME NEW q \in Procs \ {p}, pc[q] = "map"
                 PROVE  reg[q].kpage \in Kpages \ {k}
      OBVIOUS
    <3>1. reg[q].kpage \in Kpages /\ Holds(reg[q].kpage, q, reg[q].upage)
      BY LoadedAlone DEF Filling
    <3> QED
      BY <1>2, <3>1 DEF Holds
  <2>3. \A q \in Procs : pc[q] = "evict" => reg[q].kpage \in Kpages \ {k}
    BY <1>2 DEF Evicting
  <2>5. \A q \in Procs, w \in Upages : pagedir'[q][w] # None => mem'[pagedir'[q][w]] = val'[q][w]
    BY <1>8, <1>12, <2>1 DEF PageInv, PagesKept
  <2>6. \A q \in Procs, w \in Upages :
          /\ Held(q, w)' => swap'[spte'[q][w].slot] = val'[q][w]
          /\ spte'[q][w].status = "fresh" => val'[q][w] = Zero
    BY <1>5, <1>12 DEF PageInv, PagesKept
  <2>7. ASSUME NEW q \in Procs, NEW w \in Upages, pc'[q] = "map", reg[q].upage = w
        PROVE  mem'[reg[q].kpage] = val[q][w]
    <3>1. CASE q = p
      BY <1>2, <1>8, <2>7, <3>1
    <3>2. CASE q # p
      <4>1. mem[reg[q].kpage] = val[q][w]
        BY <1>4, <2>7, <3>2 DEF PageInv, PagesKept
      <4> QED
        BY <1>4, <1>8, <2>2, <2>7, <3>2, <4>1
    <3> QED
      BY <3>1, <3>2
  <2>8. ASSUME NEW q \in Procs, NEW w \in Upages, NEW r \in Procs,
               pc'[r] = "evict", Holds(reg[r].kpage, q, w)
        PROVE  mem'[reg[r].kpage] = val[q][w]
    <3>1. pc[r] = "evict"
      BY <1>4, <2>8
    <3>2. mem[reg[r].kpage] = val[q][w]
      BY <2>8, <3>1 DEF PageInv, PagesKept
    <3> QED
      BY <1>8, <2>3, <3>1, <3>2
  <2>9. \A q \in Procs, w \in Upages, r \in Procs :
          Writing(r) /\ Holds(reg[r].kpage, q, w) => swap[reg[r].slot] = val[q][w]
    BY DEF PageInv, PagesKept
  <2>10. \A q \in Procs, w \in Upages :
           pc'[q] = "map" /\ reg'[q].upage = w => mem'[reg'[q].kpage] = val'[q][w]
    BY <1>12, <2>7
  <2>11. \A q \in Procs, w \in Upages, r \in Procs :
           Holds(reg[r].kpage, q, w)' =>
             /\ pc'[r] = "evict" => mem'[reg'[r].kpage] = val'[q][w]
             /\ Writing(r)' => swap'[reg'[r].slot] = val'[q][w]
    <3> SUFFICES ASSUME NEW q \in Procs, NEW w \in Upages, NEW r \in Procs,
                        Holds(reg[r].kpage, q, w)'
                 PROVE  /\ pc'[r] = "evict" => mem'[reg'[r].kpage] = val'[q][w]
                        /\ Writing(r)' => swap'[reg'[r].slot] = val'[q][w]
      OBVIOUS
    <3>1. Holds(reg[r].kpage, q, w)
      BY <1>12 DEF Holds
    <3>2. pc'[r] = "evict" => mem'[reg'[r].kpage] = val'[q][w]
      BY <1>12, <2>8, <3>1
    <3>3. Writing(r)' => swap'[reg'[r].slot] = val'[q][w]
      BY <1>6, <1>12, <2>9, <3>1
    <3> QED
      BY <3>2, <3>3
  <2> HIDE DEF s
  <2> SUFFICES ASSUME NEW q \in Procs, NEW w \in Upages
      PROVE  (/\ pagedir[q][w] # None => mem[pagedir[q][w]] = val[q][w]
              /\ Held(q, w) => swap[spte[q][w].slot] = val[q][w]
              /\ spte[q][w].status = "fresh" => val[q][w] = Zero
              /\ pc[q] = "map" /\ reg[q].upage = w => mem[reg[q].kpage] = val[q][w]
              /\ \A r \in Procs :
                   /\ pc[r] = "evict" /\ Holds(reg[r].kpage, q, w) => mem[reg[r].kpage] = val[q][w]
                   /\ Writing(r) /\ Holds(reg[r].kpage, q, w) => swap[reg[r].slot] = val[q][w])'
    BY DEF PagesKept
  <2>12. pagedir'[q][w] # None => mem'[pagedir'[q][w]] = val'[q][w]
    BY <2>5
  <2>13. /\ Held(q, w)' => swap'[spte'[q][w].slot] = val'[q][w]
         /\ spte'[q][w].status = "fresh" => val'[q][w] = Zero
    BY <2>6
  <2>14. pc'[q] = "map" /\ reg'[q].upage = w => mem'[reg'[q].kpage] = val'[q][w]
    BY <2>10
  <2>15. \A r \in Procs : Holds(reg[r].kpage, q, w)' =>
           /\ pc'[r] = "evict" => mem'[reg'[r].kpage] = val'[q][w]
           /\ Writing(r)' => swap'[reg'[r].slot] = val'[q][w]
    BY <2>11
  <2> QED
    BY <2>12, <2>13, <2>14, <2>15
<1> QED
  BY <1>3, <1>8, <1>9, <1>10, <1>11 DEF PageInv, Contained

\* pagedir_set_page: the page is in memory again.
LEMMA MapKeeps ==
  ASSUME FrameInv, PageInv, NEW p \in Procs, MapPage(p)
  PROVE  PageInv'
<1>1. pc[p] = "map"
  BY DEF MapPage
<1>2. PICK k \in Kpages, u \in Upages :
        /\ k = reg[p].kpage /\ u = reg[p].upage
        /\ Holds(k, p, u) /\ Unmapped(k) /\ ~ HalfMarked(p, u)
        /\ \A q \in Procs : pc[q] \in Evicting => reg[q].kpage \in Kpages /\ reg[q].kpage # k
  BY <1>1, LoadedAlone DEF Filling
<1>3. /\ Goto(p, "unpin")
      /\ pagedir' = [pagedir EXCEPT ![p][u] = k]
      /\ spte' = [spte EXCEPT ![p][u] = [spte[p][u] EXCEPT !.status = "frame", !.kpage = k]]
      /\ UNCHANGED << reg, frame, mem, swap, available, val >>
  BY <1>2 DEF MapPage, slots, rest
<1>4. pc'[p] = "unpin" /\ \A q \in Procs \ {p} : pc'[q] = pc[q]
  BY <1>3, OneMoves
<1>5. /\ spte'[p][u].status = "frame"
      /\ pagedir'[p][u] = k
      /\ \A q \in Procs, w \in Upages : q # p \/ w # u =>
           spte'[q][w] = spte[q][w] /\ pagedir'[q][w] = pagedir[q][w]
  <2>1. spte[p][u] \in Entries
    BY DEF FrameInv, Types
  <2> QED
    BY <1>3, <2>1 DEF FrameInv, Types, Entries
<1>6. /\ ~ Held(p, u) /\ ~ Held(p, u)'
      /\ \A q \in Procs, w \in Upages : Held(q, w)' <=> Held(q, w)
  <2>1. \A q \in Procs : pc'[q] = "index" <=> pc[q] = "index"
    BY <1>1, <1>4
  <2>2. \A q \in Procs, w \in Upages : HalfMarked(q, w)' <=> HalfMarked(q, w)
    BY <1>3, <2>1 DEF HalfMarked
  <2>3. ~ Held(p, u) /\ ~ Held(p, u)'
    BY <1>1, <1>2, <1>5 DEF Held
  <2>4. \A w \in Upages : w # u => ~ (pc[p] = "map" /\ reg[p].upage = w)
                                 /\ ~ (pc'[p] = "map" /\ reg'[p].upage = w)
    BY <1>2, <1>4
  <2>5. ASSUME NEW q \in Procs, NEW w \in Upages, q # p \/ w # u
        PROVE  Held(q, w)' <=> Held(q, w)
    BY <1>3, <1>4, <1>5, <2>2, <2>4, <2>5 DEF Held
  <2> QED
    BY <2>3, <2>5
<1>7. \A q \in Procs : Writing(q)' <=> Writing(q)
  BY <1>1, <1>4 DEF Writing
<1>8. \A j, q, w : Holds(j, q, w)' <=> Holds(j, q, w)
  BY <1>3 DEF Holds
<1>9. mem[k] = val[p][u]
  BY <1>1, <1>2 DEF PageInv, PagesKept
<1>10. \A q \in Procs, w \in Upages : Held(q, w) => spte'[q][w] = spte[q][w]
  BY <1>5, <1>6
<1> HIDE DEF Held
<1>11. UNCHANGED << reg, frame, mem, swap, available, val >>
  BY <1>3
<1>12. SlotsOwn'
  BY <1>6, <1>7, <1>10, <1>11 DEF PageInv, SlotsOwn
<1>13. SlotsUsed'
  BY <1>6, <1>7, <1>10, <1>11 DEF PageInv, SlotsUsed
<1>14. PagesKept'
  <2>1. \A q \in Procs, w \in Upages :
          /\ pagedir'[q][w] # None => mem[pagedir'[q][w]] = val[q][w]
          /\ spte'[q][w].status = "fresh" => val[q][w] = Zero
    BY <1>5, <1>9 DEF PageInv, PagesKept
  <2>2. \A q \in Procs : /\ pc'[q] = "map" => pc[q] = "map"
                         /\ pc'[q] = "evict" => pc[q] = "evict"
    BY <1>4
  <2> QED
    BY <1>6, <1>7, <1>8, <1>10, <1>11, <2>1, <2>2 DEF PageInv, PagesKept
<1> QED
  BY <1>11, <1>12, <1>13, <1>14 DEF PageInv, Contained

\* pagedir_destroy.
LEMMA FinishKeeps ==
  ASSUME FrameInv, PageInv, NEW p \in Procs, Finish(p)
  PROVE  PageInv'
<1>1. /\ pc[p] = "destroy" /\ Goto(p, "dead")
      /\ UNCHANGED << reg, spte, frame, mem, swap, available, val >>
      /\ \A q \in Procs, u \in Upages : pagedir'[q][u] \in {None, pagedir[q][u]}
  BY DEF Finish, slots, rest, FrameInv, Types
<1> QED
  BY <1>1, OneMoves, AsideStep

\* A new process has nothing in memory or in a slot, and nobody evicts for it.
LEMMA StartKeeps ==
  ASSUME FrameInv, PageInv, NEW p \in Procs, Start(p)
  PROVE  PageInv'
<1>1. /\ pc[p] = "dead" /\ Goto(p, "run")
      /\ spte' = [spte EXCEPT ![p] = [u \in Upages |-> Fresh]]
      /\ val' = [val EXCEPT ![p] = [u \in Upages |-> Zero]]
      /\ UNCHANGED << reg, pagedir, frame, mem, swap, available >>
  BY DEF Start, slots
<1>2. pc'[p] = "run" /\ \A q \in Procs \ {p} : pc'[q] = pc[q]
  BY <1>1, OneMoves
<1>3. /\ \A u \in Upages : spte'[p][u].status = "fresh" /\ val'[p][u] = Zero
      /\ \A q \in Procs \ {p} : spte'[q] = spte[q] /\ val'[q] = val[q]
      /\ val' \in [Procs -> [Upages -> Contents]]
  BY <1>1 DEF FrameInv, Types, PageInv, Contained, Contents, Fresh
<1>4. \A u \in Upages : spte[p][u].status = "gone" /\ pagedir[p][u] = None
  BY <1>1 DEF FrameInv, Lives
<1>5. \A q \in Procs, u \in Upages : HalfMarked(q, u)' <=> HalfMarked(q, u)
  BY <1>1, <1>2 DEF HalfMarked
<1>6. /\ \A u \in Upages : ~ Held(p, u) /\ ~ Held(p, u)'
      /\ \A q \in Procs, u \in Upages : Held(q, u)' <=> Held(q, u)
  BY <1>1, <1>2, <1>3, <1>4, <1>5 DEF Held
<1>7. \A q \in Procs : Writing(q)' <=> Writing(q)
  BY <1>1, <1>2 DEF Writing
<1>8. \A j, q, u : Holds(j, q, u)' <=> Holds(j, q, u)
  BY <1>1 DEF Holds
<1>9. \A q \in Procs, u \in Upages :
        pc[q] \in {"evict", "mark", "index"} => ~ Holds(reg[q].kpage, p, u)
  <2> SUFFICES ASSUME NEW q \in Procs, NEW u \in Upages, pc[q] \in {"evict", "mark", "index"},
                      Holds(reg[q].kpage, p, u)
               PROVE  FALSE
    OBVIOUS
  <2>1. reg[q].kpage \in Kpages /\ (pc[q] # "index" => ~ Takes(reg[q].kpage))
    BY Evictor DEF Evicting
  <2>2. CASE pc[q] = "index"
    BY <1>4, <2>2 DEF FrameInv, AtWork, Working, VictimEntry, Holds, Evicting
  <2>3. CASE pc[q] # "index"
    BY <1>1, <1>4, <2>1, <2>3 DEF FrameInv, FramesUsed, Filling
  <2> QED
    BY <2>2, <2>3
<1> HIDE DEF Held
<1>10. SlotsOwn' /\ SlotsUsed'
  BY <1>1, <1>3, <1>6, <1>7 DEF PageInv, SlotsOwn, SlotsUsed
<1>11. PagesKept'
  <2> SUFFICES ASSUME NEW q \in Procs, NEW w \in Upages
               PROVE  /\ pagedir[q][w] # None => mem[pagedir[q][w]] = val'[q][w]
                      /\ Held(q, w) => swap[spte'[q][w].slot] = val'[q][w]
                      /\ spte'[q][w].status = "fresh" => val'[q][w] = Zero
                      /\ pc'[q] = "map" /\ reg[q].upage = w => mem[reg[q].kpage] = val'[q][w]
                      /\ \A r \in Procs :
                           /\ pc[r] = "evict" /\ Holds(reg[r].kpage, q, w)
                                => mem[reg[r].kpage] = val'[q][w]
                           /\ Writing(r) /\ Holds(reg[r].kpage, q, w)
                                => swap[reg[r].slot] = val'[q][w]
    BY <1>1, <1>2, <1>6, <1>7, <1>8 DEF PagesKept
  <2>1. CASE q = p
    BY <1>2, <1>3, <1>4, <1>6, <1>9, <2>1 DEF Writing
  <2>2. CASE q # p
    BY <1>2, <1>3, <2>2 DEF PageInv, PagesKept
  <2> QED
    BY <2>1, <2>2
<1> QED
  BY <1>1, <1>3, <1>10, <1>11 DEF PageInv, Contained

\* A page in a slot, whose entry nobody is changing, has that slot.
LEMMA DestroyHeld ==
  ASSUME FrameInv, PageInv, NEW p \in Procs, NEW u \in Upages, Destroy(p, u), ~ stray',
         spte[p][u].status = "swap"
  PROVE  /\ Held(p, u) /\ ~ HalfMarked(p, u)
         /\ spte[p][u].slot \in Slots \ available
         /\ available' = available \union {spte[p][u].slot}
         /\ UNCHANGED << pc, reg, panic >>
<1>1. pc[p] = "destroy" /\ ~ HalfMarked(p, u)
  BY DEF Destroy
<1>2. Held(p, u)
  BY <1>1 DEF Held
<1>3. spte[p][u].slot \in Slots \ available
  BY <1>2 DEF PageInv, SlotsOwn
<1>4. spte[p][u].slot # None
  BY <1>3, NoneAssumption DEF Slots
<1> QED
  BY <1>1, <1>2, <1>3, <1>4 DEF Destroy, Vacated

\* spte_destroy_func: the slot of a page in swap is free again.
LEMMA DestroyKeeps ==
  ASSUME FrameInv, PageInv, NEW p \in Procs, NEW u \in Upages, Destroy(p, u), ~ stray'
  PROVE  PageInv'
<1>1. /\ pc[p] = "destroy" /\ UNCHANGED << pagedir, frame, mem, swap, val >>
      /\ spte' = [spte EXCEPT ![p][u] = Gone]
  BY DEF Destroy
<1>2. /\ spte'[p][u].status = "gone"
      /\ \A q \in Procs, w \in Upages : q # p \/ w # u => spte'[q][w] = spte[q][w]
  BY <1>1 DEF FrameInv, Types, Gone
<1>3. spte[p][u].status \in {"fresh", "frame", "swap"}
  BY DEF Destroy
<1>4. CASE spte[p][u].status = "fresh"
  <2>1. UNCHANGED << pc, reg, available >>
    BY <1>4 DEF Destroy
  <2> QED
    BY <1>1, <1>2, <1>4, <2>1, AsideStep
<1>5. CASE spte[p][u].status = "frame"
  <2>1. /\ Goto(p, "remove") /\ available' = available
        /\ \E r : reg' = [reg EXCEPT ![p] = r]
    BY <1>5 DEF Destroy
  <2>2. pc'[p] = "remove" /\ \A q \in Procs \ {p} : pc'[q] = pc[q] /\ reg'[q] = reg[q]
    BY <2>1, OneMoves
  <2>3. \A q \in Procs, w \in Upages :
          /\ spte'[q][w].status = "swap" <=> spte[q][w].status = "swap"
          /\ spte[q][w].status = "swap" => spte'[q][w] = spte[q][w]
          /\ spte'[q][w].status = "fresh" => spte[q][w].status = "fresh"
    BY <1>2, <1>5
  <2> QED
    BY <1>1, <2>1, <2>2, <2>3, AsideStep
<1>6. CASE spte[p][u].status = "swap"
  <2> DEFINE s == spte[p][u].slot
  <2>1. /\ Held(p, u) /\ s \in Slots \ available
        /\ available' = available \union {s} /\ UNCHANGED << pc, reg >>
    BY <1>6, DestroyHeld
  <2>2. \A q \in Procs, w \in Upages : HalfMarked(q, w)' <=> HalfMarked(q, w)
    BY <1>1, <2>1 DEF HalfMarked
  <2>3. \A q \in Procs, w \in Upages :
          Held(q, w)' <=> Held(q, w) /\ ~ (q = p /\ w = u)
    BY <1>2, <2>1, <2>2 DEF Held
  <2>4. \A q \in Procs : Writing(q)' <=> Writing(q)
    BY <2>1 DEF Writing
  <2>5. \A j, q, w : Holds(j, q, w)' <=> Holds(j, q, w)
    BY <1>1 DEF Holds
  <2>6. \A q \in Procs, w \in Upages : Held(q, w)' => spte'[q][w] = spte[q][w]
    BY <1>2, <2>3
  <2> HIDE DEF Held
  <2>7. SlotsOwn'
    <3>1. ASSUME NEW q \in Procs, NEW w \in Upages, Held(q, w)'
          PROVE  Held(q, w) /\ spte[q][w].slot \in Slots \ available'
      BY <2>1, <2>3, <3>1 DEF PageInv, SlotsOwn
    <3>2. ASSUME NEW q \in Procs, Writing(q)
          PROVE  reg[q].slot \in Slots \ available'
      BY <2>1, <3>2 DEF PageInv, SlotsOwn
    <3>3. \A q \in Procs, w \in Upages : Held(q, w)' =>
            /\ spte'[q][w].slot \in Slots \ available'
            /\ \A r \in Procs, v \in Upages :
                 Held(r, v)' /\ spte'[r][v].slot = spte'[q][w].slot => r = q /\ v = w
            /\ \A r \in Procs : Writing(r)' => reg'[r].slot # spte'[q][w].slot
      BY <2>1, <2>4, <2>6, <3>1 DEF PageInv, SlotsOwn
    <3> QED
      BY <2>1, <2>4, <3>2, <3>3 DEF SlotsOwn
  <2>8. SlotsUsed'
    <3> SUFFICES ASSUME NEW x \in Slots \ available'
                 PROVE  \/ \E q \in Procs, w \in Upages : Held(q, w)' /\ spte'[q][w].slot = x
                        \/ \E q \in Procs : Writing(q) /\ reg[q].slot = x
      BY <2>1, <2>4 DEF SlotsUsed
    <3>1. x \in Slots \ available /\ x # s
      BY <2>1
    <3> QED
      BY <2>3, <2>6, <3>1 DEF PageInv, SlotsUsed
  <2>9. PagesKept'
    <3>1. \A q \in Procs, w \in Upages : spte'[q][w].status = "fresh" => spte[q][w].status = "fresh"
      BY <1>2
    <3> QED
      BY <1>1, <2>1, <2>3, <2>4, <2>5, <2>6, <3>1 DEF PageInv, PagesKept
  <2> QED
    BY <1>1, <2>7, <2>8, <2>9 DEF PageInv, Contained
<1> QED
  BY <1>3, <1>4, <1>5, <1>6

\* At boot every slot is available and every page has zeros.
LEMMA InitPages == Init => PageInv
<1> SUFFICES ASSUME Init PROVE PageInv
  OBVIOUS
<1>1. /\ \A p \in Procs : pc[p] = "run"
      /\ \A p \in Procs, u \in Upages : spte[p][u].status = "fresh" /\ pagedir[p][u] = None
                                        /\ val[p][u] = Zero
      /\ available = Slots
  BY DEF Init, Fresh
<1>2. SlotsOwn /\ SlotsUsed
  BY <1>1 DEF SlotsOwn, SlotsUsed, Held, Writing
<1>3. PagesKept
  BY <1>1 DEF PagesKept, Held, Writing
<1>4. Contained
  BY DEF Init, Contained, Contents
<1> QED
  BY <1>2, <1>3, <1>4 DEF PageInv

\* Every step keeps the contents, or is one that used what was not its own.
LEMMA NextPages ==
  ASSUME FrameInv, PageInv, [Next]_vars, ~ stray'
  PROVE  PageInv'
<1>1. CASE UNCHANGED vars
  BY <1>1, NoStep DEF vars, rest
<1>2. CASE Next
  <2>1. PICK p \in Procs : Step(p)
    BY <1>2 DEF Next
  <2>2. CASE \/ \E u \in Upages : Fault(p, u) \/ Syscall(p, u)
             \/ Load(p) \/ PickNone(p) \/ SwapFull(p) \/ VictimGone(p)
             \/ PinTest(p) \/ PinRead(p) \/ UseDone(p) \/ Exit(p) \/ Allocate(p) \/ Take(p)
             \/ Unpin(p) \/ Pin(p) \/ Remove(p) \/ \E u \in Upages : DestroyTorn(p, u)
    BY <2>2, AsideActions
  <2> QED
    BY <2>1, <2>2, WriteStep, PickKeeps, SwapOutKeeps, MarkKeeps, IndexKeeps, FillKeeps,
       MapKeeps, DestroyKeeps, FinishKeeps, StartKeeps DEF Step
<1> QED
  BY <1>1, <1>2

\* The panics of the frame table and of swap.
Missing == {"no such frame", "swap in", "swap free"}

\* A step asks neither for a frame nor for a slot that is not there.
LEMMA NotMissing ==
  ASSUME FrameInv, PageInv, [Next]_vars, ~ stray', panic \notin Missing
  PROVE  panic' \notin Missing
<1>1. CASE UNCHANGED vars
  BY <1>1 DEF vars, rest
<1>2. CASE Next
  <2>1. PICK p \in Procs : Step(p)
    BY <1>2 DEF Next
  <2>2. CASE FillSwap(p)
    <3> DEFINE u == reg[p].upage
    <3>1. pc[p] = "fill" /\ spte[p][u].status = "swap"
      BY <2>2 DEF FillSwap
    <3>2. u \in Upages /\ Held(p, u)
      BY <3>1, LoadedAlone DEF Held, Filling
    <3>3. spte[p][u].slot \notin available \union {None}
      BY <3>2, NoneAssumption DEF PageInv, SlotsOwn, Slots
    <3> QED
      BY <2>2, <3>3 DEF FillSwap, rest
  <2>3. CASE Unpin(p)
    <3>1. frame[reg[p].kpage] # None
      BY <2>3 DEF Unpin, Mine, FrameInv, AtWork, Working
    <3> QED
      BY <2>3, <3>1 DEF Unpin
  <2>4. CASE Pin(p)
    BY <2>4 DEF Pin, Mine
  <2>5. CASE Remove(p)
    <3>1. frame[reg[p].kpage] # None
      BY <2>5 DEF Remove, FrameInv, AtWork, Working
    <3> QED
      BY <2>5, <3>1 DEF Remove, rest
  <2>6. CASE \E u \in Upages : Destroy(p, u)
    <3>1. PICK u \in Upages : Destroy(p, u)
      BY <2>6
    <3>2. CASE spte[p][u].status = "swap"
      BY <3>1, <3>2, DestroyHeld
    <3>3. CASE spte[p][u].status # "swap"
      BY <3>1, <3>3 DEF Destroy
    <3> QED
      BY <3>2, <3>3
  <2>7. CASE \/ \E u \in Upages : Fault(p, u) \/ Syscall(p, u)
             \/ \E u \in Upages, d \in Data : Write(p, u, d)
    BY <2>7 DEF Fault, Syscall, Write, rest
  <2>8. CASE \/ PickNone(p) \/ SwapFull(p) \/ VictimGone(p)
             \/ \E u \in Upages : DestroyTorn(p, u)
    BY <2>8 DEF PickNone, SwapFull, VictimGone, DestroyTorn, Panics, Missing
  <2>9. CASE \/ Load(p) \/ Allocate(p) \/ Pick(p) \/ SwapOut(p) \/ Mark(p) \/ Index(p)
             \/ Take(p) \/ FillFresh(p) \/ MapPage(p) \/ UseDone(p) \/ Exit(p)
             \/ Finish(p) \/ Start(p)
    BY <2>9 DEF Load, Allocate, Pick, SwapOut, Mark, Index, Take, FillFresh, MapPage,
                UseDone, Exit, Finish, Start, rest
  <2>10. CASE PinTest(p) \/ PinRead(p)
    BY <2>10 DEF PinTest, PinRead, Panics, rest, Missing
  <2> QED
    BY <2>1, <2>2, <2>3, <2>4, <2>5, <2>6, <2>7, <2>8, <2>9, <2>10 DEF Step
<1> QED
  BY <1>1, <1>2

\* The whole invariant, and it is inductive: the machine is not looked at
\* after a stray step, and takes none.
AllKept == ~ stray => FrameInv /\ PageInv /\ panic \notin Missing

LEMMA AllInvariant == Spec => []AllKept
<1>1. Init => AllKept
  <2>1. Init => panic \notin Missing
    BY DEF Init, Missing
  <2> QED
    BY <2>1, InitFrames, InitPages DEF AllKept
<1>2. AllKept /\ [Next]_vars => AllKept'
  <2> SUFFICES ASSUME AllKept, [Next]_vars, ~ stray'
               PROVE  FrameInv' /\ PageInv' /\ panic' \notin Missing
    BY DEF AllKept, Missing
  <2>1. ~ stray
    BY DEF Next, vars, rest
  <2> QED
    BY <2>1, NextFrames, NextPages, NotMissing DEF AllKept
<1> QED
  BY <1>1, <1>2, PTL DEF Spec

\* No process loses what it has written: a page in memory holds it, and so does
\* the slot of a page in swap until the page is read back.
THEOREM PagesSurvive == Spec => []Intact
<1>1. AllKept => Intact
  BY DEF AllKept, Intact, PageInv, PagesKept, Held
<1> QED
  BY <1>1, AllInvariant, PTL

\* The frame table and the swap bitmap always have what they are asked for, by
\* all but vm_pin_page.
THEOREM NothingIsMissing == Spec => []NothingMissing
<1>1. AllKept => NothingMissing
  BY DEF AllKept, NothingMissing, Missing
<1> QED
  BY <1>1, AllInvariant, PTL

\* No page of memory and no slot is lost for good: when nobody is left, all are
\* back.
THEOREM AllComesBack == Spec => []AllReturned
<1>1. AllKept => AllReturned
  <2> SUFFICES ASSUME FrameInv, PageInv, \A p \in Procs : pc[p] = "dead"
               PROVE  pool = Kpages /\ available = Slots /\ \A k \in Kpages : frame[k] = None
    BY DEF AllKept, AllReturned
  <2>1. \A p \in Procs, u \in Upages : spte[p][u].status = "gone" /\ pagedir[p][u] = None
    BY DEF FrameInv, Lives
  <2>2. ASSUME NEW k \in Kpages, frame[k] # None PROVE FALSE
    <3>1. frame[k].t \in Procs /\ frame[k].upage \in Upages
          /\ Holds(k, frame[k].t, frame[k].upage)
      BY <2>2, FrameOwner
    <3>2. ~ Takes(k)
      BY DEF Takes
    <3> QED
      BY <2>1, <3>1, <3>2 DEF FrameInv, FramesUsed, Filling
  <2>3. pool = Kpages
    <3>1. pool \subseteq Kpages
      BY DEF FrameInv, Types
    <3>2. ASSUME NEW k \in Kpages PROVE k \in pool
      BY <2>1, <2>2, NoneAssumption DEF FrameInv, Accounted
    <3> QED
      BY <3>1, <3>2
  <2>4. available = Slots
    BY <2>1 DEF FrameInv, Types, PageInv, SlotsUsed, Held, Writing
  <2> QED
    BY <2>2, <2>3, <2>4
<1> QED
  BY <1>1, AllInvariant, PTL

\* What each step does to the lock of the file system and to stray.
LEMMA LockTyped ==
  ASSUME [Next]_vars, filesys_lock \in Procs \union {None}, stray \in BOOLEAN
  PROVE  filesys_lock' \in Procs \union {None} /\ stray' \in BOOLEAN
<1>1. CASE UNCHANGED vars
  BY <1>1 DEF vars, rest, locks
<1>2. CASE Next
  <2>1. PICK p \in Procs : Step(p)
    BY <1>2 DEF Next
  <2>2. CASE \E u \in Upages : Fault(p, u) \/ Syscall(p, u) \/ Destroy(p, u) \/ DestroyTorn(p, u)
    BY <2>2 DEF Fault, Syscall, Destroy, DestroyTorn, Panics, rest, locks
  <2>3. CASE \E u \in Upages, d \in Data : Write(p, u, d)
    BY <2>3 DEF Write, locks
  <2>4. CASE \/ Load(p) \/ Allocate(p) \/ Pick(p) \/ PickNone(p) \/ SwapOut(p) \/ SwapFull(p)
             \/ Mark(p) \/ Index(p) \/ VictimGone(p) \/ Take(p) \/ FillFresh(p) \/ FillSwap(p)
             \/ MapPage(p) \/ PinTest(p) \/ PinRead(p) \/ Exit(p) \/ Remove(p) \/ Finish(p) \/ Start(p)
    BY <2>4 DEF Load, Allocate, Pick, PickNone, SwapOut, SwapFull, Mark, Index, VictimGone, Take,
                FillFresh, FillSwap, MapPage, PinTest, PinRead, Exit, Remove, Finish, Start, Panics,
                rest, locks
  <2>5. CASE Unpin(p) \/ Pin(p) \/ UseDone(p)
    BY <2>5 DEF Unpin, Pin, UseDone, locks
  <2> QED
    BY <2>1, <2>2, <2>3, <2>4, <2>5 DEF Step
<1> QED
  BY <1>1, <1>2

\* A stray step is one of three, and keeps the types too.
LEMMA StrayTyped ==
  ASSUME FrameInv, Contained, Next, stray'
  PROVE  Types' /\ Contained' /\ \A p \in Procs : frame_lock' = p <=> pc'[p] \in Evicting
<1>1. PICK p \in Procs : Step(p)
  BY DEF Next
<1>2. Unpin(p) \/ Pin(p) \/ \E u \in Upages : Destroy(p, u)
  <2>1. stray' # stray
    BY DEF Next
  <2>2. CASE \E u \in Upages : Fault(p, u) \/ Syscall(p, u) \/ DestroyTorn(p, u)
    BY <2>1, <2>2 DEF Fault, Syscall, DestroyTorn, Panics, rest
  <2>3. CASE \E u \in Upages, d \in Data : Write(p, u, d)
    BY <2>1, <2>3 DEF Write
  <2>4. CASE \/ Load(p) \/ Allocate(p) \/ Pick(p) \/ PickNone(p) \/ SwapOut(p) \/ SwapFull(p)
             \/ Mark(p) \/ Index(p) \/ VictimGone(p) \/ Take(p) \/ FillFresh(p) \/ FillSwap(p)
             \/ MapPage(p) \/ PinTest(p) \/ PinRead(p) \/ UseDone(p) \/ Exit(p) \/ Remove(p) \/ Finish(p)
             \/ Start(p)
    BY <2>1, <2>4 DEF Load, Allocate, Pick, PickNone, SwapOut, SwapFull, Mark, Index,
         VictimGone, Take, FillFresh, FillSwap, MapPage, PinTest, PinRead, UseDone, Exit, Remove,
         Finish, Start, Panics, rest
  <2> QED
    BY <1>1, <2>2, <2>3, <2>4 DEF Step
<1>3. CASE Unpin(p) \/ Pin(p)
  <2> DEFINE k == reg[p].kpage
  <2>1. /\ pc[p] \in {"unpin", "pinlock"} /\ frame_lock' = frame_lock
        /\ UNCHANGED << spte, pagedir, pool, mem, swap, available, val >>
    BY <1>3 DEF Unpin, Pin, slots, locks
  <2>2. k \in Kpages /\ reg[p] \in Regs /\ reg[p].then \in {"run", "pin", "use"}
    BY <2>1 DEF FrameInv, Locals, Types, Regs
  <2>3. \/ UNCHANGED << pc, reg, frame >>
        \/ /\ frame[k] # None
           /\ \E b \in BOOLEAN : frame' = [frame EXCEPT ![k] = [frame[k] EXCEPT !.pinned = b]]
           /\ \E l \in {"run", "pin", "use"} : pc' = [pc EXCEPT ![p] = l]
           /\ \E r \in {NoReg, [reg[p] EXCEPT !.kpage = None]} : reg' = [reg EXCEPT ![p] = r]
    BY <1>3, <2>2 DEF Unpin, Pin, Goto
  <2>4. NoReg \in Regs /\ [reg[p] EXCEPT !.kpage = None] \in Regs
    BY <2>2 DEF NoReg, Regs
  <2>5. frame' \in [Kpages -> {None} \union FrameEntries]
    <3>1. CASE frame' = frame
      BY <3>1 DEF FrameInv, Types
    <3>2. CASE frame' # frame
      <4>1. PICK b \in BOOLEAN : frame' = [frame EXCEPT ![k] = [frame[k] EXCEPT !.pinned = b]]
        BY <2>3, <3>2
      <4>2. frame[k] # None
        BY <2>3, <3>2
      <4> HIDE DEF k
      <4> QED
        BY <2>2, <4>1, <4>2, PinnedSet
    <3> QED
      BY <3>1, <3>2
  <2>6. pc' \in [Procs -> Labels] /\ reg' \in [Procs -> Regs]
    <3>1. pc \in [Procs -> Labels] /\ reg \in [Procs -> Regs]
      BY DEF FrameInv, Types
    <3>2. pc' \in [Procs -> Labels]
      BY <2>3, <3>1 DEF Labels
    <3>3. reg' \in [Procs -> Regs]
      BY <2>3, <2>4, <3>1
    <3> QED
      BY <3>2, <3>3
  <2>7. \A q \in Procs : frame_lock' = q <=> pc'[q] \in Evicting
    BY <2>1, <2>3 DEF FrameInv, Types, Locked, Evicting
  <2> QED
    BY <2>1, <2>5, <2>6, <2>7 DEF FrameInv, Types, Contained
<1>4. CASE \E u \in Upages : Destroy(p, u)
  <2>1. PICK u \in Upages : Destroy(p, u)
    BY <1>4
  <2>2. /\ pc[p] = "destroy" /\ spte' = [spte EXCEPT ![p][u] = Gone]
        /\ UNCHANGED << pagedir, frame, pool, mem, swap, frame_lock, val >>
    BY <2>1 DEF Destroy, locks
  <2>3. spte[p][u].status = "swap"
    BY <2>1 DEF Destroy, Next
  <2>4. UNCHANGED << pc, reg >> /\ available' \in {available, available \union {spte[p][u].slot}}
        /\ (available' # available => spte[p][u].slot # None)
    BY <2>1, <2>3 DEF Destroy, Vacated
  <2>5. spte[p][u].slot \in Slots \union {None} /\ available \subseteq Slots
    BY DEF FrameInv, Types, Entries
  <2>6. available' \subseteq Slots
    BY <2>4, <2>5
  <2>7. spte' \in [Procs -> [Upages -> Entries]]
    <3>1. Gone \in Entries
      BY DEF Gone, Entries
    <3> QED
      BY <2>2, <3>1 DEF FrameInv, Types
  <2> QED
    BY <2>2, <2>4, <2>6, <2>7 DEF FrameInv, Types, Contained, Locked
<1> QED
  BY <1>2, <1>3, <1>4

\* Every variable keeps its type, after a stray step too, and only who evicts
\* holds frame_lock.
THEOREM FramesTyped == Spec => []TypeOK
<1>1. FrameInv /\ Contained => (TypeOK <=> /\ filesys_lock \in Procs \union {None}
                                           /\ stray \in BOOLEAN)
  BY DEF FrameInv, Types, Contained, TypeOK, Locked, Regs, Entries, FrameEntries, Evicting
<1>2. Init => TypeOK
  BY <1>1, InitFrames, InitPages DEF Init, PageInv
<1>3. TypeOK /\ AllKept /\ AllKept' /\ [Next]_vars => TypeOK'
  <2> SUFFICES ASSUME TypeOK, AllKept, AllKept', [Next]_vars PROVE TypeOK'
    OBVIOUS
  <2>1. filesys_lock' \in Procs \union {None} /\ stray' \in BOOLEAN
    BY LockTyped DEF TypeOK
  <2>2. CASE UNCHANGED vars
    BY <2>2 DEF vars, memory, slots, rest, locks, TypeOK
  <2>3. CASE Next /\ stray'
    <3>1. Types' /\ Contained' /\ \A p \in Procs : frame_lock' = p <=> pc'[p] \in Evicting
      BY <2>3, StrayTyped DEF AllKept, PageInv, Next
    <3> QED
      BY <2>1, <3>1 DEF Types, Contained, TypeOK, Regs, Entries, FrameEntries, Evicting
  <2>4. CASE ~ stray'
    BY <2>1, <2>4 DEF AllKept, PageInv, FrameInv, Types, Contained, TypeOK, Locked, Regs,
                      Entries, FrameEntries, Evicting
  <2> QED
    BY <2>2, <2>3, <2>4
<1> QED
  BY <1>2, <1>3, AllInvariant, PTL DEF Spec
===============================================================================
