------------------------------- MODULE Syscalls -------------------------------
(***************************************************************************)
(* userprog/syscall.c: the calls that work on files, the lock around them, *)
(* descriptors and memory mappings, with vm_supt_mm_unmap of vm/page.c and *)
(* what process_exit closes.  A call waits for filesys_lock, does its work *)
(* and releases the lock.  Between its steps other processes fault mapped  *)
(* pages in, exit and close their files, without the lock, and evict pages.*)
(*                                                                         *)
(* A file is one page at most; a mapping is one page.  A key may never     *)
(* come.  Left out: positions in files, denied writes (Inodes),            *)
(* directories (Directories), the files of executables, writes to the      *)
(* console, which return once the port has sent (SerialPort), the steps of *)
(* an eviction and the pinning of buffers (Frames), the exchange between   *)
(* exec and the child (Process).                                           *)
(***************************************************************************)
EXTENDS Integers, Sequences, FiniteSetsExt, SequencesExt

CONSTANTS
  Procs,    \* user processes
  Files,    \* inodes a program can name
  Pages,    \* pages of a process where it may map a file
  Value,    \* what a page or a file may hold
  MaxDesc,  \* bound on the descriptors and on the mappings of a process
  None      \* no process, no file, no value

ASSUME FiniteAssumption == IsFiniteSet(Procs) /\ IsFiniteSet(Pages)
ASSUME MaxDescAssumption == MaxDesc \in Nat \ {0}
ASSUME NoneAssumption == None \notin Procs \union Files \union Value

VARIABLES
  pc,           \* pc[p]: where process p is
  leaving,      \* the processes in process_exit
  unmapping,    \* unmapping[p]: the mapping p is taking away, or 0
  hand,         \* hand[p]: the inode inode_open found or inode_close frees, or None
  filesys_lock, \* its holder
  fds,          \* fds[p]: file_descriptors, in the order of the list
  maps,         \* maps[p]: mmap_list
  page,         \* page[p][u]: the entry of mapped page u, with its contents
  file,         \* file[f]: its inode's contents and openers, or Gone
  broken,       \* history: an assertion or a null pointer has stopped the machine,
                \* or an inode or a page was used that had been freed or given
                \* away: what comes of that is not told
  astray,       \* history: processes that kept the lock when a call returned
  mislaid,      \* history: some mmap has failed with its file open
  last          \* history: last[p][u], what p last stored in mapped page u

kept == << astray, mislaid >>
vars == << pc, leaving, unmapping, hand, filesys_lock, fds, maps, page, file, broken, kept, last >>

NoPage == [status |-> "none", dirty |-> FALSE, pte_dirty |-> FALSE,
           pinned |-> FALSE, value |-> None]

\* length is in pages: none, less than one, one.
Gone == [named |-> FALSE, opens |-> 0, value |-> None, length |-> 0]

\* f is on the list open_inodes: it is open, or an exit has closed it and has
\* not taken it off yet.
InMemory(f) == file[f].opens > 0 \/ \E p \in Procs : pc[p] = "freeing" /\ hand[p] = f
Live(f) == file[f].named \/ InMemory(f)

Find(list, id) == {i \in DOMAIN list : list[i].id = id}

\* Where a search from the front finds id, which is in the list.
Place(list, id) == Min(Find(list, id))

Without(list, id) == IF Find(list, id) = {} THEN list ELSE RemoveAt(list, Place(list, id))

\* The identifier after the one at the back of the list.
NextId(list, first) == IF list = << >> THEN first ELSE list[Len(list)].id + 1

\* One process runs at first; it does not matter which.
First == CHOOSE p \in Procs : TRUE

Init ==
  /\ pc = [p \in Procs |-> IF p = First THEN "user" ELSE "none"]
  /\ leaving = {}
  /\ unmapping = [p \in Procs |-> 0]
  /\ hand = [p \in Procs |-> None]
  /\ filesys_lock = None
  /\ fds = [p \in Procs |-> << >>]
  /\ maps = [p \in Procs |-> << >>]
  /\ page = [p \in Procs |-> [u \in Pages |-> NoPage]]
  /\ file = [f \in Files |-> Gone]
  /\ broken = FALSE
  /\ astray = {}
  /\ mislaid = FALSE
  /\ last = [p \in Procs |-> [u \in Pages |-> None]]

Goto(p, l) == pc' = [pc EXCEPT ![p] = l]

-------------------------------------------------------------------------------
\* A program traps; its arguments, which nobody else sees or changes, are
\* chosen when the call uses them.
Trap(p) ==
  /\ ~broken /\ pc[p] = "user"
  /\ Goto(p, "acquire")
  /\ UNCHANGED << leaving, unmapping, hand, filesys_lock, fds, maps, page, file, broken, kept, last >>

\* lock_acquire asserts that the caller does not hold the lock.
Acquire(p) ==
  /\ ~broken /\ pc[p] = "acquire"
  /\ IF filesys_lock = p
       THEN broken' = TRUE /\ UNCHANGED << pc, filesys_lock >>
       ELSE /\ filesys_lock = None
            /\ filesys_lock' = p
            /\ Goto(p, "in")
            /\ UNCHANGED broken
  /\ UNCHANGED << leaving, unmapping, hand, fds, maps, page, file, kept, last >>

\* p is in a call of its program, with the lock.
Inside(p) == ~broken /\ pc[p] = "in" /\ p \notin leaving

\* Mutant of Return: the call returns with the lock.
ReturnHolding(p) ==
  /\ Goto(p, IF p \in leaving THEN "exit" ELSE "user")
  /\ unmapping' = [unmapping EXCEPT ![p] = 0]
  /\ hand' = [hand EXCEPT ![p] = None]
  /\ UNCHANGED << filesys_lock, leaving >>

\* lock_release at the end of a call.
Return(p) ==
  /\ Goto(p, IF p \in leaving THEN "exit" ELSE "user")
  /\ unmapping' = [unmapping EXCEPT ![p] = 0]
  /\ hand' = [hand EXCEPT ![p] = None]
  /\ filesys_lock' = None
  /\ UNCHANGED leaving

\* inode_close of n openers of a file in the state e.
Closed(e, n) == IF e.named \/ e.opens > n THEN [e EXCEPT !.opens = @ - n] ELSE Gone

\* inode_close of one opener of f, in a table of files.
Close(t, f) == [t EXCEPT ![f] = Closed(@, 1)]

\* sys_create, of a file of zeros (None).
sys_create(p, f, n) ==
  /\ Inside(p)
  /\ file' = IF Live(f) THEN file
             ELSE [file EXCEPT ![f].named = TRUE, ![f].length = n]
  /\ Return(p)
  /\ UNCHANGED << fds, maps, page, broken, kept, last >>

\* inode_open has found f on open_inodes, and is about to count its opener.
Found(p, f, l) ==
  /\ Goto(p, l)
  /\ hand' = [hand EXCEPT ![p] = f]
  /\ UNCHANGED << leaving, unmapping, filesys_lock >>

\* sys_remove opens the file, which keeps its contents while others have it open.
sys_remove(p, f) ==
  /\ Inside(p)
  /\ IF file[f].named /\ InMemory(f) THEN Found(p, f, "removing") /\ UNCHANGED file
     ELSE file' = [file EXCEPT ![f] = IF @.named THEN Gone ELSE @] /\ Return(p)
  /\ UNCHANGED << fds, maps, page, broken, kept, last >>

\* The rest of dir_remove: inode_reopen, inode_remove and inode_close.
Removed(p) ==
  /\ ~broken /\ pc[p] = "removing"
  /\ broken' = (file[hand[p]].opens = 0)
  /\ file' = IF broken' THEN file ELSE [file EXCEPT ![hand[p]].named = FALSE]
  /\ Return(p)
  /\ UNCHANGED << fds, maps, page, kept, last >>

\* The descriptors of p with one more, for f.
WithDesc(p, f) == [fds EXCEPT ![p] = Append(@, [id |-> NextId(@, 3), file |-> f])]

\* sys_open.  An inode that is not open is read in, with one opener.
sys_open(p, f) ==
  /\ Inside(p)
  /\ LET able == file[f].named /\ Len(fds[p]) < MaxDesc IN
       IF able /\ InMemory(f) THEN Found(p, f, "opening") /\ UNCHANGED << file, fds >>
       ELSE /\ file' = IF able THEN [file EXCEPT ![f].opens = 1] ELSE file
            /\ fds' = IF able THEN WithDesc(p, f) ELSE fds
            /\ Return(p)
  /\ UNCHANGED << maps, page, broken, kept, last >>

\* The rest of sys_open: inode_reopen and the descriptor.  When an exit has
\* closed the inode since it was found, the descriptor is for freed memory.
Opened(p) ==
  /\ ~broken /\ pc[p] = "opening"
  /\ broken' = (file[hand[p]].opens = 0)
  /\ file' = IF broken' THEN file ELSE [file EXCEPT ![hand[p]].opens = @ + 1]
  /\ fds' = WithDesc(p, hand[p])
  /\ Return(p)
  /\ UNCHANGED << maps, page, kept, last >>

\* The file of descriptor id of p, or None (find_file_desc).
FileOf(p, id) == IF Find(fds[p], id) = {} THEN None
                 ELSE fds[p][Place(fds[p], id)].file

\* sys_close.
sys_close(p, id) ==
  /\ Inside(p)
  /\ LET f == FileOf(p, id) IN
       /\ file' = IF f = None THEN file ELSE Close(file, f)
       /\ fds' = [fds EXCEPT ![p] = Without(@, id)]
  /\ Return(p)
  /\ UNCHANGED << maps, page, broken, kept, last >>

\* sys_write; sys_tell, sys_filesize and sys_read of a file leave all this alone.
sys_write(p, id, v) ==
  /\ Inside(p)
  /\ LET f == FileOf(p, id) IN
       file' = IF f = None THEN file
               ELSE [file EXCEPT ![f].value = v,
                                 ![f].length = IF @ = 0 THEN 1 ELSE @]
  /\ Return(p)
  /\ UNCHANGED << fds, maps, page, broken, kept, last >>

\* sys_read of the keyboard.
sys_read(p) ==
  /\ Inside(p) /\ Goto(p, "keys")
  /\ UNCHANGED << leaving, unmapping, hand, filesys_lock, fds, maps, page, file, broken, kept, last >>

\* input_getc gives the last key that was asked for, or one for an address that
\* is not the program's: then the lock is released and the process exits.
input_getc(p) ==
  /\ ~broken /\ pc[p] = "keys"
  /\ \/ Return(p)
     \/ /\ Goto(p, "exit")
        /\ leaving' = leaving \union {p}
        /\ filesys_lock' = None
        /\ UNCHANGED << unmapping, hand >>
  /\ UNCHANGED << fds, maps, page, file, broken, kept, last >>

\* sys_seek returns from the middle when there is no such descriptor.
sys_seek(p, id) ==
  /\ Inside(p)
  /\ IF FileOf(p, id) # None THEN Return(p) /\ UNCHANGED astray
     ELSE /\ Goto(p, "user")
          /\ astray' = astray \union {p}
          /\ UNCHANGED << leaving, unmapping, hand, filesys_lock >>
  /\ UNCHANGED << fds, maps, page, file, broken, mislaid, last >>

\* sys_isdir and sys_inumber follow the descriptor whether there is one or not.
sys_isdir(p, id) ==
  /\ Inside(p)
  /\ IF FileOf(p, id) # None THEN Return(p) /\ UNCHANGED broken
     ELSE broken' = TRUE /\ UNCHANGED << pc, leaving, unmapping, hand, filesys_lock >>
  /\ UNCHANGED << fds, maps, page, file, kept, last >>

\* Mutant of ReopenedFor: the mapping uses the descriptor's own opening.
ReopenedForNot(t, f) == t

\* The table of files once f has been reopened for a mapping.
ReopenedFor(t, f) == [t EXCEPT ![f].opens = @ + 1]

\* sys_mmap: a file that has been reopened stays open when the mapping fails;
\* the bound lets that happen once.
sys_mmap(p, id, u) ==
  /\ Inside(p)
  /\ LET f == FileOf(p, id)
         ok == file[f].length > 0 /\ page[p][u] = NoPage
     IN  IF f = None THEN UNCHANGED << maps, page, file, mislaid >>
         ELSE /\ ok \/ ~mislaid
              /\ file' = ReopenedFor(file, f)
              /\ mislaid' = (mislaid \/ ~ok)
              /\ maps' = IF ok THEN [maps EXCEPT ![p] =
                                       Append(@, [id |-> NextId(@, 1), file |-> f,
                                                  page |-> u])]
                         ELSE maps
              /\ page' = IF ok THEN [page EXCEPT ![p][u] =
                                       [NoPage EXCEPT !.status = "file"]]
                         ELSE page
  /\ Return(p)
  /\ UNCHANGED << fds, broken, astray, last >>

\* The mapping p is taking away.
MapOf(p) == maps[p][Place(maps[p], unmapping[p])]

\* sys_munmap, up to the status that vm_supt_mm_unmap sees first; process_exit
\* calls it for the front of the list.
sys_munmap(p, i) ==
  /\ ~broken /\ pc[p] = "in" /\ (p \in leaving => i = 1)
  /\ LET m == maps[p][i] IN
       /\ unmapping' = [unmapping EXCEPT ![p] = m.id]
       /\ Goto(p, IF page[p][m.page].status = "frame" THEN "pin" ELSE "unmap")
  /\ UNCHANGED << leaving, hand, filesys_lock, fds, maps, page, file, broken, kept, last >>

\* If the frame was evicted meanwhile, vm_frame_pin stops the machine or pins
\* what another process has there by now.
PinFrame(p) ==
  /\ ~broken /\ pc[p] = "pin"
  /\ LET u == MapOf(p).page IN
       IF page[p][u].status # "frame"
         THEN broken' = TRUE /\ UNCHANGED << pc, page >>
         ELSE /\ page' = [page EXCEPT ![p][u].pinned = TRUE]
              /\ Goto(p, "unmap")
              /\ UNCHANGED broken
  /\ UNCHANGED << leaving, unmapping, hand, filesys_lock, fds, maps, file, kept, last >>

\* Mutant of IsDirty: what was noted when the page was swapped out is not
\* looked at.
IsDirtyPte(e) == e.status \in {"frame", "swap"} /\ e.pte_dirty

\* The page has been stored into since it was mapped.
IsDirty(e) == e.status \in {"frame", "swap"} /\ (e.dirty \/ e.pte_dirty)

\* The rest of vm_supt_mm_unmap and of sys_munmap.  A dirty page is written
\* back, whole if it comes from swap.
Unmap(p) ==
  /\ ~broken /\ pc[p] = "unmap"
  /\ LET m == MapOf(p)
         e == page[p][m.page]
         back == IF ~IsDirty(e) THEN file
                 ELSE [file EXCEPT ![m.file].value = e.value,
                                   ![m.file].length =
                                     IF e.status = "swap" THEN 2 ELSE @]
     IN  /\ file' = Close(back, m.file)
         /\ maps' = [maps EXCEPT ![p] = Without(@, m.id)]
         /\ page' = [page EXCEPT ![p][m.page] = NoPage]
         /\ last' = [last EXCEPT ![p][m.page] = None]
  /\ Return(p)
  /\ UNCHANGED << fds, broken, kept >>

\* sys_exec: the caller holds the lock until the child has been loaded.
sys_exec(p) ==
  /\ Inside(p)
  /\ \E q \in Procs : pc[q] = "none" /\ pc' = [pc EXCEPT ![p] = "wait", ![q] = "load"]
  /\ UNCHANGED << leaving, unmapping, hand, filesys_lock, fds, maps, page, file, broken, kept, last >>

\* Mutant of Loaded: the child waits for the lock its parent holds.
LoadedLocked(q) ==
  /\ ~broken /\ pc[q] = "load" /\ filesys_lock = None
  /\ \E p \in Procs : pc[p] = "wait" /\ pc' = [pc EXCEPT ![p] = "user", ![q] = "user"]
  /\ UNCHANGED << leaving, unmapping, hand, filesys_lock, fds, maps, page, file, broken, kept, last >>

\* load reads the executable in the child, which goes on or exits.
Loaded(q) ==
  /\ ~broken /\ pc[q] = "load"
  /\ \E p \in Procs, l \in {"user", "exit"} :
       /\ pc[p] = "wait"
       /\ pc' = [pc EXCEPT ![p] = "user", ![q] = l]
       /\ filesys_lock' = None
       /\ leaving' = IF l = "exit" THEN leaving \union {q} ELSE leaving
  /\ UNCHANGED << unmapping, hand, fds, maps, page, file, broken, kept, last >>

-------------------------------------------------------------------------------
\* p runs its program, or puts a key into its memory.
AtMemory(p) == pc[p] \in {"user", "keys"}

\* A page fault brings in a mapped page, from the file without filesys_lock.
Load(p, u) ==
  /\ ~broken /\ AtMemory(p) /\ page[p][u].status \in {"file", "swap"}
  /\ LET f == (CHOOSE i \in DOMAIN maps[p] : maps[p][i].page = u)
         e == page[p][u]
     IN  page' = [page EXCEPT ![p][u] =
                    [e EXCEPT !.status = "frame", !.pte_dirty = FALSE,
                              !.value = IF e.status = "swap" THEN @
                                        ELSE file[maps[p][f].file].value]]
  /\ UNCHANGED << pc, leaving, unmapping, hand, filesys_lock, fds, maps, file, broken, kept, last >>

\* The program stores into a page that is there.
Store(p, u, v) ==
  /\ ~broken /\ AtMemory(p) /\ page[p][u].status = "frame"
  /\ page' = [page EXCEPT ![p][u].value = v, ![p][u].pte_dirty = TRUE]
  /\ last' = [last EXCEPT ![p][u] = v]
  /\ UNCHANGED << pc, leaving, unmapping, hand, filesys_lock, fds, maps, file, broken, kept >>

\* vm_frame_allocate for anybody takes the frame of page u.
Evict(p, u) ==
  /\ ~broken /\ page[p][u].status = "frame" /\ ~page[p][u].pinned
  /\ page' = [page EXCEPT ![p][u].status = "swap",
                          ![p][u].dirty = @ \/ page[p][u].pte_dirty]
  /\ UNCHANGED << pc, leaving, unmapping, hand, filesys_lock, fds, maps, file, broken, kept, last >>

\* process_exit.
Exit(p) ==
  /\ ~broken /\ pc[p] = "user"
  /\ Goto(p, "exit")
  /\ leaving' = leaving \union {p}
  /\ UNCHANGED << unmapping, hand, filesys_lock, fds, maps, page, file, broken, kept, last >>

\* It closes the descriptors one by one, without the lock ...
ExitClose(p) ==
  /\ ~broken /\ pc[p] = "exit" /\ fds[p] # << >>
  /\ LET f == fds[p][1].file IN
       /\ file' = [file EXCEPT ![f].opens = @ - 1]
       /\ IF file[f].opens = 1 THEN Goto(p, "freeing") /\ hand' = [hand EXCEPT ![p] = f]
          ELSE UNCHANGED << pc, hand >>
  /\ fds' = [fds EXCEPT ![p] = Tail(@)]
  /\ UNCHANGED << leaving, unmapping, filesys_lock, maps, page, broken, kept, last >>

\* ... and frees those nobody else has open, with their blocks if removed.
ExitFree(p) ==
  /\ ~broken /\ pc[p] = "freeing"
  /\ file' = [file EXCEPT ![hand[p]] = Closed(@, 0)]
  /\ Goto(p, "exit")
  /\ hand' = [hand EXCEPT ![p] = None]
  /\ UNCHANGED << leaving, unmapping, filesys_lock, fds, maps, page, broken, kept, last >>

\* p closes files without the lock: inode_close reads the count of openers and
\* writes it back, and changes the list open_inodes.
Unlocked(p) == pc[p] = "freeing" \/ (pc[p] = "exit" /\ fds[p] # << >>)

\* What becomes of it if another closes or opens files at the same time, unless
\* it is as if one went first: an opener too few or too many, a list cut in two.
Clash(p) ==
  /\ ~broken /\ Unlocked(p)
  /\ \E q \in Procs \ {p} :
       pc[q] \in {"in", "opening", "removing", "unmap"} \/ Unlocked(q)
  /\ broken' = TRUE
  /\ UNCHANGED << pc, leaving, unmapping, hand, filesys_lock, fds, maps, page, file, kept, last >>

\* The mappings go one by one; thread_exit then releases whatever lock is left.
ExitMaps(p) ==
  /\ ~broken /\ pc[p] = "exit" /\ fds[p] = << >>
  /\ IF maps[p] # << >>
       THEN Goto(p, "acquire") /\ UNCHANGED << leaving, filesys_lock, astray >>
       ELSE /\ Goto(p, "none")
            /\ filesys_lock' = IF filesys_lock = p THEN None ELSE filesys_lock
            /\ leaving' = leaving \ {p}
            /\ astray' = astray \ {p}
  /\ UNCHANGED << unmapping, hand, fds, maps, page, file, broken, mislaid, last >>

Ids == 3 .. 3 + MaxDesc
Call(p) ==
  \/ \E f \in Files :
       \/ \E n \in {0, 1} : sys_create(p, f, n)
       \/ sys_remove(p, f) \/ sys_open(p, f)
  \/ \E id \in Ids :
       \/ sys_close(p, id) \/ sys_seek(p, id) \/ sys_isdir(p, id)
       \/ \E v \in Value : sys_write(p, id, v)
       \/ \E u \in Pages : sys_mmap(p, id, u)
  \/ \E i \in DOMAIN maps[p] : sys_munmap(p, i)
  \/ sys_exec(p) \/ sys_read(p)

Step(p) ==
  \/ Acquire(p) \/ Call(p) \/ Opened(p) \/ Removed(p) \/ PinFrame(p) \/ Unmap(p)
  \/ Loaded(p) \/ ExitClose(p) \/ ExitFree(p) \/ ExitMaps(p)

Next ==
  \E p \in Procs :
    \/ Trap(p)
    \/ Step(p)
    \/ \E u \in Pages : Load(p, u) \/ Evict(p, u) \/ \E v \in Value : Store(p, u, v)
    \/ input_getc(p) \/ Exit(p) \/ Clash(p)

\* A process in the kernel is scheduled again, and a page fault and an exit of
\* another do not keep it from its next step.  That a key comes is not assumed.
Fairness == \A p \in Procs : WF_vars(Step(p))

Spec == Init /\ [][Next]_vars /\ Fairness

-------------------------------------------------------------------------------
\* Properties

Holding == {"in", "opening", "removing", "keys", "pin", "unmap", "wait"}

\* Every variable has its type; find_file_desc and find_mmap_desc find one
\* entry, since the identifiers go up along the list.
TypeOK ==
  /\ \A p \in Procs :
       /\ pc[p] \in Holding \union {"none", "user", "acquire", "load", "exit", "freeing"}
       /\ \A list \in {fds[p], maps[p]} : \A i, j \in DOMAIN list :
            /\ list[i].file \in Files
            /\ i < j => list[i].id < list[j].id
       /\ \A u \in Pages : page[p][u].value \in Value \union {None}
  /\ \A f \in Files : file[f].opens \in Nat
  /\ filesys_lock \in Procs \union {None}

\* Who is in the middle of a call has the lock; who has the lock is in the
\* middle of a call, or has left sys_seek by its early return.
LockDiscipline ==
  \A p \in Procs :
    /\ pc[p] \in Holding => filesys_lock = p
    /\ filesys_lock = p => pc[p] \in Holding \/ p \in astray

\* Whoever takes the lock gives it back, but for who reads the keyboard and for
\* the early return of sys_seek: in particular no call waits for a process that
\* waits for the lock, and no exit keeps it.
LockGivenBack ==
  \A p \in Procs :
    filesys_lock = p ~> \/ filesys_lock # p \/ pc[p] = "keys"
                        \/ p \in astray \/ broken

\* The descriptors for file f, and its mappings.
Descriptors(f) ==
  UNION {{<< p, fds[p][i].id >> : i \in {j \in DOMAIN fds[p] : fds[p][j].file = f}} : p \in Procs}
MappedTo(f) ==
  {m \in Procs \X Pages :
     \E i \in DOMAIN maps[m[1]] : maps[m[1]][i].page = m[2] /\ maps[m[1]][i].file = f}

\* A file is open for every descriptor and every mapping there is, so neither
\* a close nor a remove takes it from a mapping; and for nobody else, unless
\* some mmap has failed.
OpenersKnown ==
  \A f \in Files :
    LET n == Cardinality(Descriptors(f)) + Cardinality(MappedTo(f))
    IN  file[f].opens >= n /\ (file[f].opens = n \/ mislaid)

\* That is so as long as no exit, which takes no lock, has met another's call
\* on the same files.
FilesCounted == ~broken => OpenersKnown

\* When a mapping goes, by munmap or by exit, its file holds what the program
\* last stored in the page, evictions or not.
Mapped(p, u) == {maps[p][i].file : i \in {j \in DOMAIN maps[p] : maps[p][j].page = u}}
WrittenBack ==
  [][\A p \in Procs, u \in Pages, f \in Files :
       /\ f \in Mapped(p, u) /\ Mapped(p, u)' = {}
       /\ last[p][u] # None /\ file'[f] # Gone
       => file'[f].value = last[p][u]]_vars

\* munmap does not change how long a file is: it writes back the bytes that
\* were mapped (syscall.c:674).
LengthKept ==
  [][\A p \in Procs : Unmap(p) =>
       \A f \in Files : file'[f] # Gone => file'[f].length = file[f].length]_vars

\* No assertion fails, and no freed inode or page is used.
NeverBroken == ~broken

\* A call returns without the lock.
NeverAstray == astray = {}
===============================================================================
