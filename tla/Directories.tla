------------------------------ MODULE Directories ------------------------------
(***************************************************************************)
(* filesys/directory.c, filesys/filesys.c and the descriptors that keep    *)
(* directories and files open: processes name, open, close and remove      *)
(* files and directories, change directory, list one, start and exit.      *)
(* Each call is one step, as filesys_lock makes it.  An exit takes no lock *)
(* and is one step all the same: what its closes do between the steps of a *)
(* call is in Syscalls.                                                    *)
(*                                                                         *)
(* An inode has a sector; its blocks are Inodes' business.  Any inode can  *)
(* be used as a directory, since dir_open_path never looks at is_dir; what *)
(* a program writes into a file is not read as entries here.  Left out:    *)
(* names that are too long, a kernel heap that is exhausted.               *)
(***************************************************************************)
EXTENDS Integers, Sequences, FiniteSets, FiniteSetsExt

CONSTANTS
  Procs,     \* processes
  Names,     \* names of directory entries
  NSectors,  \* sectors for inodes
  NRoot,     \* entries the root directory has room for, 16 in the code
  Paths,     \* << "root" or "cwd", components >> a program names
  MaxOpen,   \* bound on the openers of all inodes together
  Garbage,   \* what in_use may be in a dir_entry nobody has initialized
  None       \* no directory, no name

ASSUME SizesAssumption == NSectors \in Nat /\ NSectors > 1 /\ NRoot \in Nat \ {0}
                          /\ MaxOpen \in Nat
ASSUME PathsAssumption == Paths \subseteq {"root", "cwd"} \X Seq(Names \union {".", ".."})
ASSUME GarbageAssumption == Garbage \subseteq BOOLEAN /\ Garbage # {}
ASSUME ProcsAssumption == IsFiniteSet(Procs)

ROOT_DIR_SECTOR == 1
Sector == 1 .. NSectors

VARIABLES
  disk,     \* disk[s]: the inode in sector s, with its entries; None: free
  inode,    \* open_inodes: the open inode of a sector, or Closed
  cwd,      \* cwd[p]: thread->cwd, None when p is not running
  fds,      \* fds[p]: the files p has a descriptor for, one each at most
  scan,     \* a process that lists a directory, or NoScan
  robbed,   \* history: directories that a removal has taken an opener from
            \* since they were last closed
  stray     \* history: a call has used an inode or a sector that was freed

vars == << disk, inode, cwd, fds, scan, robbed, stray >>

Closed == [open_cnt |-> 0, removed |-> FALSE]
NoScan == [proc |-> None, dir |-> None, pos |-> 0, kept |-> {}, seen |-> {},
           twice |-> FALSE]

\* struct dir_entry, and what an inode holds.
DirEntry == [name : Names \union {None}, sector : 0 .. NSectors, in_use : BOOLEAN]
Inode == [is_dir : BOOLEAN, entries : Seq(DirEntry)]
Disks == [Sector -> Inode \union {None}]
Opened == [open_cnt : Nat, removed : BOOLEAN]
Scans == [proc : Procs \union {None}, dir : Sector \union {None}, pos : Nat,
          kept : SUBSET (Names \union {None}), seen : SUBSET (Names \union {None}),
          twice : BOOLEAN]

ASSUME NoneAssumption == None \notin Names \union Int \union Inode

Entry(n, s, b) == [name |-> n, sector |-> s, in_use |-> b]
Free == Entry(None, 0, FALSE)

used == {s \in Sector : disk[s] # None}   \* free_map

-------------------------------------------------------------------------------
\* Entry 1 of a directory is for its parent; names start at entry 2.
Slots(es, n) == {i \in 2 .. Len(es) : es[i].in_use /\ es[i].name = n}
Visible(es) == {es[i].name : i \in {j \in 2 .. Len(es) : es[j].in_use}}
dir_is_empty(es) == Visible(es) = {}

\* lookup: the first entry in use with name n, where there is one.
lookup(es, n) == Min(Slots(es, n))

\* dir_lookup: the sector of name n in the directory of sector s, or None.
\* "." is s itself; ".." of a directory with no entry at all is not used.
dir_lookup(s, n) ==
  LET es == disk[s].entries IN
  CASE n = "." -> s
    [] n = ".." -> IF es = << >> THEN None ELSE es[1].sector
    [] OTHER -> IF Slots(es, n) = {} THEN None ELSE es[lookup(es, n)].sector

\* dir_open_path: every directory on the way, the last of which must not
\* have been removed.  The walk leaves no inode open but the last.
Walk(p, path) ==
  LET w[i \in 0 .. Len(path[2])] ==
        IF i = 0 THEN IF path[1] = "root" THEN ROOT_DIR_SECTOR ELSE cwd[p]
        ELSE IF w[i - 1] \notin used THEN None
        ELSE dir_lookup(w[i - 1], path[2][i])
  IN  w
dir_open_path(walk, path) == walk[Len(path[2])]

\* The calls of p that find a directory.  A walk through a sector that no
\* inode owns (an old "..") is not followed.
Resolves(walk, path) ==
  /\ \A i \in 0 .. Len(path[2]) : walk[i] \in used
  /\ ~inode[dir_open_path(walk, path)].removed

\* How often the handles of all processes keep s open: a descriptor for a
\* directory holds it with its file and with its dir.
Weight(s) == IF disk[s].is_dir THEN 2 ELSE 1
Handles(c, f, s) ==
  Cardinality({p \in Procs : c[p] = s})
    + Weight(s) * Cardinality({p \in Procs : s \in f[p]})

\* inode_open, inode_reopen and inode_close of handles: s is opened opens[s]
\* times and then closed closes[s] times, after dsk has been written.  The last
\* close of a removed inode frees its sector; whoever still has a handle for an
\* inode that is gone is astray.
Settled(dsk, opens, closes, removes) ==
  LET count(s) == inode[s].open_cnt + opens[s] - closes[s]
      removed(s) == inode[s].removed \/ s \in removes
      gone == {s \in Sector : closes[s] > 0 /\ count(s) <= 0}
  IN  /\ disk' = [s \in Sector |->
                   IF s \in gone /\ removed(s) THEN None ELSE dsk[s]]
      /\ inode' = [s \in Sector |->
                    IF s \in gone THEN Closed
                    ELSE [open_cnt |-> count(s),
                          removed |-> removed(s) /\ count(s) > 0]]
      /\ stray' = \E s \in gone : count(s) < 0 \/ Handles(cwd', fds', s) > 0

\* Those of the directories of rb that are still open are robbed.
Robbed(rb) == robbed' = {s \in rb : inode'[s].open_cnt > 0}

Settle(dsk, opens, closes, removes) ==
  Settled(dsk, opens, closes, removes) /\ Robbed(robbed)

Opens == LET sum[s \in 0 .. NSectors] ==
               IF s = 0 THEN 0 ELSE sum[s - 1] + inode[s].open_cnt
         IN  sum[NSectors]
Only(s, n) == [t \in Sector |-> IF t = s THEN n ELSE 0]
Nothing == [t \in Sector |-> 0]

\* The entries of d change, and with them what a listing of d can rely on.
Rescan(dsk, d) ==
  scan' = IF scan.dir = d
            THEN LET v == Visible(dsk[d].entries) IN
                 [scan EXCEPT !.kept = @ \intersect v, !.seen = @ \intersect v]
            ELSE scan

-------------------------------------------------------------------------------
Init ==
  /\ \E g \in Garbage :
       disk = [s \in Sector |->
                IF s # ROOT_DIR_SECTOR THEN None
                ELSE [is_dir |-> TRUE,
                      entries |-> << Entry(None, s, g) >>
                                    \o [i \in 1 .. NRoot - 1 |-> Free]]]
  /\ \E p \in Procs :
       /\ cwd = [q \in Procs |-> IF q = p THEN ROOT_DIR_SECTOR ELSE None]
       /\ inode = [s \in Sector |-> IF s = ROOT_DIR_SECTOR
                                    THEN [Closed EXCEPT !.open_cnt = 1] ELSE Closed]
  /\ fds = [p \in Procs |-> {}]
  /\ scan = NoScan
  /\ robbed = {}
  /\ stray = FALSE

\* The slot dir_add takes.  The search starts at entry 1, the parent's, whose
\* in_use was never initialized.
FreeSlot(es) ==
  Min({Len(es) + 1} \union {i \in DOMAIN es : ~es[i].in_use})

\* Mutant of NameTaken: any name is good.
NameTakenNever(es, n) == FALSE

\* dir_add refuses a name that its directory has.
NameTaken(es, n) == Slots(es, n) # {}

\* filesys_create for sys_create and sys_mkdir, with inode_create and dir_add.
\* room says whether the disk has a block for a directory that must grow.
filesys_create(p, path, n, is_dir, room) ==
  /\ ~stray /\ cwd[p] # None
  /\ LET walk == Walk(p, path)
         d == dir_open_path(walk, path) IN
    /\ Resolves(walk, path)
    /\ used # Sector
    /\ \E g \in Garbage :
         LET f == Min(Sector \ used)
             es == disk[d].entries
             slot == FreeSlot(es)
             success == /\ ~NameTaken(es, n)
                        /\ room \/ (slot <= Len(es) /\ ~is_dir)
             child == [is_dir |-> is_dir,
                       entries |-> IF is_dir THEN << Entry(None, d, g) >>
                                   ELSE << >>]
             e == Entry(n, f, TRUE)
             grown == IF slot > Len(es) THEN Append(es, e)
                      ELSE [es EXCEPT ![slot] = e]
         IN  IF success
               THEN /\ disk' = [disk EXCEPT ![f] = child, ![d].entries = grown]
                    /\ Rescan(disk', d)
               ELSE UNCHANGED << disk, scan >>
    /\ UNCHANGED << inode, cwd, fds, robbed, stray >>

\* filesys_open and sys_open: the directory itself when the name is empty.  An
\* inode that has been removed is left open with nobody to close it.
filesys_open(p, path, n) ==
  /\ ~stray /\ cwd[p] # None
  /\ LET walk == Walk(p, path)
         d == dir_open_path(walk, path) IN
    /\ Resolves(walk, path)
    /\ LET s == IF n = None THEN d ELSE dir_lookup(d, n) IN
         /\ s # None /\ s \in used /\ s \notin fds[p]
         /\ Opens + Weight(s) <= MaxOpen
         /\ IF inode[s].removed
              THEN /\ Settle(disk, Only(s, 1), Nothing, {})
                   /\ UNCHANGED << cwd, fds >>
              ELSE /\ UNCHANGED cwd
                   /\ fds' = [fds EXCEPT ![p] = @ \union {s}]
                   /\ Settle(disk, Only(s, Weight(s)), Nothing, {})
    /\ UNCHANGED scan

\* sys_close.
sys_close(p, s) ==
  /\ ~stray /\ s \in fds[p]
  /\ fds' = [fds EXCEPT ![p] = @ \ {s}]
  /\ scan' = IF scan.proc = p /\ scan.dir = s THEN NoScan ELSE scan
  /\ UNCHANGED cwd
  /\ Settle(disk, Nothing, Only(s, Weight(s)), {})

\* Mutant of Erase: the entries behind it move up.
EraseShift(es, i) == SubSeq(es, 1, i - 1) \o SubSeq(es, i + 1, Len(es))

Erase(es, i) == [es EXCEPT ![i] = Free]

\* filesys_remove and dir_remove.  A directory that is not empty stays.  Empty
\* or not, dir_close has closed its inode before the end closes it once more:
\* one that is open loses an opener, and one that nobody has open is freed
\* before inode_remove could mark it, so that it keeps its sector.
filesys_remove(p, path, n) ==
  /\ ~stray /\ cwd[p] # None
  /\ LET walk == Walk(p, path)
         d == dir_open_path(walk, path) IN
    /\ Resolves(walk, path)
    /\ LET es == disk[d].entries
           s == es[lookup(es, n)].sector
           erased == [disk EXCEPT ![d].entries = Erase(es, lookup(es, n))]
           success == disk[s].is_dir => dir_is_empty(disk[s].entries)
           after == IF success THEN erased ELSE disk
           marked == IF success THEN {s} ELSE {}
       IN  /\ Slots(es, n) # {}
           /\ Rescan(after, d)
           /\ UNCHANGED << cwd, fds >>
           /\ IF ~disk[s].is_dir THEN Settle(after, Only(s, 1), Only(s, 1), marked)
              ELSE IF inode[s].open_cnt > 0
                THEN /\ Settled(after, Only(s, 1), Only(s, 2), marked)
                     /\ Robbed(robbed \union {s})
              ELSE disk' = after /\ UNCHANGED << inode, robbed, stray >>

\* Mutant of Replaced: the directory that was left stays open.
ReplacedNot(old, new) == Nothing

\* filesys_chdir closes the directory that was the current one.
Replaced(old, new) == Only(old, 1)

filesys_chdir(p, path) ==
  /\ ~stray /\ cwd[p] # None
  /\ LET walk == Walk(p, path)
         d == dir_open_path(walk, path) IN
    /\ Resolves(walk, path)
    /\ cwd' = [cwd EXCEPT ![p] = d]
    /\ UNCHANGED fds
    /\ Settle(disk, Only(d, 1), Replaced(cwd[p], d), {})
    /\ UNCHANGED scan

\* start_process: the directory of the parent, or the root for main's.
start_process(q) ==
  /\ ~stray /\ cwd[q] = None /\ Opens < MaxOpen
  /\ \E d \in Sector :
       /\ IF \A p \in Procs : cwd[p] = None THEN d = ROOT_DIR_SECTOR
          ELSE \E p \in Procs : cwd[p] = d
       /\ cwd' = [cwd EXCEPT ![q] = d]
       /\ UNCHANGED fds
       /\ Settle(disk, Only(d, 1), Nothing, {})
  /\ UNCHANGED scan

\* The descriptors after p has popped every one of its own.
Emptied(p) == [fds EXCEPT ![p] = {}]

\* process_exit closes the files of the descriptors and the current directory,
\* and forgets the dirs of the descriptors.
process_exit(p) ==
  /\ ~stray /\ cwd[p] # None
  /\ cwd' = [cwd EXCEPT ![p] = None]
  /\ fds' = Emptied(p)
  /\ Settle(disk, Nothing, [s \in Sector |-> (IF s \in fds[p] THEN 1 ELSE 0)
                                       + (IF cwd[p] = s THEN 1 ELSE 0)], {})
  /\ scan' = IF scan.proc = p THEN NoScan ELSE scan

\* A process begins to list a directory it has just opened.
StartScan(p, s) ==
  /\ ~stray /\ scan = NoScan /\ s \in fds[p] /\ disk[s].is_dir
  /\ scan' = [NoScan EXCEPT !.proc = p, !.dir = s, !.pos = 2,
                            !.kept = Visible(disk[s].entries)]
  /\ UNCHANGED << disk, inode, cwd, fds, robbed, stray >>

\* dir_readdir: the next entry in use at or after pos.
dir_readdir ==
  LET es == disk[scan.dir].entries
      left == {i \in scan.pos .. Len(es) : es[i].in_use}
      n == es[Min(left)].name
  IN  /\ ~stray /\ scan # NoScan /\ left # {}
      /\ scan' = [scan EXCEPT !.pos = Min(left) + 1,
                              !.seen = (@ \union {n}) \intersect scan.kept,
                              !.twice = @ \/ n \in scan.seen]
      /\ UNCHANGED << disk, inode, cwd, fds, robbed, stray >>

Next ==
  \/ \E p \in Procs :
       \/ \E path \in Paths, n \in Names, is_dir, room \in BOOLEAN :
            filesys_create(p, path, n, is_dir, room)
       \/ \E path \in Paths, n \in Names \union {"..", None} :
            filesys_open(p, path, n)
       \/ \E path \in Paths, n \in Names : filesys_remove(p, path, n)
       \/ \E path \in Paths : filesys_chdir(p, path)
       \/ \E s \in Sector : sys_close(p, s) \/ StartScan(p, s)
       \/ start_process(p)
       \/ process_exit(p)
  \/ dir_readdir

Spec == Init /\ [][Next]_vars

-------------------------------------------------------------------------------
\* Properties

\* Every variable has its type: the disk has inodes or free sectors, which are
\* open or not, and processes hold sectors.
TypeOK ==
  /\ disk \in Disks
  /\ inode \in [Sector -> Opened]
  /\ cwd \in [Procs -> Sector \union {None}]
  /\ fds \in [Procs -> SUBSET Sector]
  /\ scan \in Scans
  /\ robbed \subseteq Sector
  /\ stray \in BOOLEAN

\* Entries of allocated inodes, other than the parent's: << directory, index >>.
Listed == UNION {{s} \X {i \in 2 .. Len(disk[s].entries) : disk[s].entries[i].in_use} :
                   s \in used}
EntryAt(e) == disk[e[1]].entries[e[2]]

\* An entry leads to an inode that is allocated and that no other entry leads
\* to, and no directory has a name twice (dir_add, dir_remove, inode_close).
EntriesLead ==
  ~stray =>
    \A e \in Listed :
      /\ EntryAt(e).sector \in used
      /\ \A g \in Listed \ {e} :
           /\ EntryAt(e).sector # EntryAt(g).sector
           /\ e[1] = g[1] => EntryAt(e).name # EntryAt(g).name

\* An inode is open for every handle there is, so it does not go before the
\* last of them, but for a directory that a removal, granted or refused, has
\* taken an opener from; a file that is not removed is open for nobody else.
CountsHandles ==
  ~stray =>
    \A s \in used :
      LET n == Handles(cwd, fds, s) IN
      /\ s \notin robbed => inode[s].open_cnt >= n
      /\ ~(disk[s].is_dir \/ inode[s].removed) => inode[s].open_cnt = n

\* A listing that has come to the end has shown every name that was there all
\* along, and shown it once, whatever was added and removed meanwhile.
ListsAll ==
  ~stray /\ scan # NoScan =>
    /\ ~scan.twice
    /\ (\A i \in scan.pos .. Len(disk[scan.dir].entries) :
          ~disk[scan.dir].entries[i].in_use) => scan.seen = scan.kept

\* An inode goes when its last opener closes it (inode.c:255).
NeverStray == ~stray

\* An inode is open for every handle, a directory that somebody has tried to
\* remove included: a removal closes what it has opened (directory.c:360-378).
HandlesKept == \A s \in used : inode[s].open_cnt >= Handles(cwd, fds, s)

\* Entry 1 is the parent directory's (directory.c:75).
ParentEntry ==
  \A e \in Listed :
    LET c == EntryAt(e).sector IN
    disk[c].is_dir => disk[c].entries[1].sector = e[1]

\* A directory that is removed and open nowhere has given its sector back.
NoOrphan ==
  \A s \in used \ {ROOT_DIR_SECTOR} :
    \/ inode[s].open_cnt > 0
    \/ \E e \in Listed : EntryAt(e).sector = s
================================================================================
