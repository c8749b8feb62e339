--------------------------------- MODULE Inodes --------------------------------
(***************************************************************************)
(* filesys/inode.c and filesys/free-map.c, with the halves of              *)
(* filesys_create and filesys_remove that touch them.  The disk is what    *)
(* the buffer cache shows of it (BufferCache: reads return what was last   *)
(* written): sectors of words, which a caller reads as an inode, as an     *)
(* index block or as file data, whatever was meant by writing them.        *)
(*                                                                         *)
(* System calls hold filesys_lock, so they run one after the other, but    *)
(* two things come between the steps of a write: a page fault that reads   *)
(* a file (vm_load_page_from_filesys) and the closes of a process that     *)
(* exits; neither takes the lock.  The write is therefore taken apart, and *)
(* what a page fault may find is what every state of a write shows.        *)
(* inode_open and inode_close are one step each: an exit that closes a     *)
(* file inside them, between inode.c:189 and 217 or between 239 and 251,   *)
(* is in Syscalls.                                                         *)
(*                                                                         *)
(* Left out: is_dir and magic, a kernel heap that is exhausted, the blocks *)
(* of the free map file, which are written whenever the map changes.       *)
(***************************************************************************)
EXTENDS Integers, Sequences, FiniteSets, FiniteSetsExt

CONSTANTS
  NSectors,  \* size of the device
  NDirect,   \* DIRECT_BLOCKS_COUNT, 123 in the code
  NIndex,    \* INDIRECT_BLOCKS_PER_SECTOR, 128 in the code
  NBytes,    \* BLOCK_SECTOR_SIZE, 512 in the code
  Value,     \* bytes a program writes
  Lengths,   \* lengths a file is created with
  Writes,    \* << offset, size >> of the writes of programs
  MaxOpen,   \* bound on the openers of a file
  MaxFiles   \* bound on the files there are at a time

ASSUME SizesAssumption ==
  /\ {NDirect, NIndex, NBytes} \subseteq Nat \ {0}
  /\ NSectors \in Nat /\ NSectors > 3
  /\ Lengths \subseteq Nat /\ Writes \subseteq Nat \X Nat
  /\ MaxOpen \in Nat /\ MaxFiles \in Nat

FREE_MAP_SECTOR == 0
ROOT_DIR_SECTOR == 1

Sector == 0 .. NSectors - 1
Files == Sector \ {FREE_MAP_SECTOR, ROOT_DIR_SECTOR}
NoSector == -1

\* Words of a sector: an inode has its direct blocks, then three more.
Ind == NDirect
Dbl == NDirect + 1
Length == NDirect + 2
Words == 0 .. Max({NDirect + 2, NIndex - 1, NBytes - 1})
Zeros == [w \in Words |-> 0]

VARIABLES
  free_map, \* the sectors marked in the free map
  disk,     \* disk[s]: the words of sector s
  named,    \* the files some directory names by the sector of their inode
  inode,    \* open_inodes: inode[s] is the open inode of sector s, or Closed
  writer,   \* the write system call under way
  failed,   \* history: some call has failed half way
  panic     \* an assertion has stopped the machine

vars == << free_map, disk, named, inode, writer, failed, panic >>

Closed == [open_cnt |-> 0, removed |-> FALSE, deny_write_cnt |-> 0,
           data |-> Zeros]
Idle == [pc |-> "idle", sector |-> FREE_MAP_SECTOR, offset |-> 0, size |-> 0,
         value |-> 0]

MinOf(a, b) == IF a < b THEN a ELSE b
bytes_to_sectors(n) == (n + NBytes - 1) \div NBytes

-------------------------------------------------------------------------------
\* The blocks of a file.  d is the disk, data the words of an inode.

\* Mutant of index_to_sector: one base is not taken off the last index.
index_to_sectorOff(d, data, i) ==
  LET j == i - NDirect IN
  CASE i < NDirect -> data[i]
    [] i >= NDirect /\ j < NIndex -> d[data[Ind]][j]
    [] j >= NIndex -> d[d[data[Dbl]][j \div NIndex]][j % NIndex]

index_to_sector(d, data, i) ==
  LET j == i - NDirect
      k == j - NIndex
  IN  CASE i < NDirect -> data[i]
        [] i >= NDirect /\ j < NIndex -> d[data[Ind]][j]
        [] j >= NIndex /\ k < NIndex * NIndex ->
             d[d[data[Dbl]][k \div NIndex]][k % NIndex]
        [] OTHER -> NoSector

byte_to_sector(d, data, pos) ==
  IF pos >= 0 /\ pos < data[Length]
    THEN index_to_sector(d, data, pos \div NBytes) ELSE NoSector

\* The state of a call that allocates.
State(m, d) == [map |-> m, disk |-> d, ok |-> TRUE]

\* free_map_allocate of one sector: the first that is free.
free_map_allocate(st) ==
  IF Sector \ st.map = {} THEN [st |-> [st EXCEPT !.ok = FALSE], entry |-> 0]
  ELSE LET s == Min(Sector \ st.map) IN
       [st |-> [st EXCEPT !.map = @ \union {s}], entry |-> s]

\* Mutant of ReserveLeaf: the new sector keeps what was in it.
ReserveLeafUncleared(st, entry, num) ==
  IF entry # 0 THEN [st |-> st, entry |-> entry] ELSE free_map_allocate(st)

\* A sector for an entry that has none, filled with zeros.  Only the direct
\* entries and the lowest level give up when there is none.
ReserveLeaf(st, entry, num) ==
  IF entry # 0 THEN [st |-> st, entry |-> entry]
  ELSE LET a == free_map_allocate(st) IN
       IF ~a.st.ok THEN a
       ELSE [a EXCEPT !.st.disk[a.entry] = Zeros]

\* The entries of a block up to num sectors, with Child for each; the loop
\* stops at the first that fails.
ReserveEntries(Child(_, _, _), st, block, num, unit) ==
  LET n == (num + unit - 1) \div unit
      run[i \in 0 .. n] ==
        IF i = 0 THEN [st |-> st, block |-> block]
        ELSE LET acc == run[i - 1]
                 c == Child(acc.st, acc.block[i - 1], MinOf(num - (i - 1) * unit, unit))
             IN  IF ~acc.st.ok THEN acc
                 ELSE [st |-> c.st, block |-> [acc.block EXCEPT ![i - 1] = c.entry]]
  IN  run[n]

\* inode_reserve_indirect for a block of entries: a failed allocation of the
\* block itself goes unnoticed, and the entry stays 0.
ReserveIndex(Child(_, _, _), st, entry, num, unit) ==
  LET a == IF entry # 0 THEN [st |-> st, entry |-> entry]
           ELSE LET b == free_map_allocate(st) IN
                [b EXCEPT !.st.ok = TRUE, !.st.disk[b.entry] = Zeros]
      e == ReserveEntries(Child, a.st, a.st.disk[a.entry], num, unit)
  IN  [st |-> IF e.st.ok THEN [e.st EXCEPT !.disk[a.entry] = e.block] ELSE e.st,
       entry |-> a.entry]

ReserveLevel1(st, entry, num) == ReserveIndex(ReserveLeaf, st, entry, num, 1)
ReserveLevel2(st, entry, num) == ReserveIndex(ReserveLevel1, st, entry, num, NIndex)

\* inode_reserve: the words of the inode after it, and the state.
inode_reserve(st, data, length) ==
  LET n == bytes_to_sectors(length)
      direct == ReserveEntries(ReserveLeaf, st, data, MinOf(n, NDirect), 1)
      n1 == n - MinOf(n, NDirect)
      one == ReserveLevel1(direct.st, data[Ind], MinOf(n1, NIndex))
      n2 == n1 - MinOf(n1, NIndex)
      two == ReserveLevel2(one.st, data[Dbl], MinOf(n2, NIndex * NIndex))
      n3 == n2 - MinOf(n2, NIndex * NIndex)
  IN  IF ~direct.st.ok \/ n1 = 0 THEN [st |-> direct.st, data |-> direct.block]
      ELSE LET data1 == [direct.block EXCEPT ![Ind] = one.entry] IN
           IF ~one.st.ok \/ n2 = 0 THEN [st |-> one.st, data |-> data1]
           ELSE [st |-> [two.st EXCEPT !.ok = @ /\ n3 = 0],
                 data |-> [data1 EXCEPT ![Dbl] = two.entry]]

\* Mutant of inode_deallocate: the blocks of the inode itself only.
inode_deallocateDirect(d, data) ==
  LET n == MinOf(bytes_to_sectors(data[Length]), NDirect)
  IN  {data[i] : i \in 0 .. n - 1}

\* inode_deallocate: the sectors it hands to free_map_release, by the length
\* of the file and not by what is allocated.
inode_deallocate(d, data) ==
  LET n == bytes_to_sectors(data[Length])
      n1 == n - MinOf(n, NDirect)
      n2 == n1 - MinOf(n1, NIndex)
      Level1(entry, num) == {entry} \union {d[entry][i] : i \in 0 .. num - 1}
      Level2(entry, num) ==
        {entry} \union
        UNION {Level1(d[entry][i], MinOf(num - i * NIndex, NIndex)) :
                 i \in 0 .. (num + NIndex - 1) \div NIndex - 1}
  IN  {data[i] : i \in 0 .. MinOf(n, NDirect) - 1}
      \union (IF n1 > 0 THEN Level1(data[Ind], MinOf(n1, NIndex)) ELSE {})
      \union (IF n2 > 0 THEN Level2(data[Dbl], MinOf(n2, NIndex * NIndex)) ELSE {})

\* free_map_release of some sectors: it asserts that they are marked.
free_map_release(sectors) ==
  /\ free_map' = free_map \ sectors
  /\ panic' = (panic \/ ~ sectors \subseteq free_map)

-------------------------------------------------------------------------------
\* The system after do_format: the free map file and the root directory have
\* one block each, and the free map file stays open.
SystemInode(block, length) == [Zeros EXCEPT ![0] = block, ![Length] = length]

Init ==
  /\ free_map = {FREE_MAP_SECTOR, ROOT_DIR_SECTOR, 2, 3}
  /\ disk = [s \in Sector |->
               CASE s = FREE_MAP_SECTOR -> SystemInode(2, 1)
                 [] s = ROOT_DIR_SECTOR -> SystemInode(3, 1)
                 [] OTHER -> Zeros]
  /\ named = {}
  /\ inode = [s \in Sector |->
                IF s = FREE_MAP_SECTOR
                  THEN [Closed EXCEPT !.open_cnt = 1, !.data = SystemInode(2, 1)]
                  ELSE Closed]
  /\ writer = Idle
  /\ failed = FALSE
  /\ panic = FALSE

Locked == ~panic /\ writer.pc = "idle"   \* a system call may begin
Live(f) == f \in named \/ inode[f].open_cnt > 0
Users(f) == IF writer.pc # "idle" /\ writer.sector = f THEN 1 ELSE 0

\* filesys_create: the sector of the inode, inode_create, and dir_add, which
\* can fail (added).  When anything fails the inode's own sector goes back.
filesys_create(n, added) ==
  LET a == free_map_allocate(State(free_map, disk))
      f == a.entry
      r == inode_reserve(a.st, [Zeros EXCEPT ![Length] = n], n)
      success == r.st.ok /\ added
  IN  /\ Locked /\ a.st.ok
      /\ Cardinality({g \in Files : Live(g)}) < MaxFiles
      /\ free_map' = IF success THEN r.st.map ELSE r.st.map \ {f}
      /\ disk' = IF r.st.ok THEN [r.st.disk EXCEPT ![f] = r.data] ELSE r.st.disk
      /\ named' = IF success THEN named \union {f} ELSE named
      /\ failed' = (failed \/ ~success)
      /\ UNCHANGED << inode, writer, panic >>

\* inode_open and inode_reopen.
inode_open(f) ==
  /\ Locked /\ f \in named /\ inode[f].open_cnt < MaxOpen
  /\ inode' = IF inode[f].open_cnt > 0 THEN [inode EXCEPT ![f].open_cnt = @ + 1]
              ELSE [inode EXCEPT ![f] = [Closed EXCEPT !.open_cnt = 1,
                                                      !.data = disk[f]]]
  /\ UNCHANGED << free_map, disk, named, writer, failed, panic >>

\* The last close of a removed inode hands its blocks back.
LetGo(f, last) ==
  IF last /\ inode[f].removed
    THEN free_map_release({f} \union inode_deallocate(disk, inode[f].data))
    ELSE UNCHANGED << free_map, panic >>

\* file_close allows writes again first if it is this file that denied them.
AfterClose(i, denying) ==
  [i EXCEPT !.open_cnt = @ - 1,
            !.deny_write_cnt = IF denying THEN @ - 1 ELSE @]

\* file_close and inode_close; a process that exits calls them without
\* filesys_lock.
inode_close(f, denying) ==
  LET i == inode[f] IN
  /\ ~panic /\ i.open_cnt > Users(f)
  /\ IF denying THEN i.deny_write_cnt > 0
     ELSE i.open_cnt - Users(f) > i.deny_write_cnt
  /\ LetGo(f, i.open_cnt = 1)
  /\ inode' = [inode EXCEPT ![f] = IF i.open_cnt = 1 THEN Closed
                                   ELSE AfterClose(i, denying)]
  /\ UNCHANGED << disk, named, writer, failed >>

\* dir_remove of a file: inode_open, the entry erased, inode_remove,
\* inode_close.
inode_remove(f) ==
  /\ Locked /\ f \in named
  /\ named' = named \ {f}
  /\ IF inode[f].open_cnt > 0
       THEN /\ inode' = [inode EXCEPT ![f].removed = TRUE]
            /\ UNCHANGED << free_map, panic >>
       ELSE /\ free_map_release({f} \union inode_deallocate(disk, disk[f]))
            /\ UNCHANGED inode
  /\ UNCHANGED << disk, writer, failed >>

\* load denies writes to the executable it has opened.
inode_deny_write(f) ==
  /\ Locked /\ inode[f].deny_write_cnt < inode[f].open_cnt
  /\ inode' = [inode EXCEPT ![f].deny_write_cnt = @ + 1]
  /\ UNCHANGED << free_map, disk, named, writer, failed, panic >>

\* inode_write_at up to the reservation of what is past the end.
WriteReserve(f, offset, size, v) ==
  LET i == inode[f]
      r == inode_reserve(State(free_map, disk), i.data, offset + size)
      call == [pc |-> "chunk", sector |-> f, offset |-> offset, size |-> size,
               value |-> v]
  IN  /\ Locked /\ i.open_cnt > 0 /\ i.deny_write_cnt = 0
      /\ IF byte_to_sector(disk, i.data, offset + size - 1) # NoSector
           THEN /\ writer' = call
                /\ UNCHANGED << free_map, disk, inode, failed >>
           ELSE /\ free_map' = r.st.map
                /\ disk' = r.st.disk
                /\ inode' = [inode EXCEPT ![f].data = r.data]
                /\ writer' = IF r.st.ok THEN [call EXCEPT !.pc = "grow"] ELSE Idle
                /\ failed' = (failed \/ ~r.st.ok)
      /\ UNCHANGED << named, panic >>

\* The new length, in memory and on disk.
WriteLength ==
  LET f == writer.sector
      data == [inode[f].data EXCEPT ![Length] = writer.offset + writer.size]
  IN  /\ writer.pc = "grow" /\ ~panic
      /\ inode' = [inode EXCEPT ![f].data = data]
      /\ disk' = [disk EXCEPT ![f] = data]
      /\ writer' = [writer EXCEPT !.pc = "chunk"]
      /\ UNCHANGED << free_map, named, failed, panic >>

\* One sector of the write.
WriteChunk ==
  LET data == inode[writer.sector].data
      s == byte_to_sector(disk, data, writer.offset)
      ofs == writer.offset % NBytes
      chunk == MinOf(writer.size, MinOf(data[Length] - writer.offset, NBytes - ofs))
      rest == [writer EXCEPT !.offset = @ + chunk, !.size = @ - chunk]
  IN  /\ writer.pc = "chunk" /\ ~panic
      /\ IF chunk <= 0 THEN writer' = Idle /\ UNCHANGED disk
         ELSE /\ disk' = [disk EXCEPT ![s] =
                            [w \in Words |-> IF w \in ofs .. ofs + chunk - 1
                                              THEN writer.value ELSE @[w]]]
              /\ writer' = IF rest.size = 0 THEN Idle ELSE rest
      /\ UNCHANGED << free_map, named, inode, failed, panic >>

Next ==
  \/ \E n \in Lengths, added \in BOOLEAN : filesys_create(n, added)
  \/ \E f \in Files :
       \/ inode_open(f)
       \/ \E denying \in BOOLEAN : inode_close(f, denying)
       \/ inode_remove(f)
       \/ inode_deny_write(f)
       \/ \E w \in Writes, v \in Value : WriteReserve(f, w[1], w[2], v)
  \/ WriteLength
  \/ WriteChunk

Spec == Init /\ [][Next]_vars

-------------------------------------------------------------------------------
\* Properties

Data(f) == IF inode[f].open_cnt > 0 THEN inode[f].data ELSE disk[f]

\* Every variable has its type.
TypeOK ==
  /\ free_map \subseteq Sector
  /\ \A s \in Sector : DOMAIN disk[s] = Words
  /\ named \subseteq Files
  /\ \A s \in Sector : /\ inode[s].open_cnt \in 0 .. MaxOpen
                       /\ inode[s].deny_write_cnt \in 0 .. inode[s].open_cnt
                       /\ DOMAIN inode[s].data = Words
  /\ writer.pc \in {"idle", "grow", "chunk"}
  /\ {failed, panic} \subseteq BOOLEAN

\* The blocks a file reaches: its data, found as index_to_sector finds it,
\* and the index blocks on the way there.
DataBlocks(f) == [i \in 0 .. bytes_to_sectors(Data(f)[Length]) - 1 |->
                    index_to_sector(disk, Data(f), i)]
IndexBlocks(f) ==
  LET n == bytes_to_sectors(Data(f)[Length]) IN
  (IF n > NDirect THEN {Data(f)[Ind]} ELSE {}) \union
  (IF n > NDirect + NIndex
     THEN {Data(f)[Dbl]} \union
          {disk[Data(f)[Dbl]][(i - NDirect - NIndex) \div NIndex] :
             i \in NDirect + NIndex .. n - 1}
     ELSE {})
Owned(f) == {f} \union {DataBlocks(f)[i] : i \in DOMAIN DataBlocks(f)}
                \union IndexBlocks(f)
LiveFiles == {f \in Files : Live(f)} \union {FREE_MAP_SECTOR, ROOT_DIR_SECTOR}

\* No sector has two uses, and each that has one is marked in the free map
\* (inode_reserve, index_to_sector and inode_deallocate walk the same tree).
\* It holds between the steps of a write too, where a page fault may read.
NoSharedSector ==
  /\ \A f \in LiveFiles :
       /\ Owned(f) \subseteq free_map
       /\ Cardinality(Owned(f)) =
            1 + Cardinality(DOMAIN DataBlocks(f)) + Cardinality(IndexBlocks(f))
  /\ \A f, g \in LiveFiles : f # g => Owned(f) \intersect Owned(g) = {}

\* As long as no call has failed half way, a marked sector belongs to a file:
\* inode_close gives back whatever inode_reserve took.  A write that is under
\* way has taken what it has not entered yet.
NoLostSector ==
  ~failed /\ writer.pc # "grow" => free_map = UNION {Owned(f) : f \in LiveFiles}

\* free_map_release never finds a sector that is free (free-map.c:46).
ReleasesMarked == ~panic

\* Files are what FileStore says, at every step of every call.
Content(f) == [p \in 1 .. Data(f)[Length] |->
                 disk[byte_to_sector(disk, Data(f), p - 1)][(p - 1) % NBytes]]
Store == INSTANCE FileStore WITH
  Id <- Files, Value <- Value \union {0},
  content <- [f \in Files |-> IF Live(f) THEN Content(f) ELSE << >>],
  named <- named,
  opens <- [f \in Files |-> inode[f].open_cnt]
ImplementsStore == Store!Spec

\* Sector 0 holds the free map file's inode (filesys.h:8).
FreeMapInode == disk[FREE_MAP_SECTOR] = SystemInode(2, 1)

\* Every marked sector belongs to a file.
AllAccounted == free_map = UNION {Owned(f) : f \in LiveFiles}

\* A write of no bytes changes no file (tests/userprog/write-zero.c:1).
ZeroWrite ==
  [][writer.pc # "idle" /\ writer.size = 0
       => inode'[writer.sector].data = inode[writer.sector].data]_vars
===============================================================================
