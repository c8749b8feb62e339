--------------------------- MODULE DirectoriesProofs ---------------------------
(***************************************************************************)
(* For any number of processes, names and sectors, any size of the root    *)
(* and whatever the uninitialized memory holds: entries lead to inodes of  *)
(* their own, the open inodes count their handles, and a listing is        *)
(* complete.                                                               *)
(*                                                                         *)
(* Every call ends in inode_open, inode_reopen and inode_close of some     *)
(* sectors, which Settle gathers.  SettleKeeps says what a call must have  *)
(* seen to before that for the invariant to be kept.                       *)
(***************************************************************************)
EXTENDS Directories, TLAPS, FiniteSetTheorems, SequenceTheorems

\* A set of naturals has a least element, which Min finds.
LEMMA MinIsLeast ==
  ASSUME NEW S \in SUBSET Nat, S # {}
  PROVE  Min(S) \in S /\ \A y \in S : Min(S) <= y
<1>1. PICK x \in S : \A y \in S : << y, x >> \notin OpToRel(<, Nat)
  BY NatLessThanWellFounded, WFMin
<1>2. \A y \in S : ~(y < x)
  BY <1>1 DEF OpToRel
<1>3. \A y \in S : y \in Nat
  OBVIOUS
<1>4. \A y \in S : x <= y
  BY <1>2, <1>3
<1> QED
  BY <1>4 DEF Min

-------------------------------------------------------------------------------
(* The invariant.  Its parts take the disk as a parameter, since a call writes *)
(* entries before it closes inodes.                                            *)

\* Entry i of s is in use, and is not the parent's.
InUse(dsk, s, i) ==
  /\ dsk[s] # None
  /\ i \in 2 .. Len(dsk[s].entries)
  /\ dsk[s].entries[i].in_use
To(dsk, s, i) == dsk[s].entries[i].sector
Name(dsk, s, i) == dsk[s].entries[i].name

\* EntriesLead, and that none of the entries leads to the root.
Leads(dsk) ==
  \A s \in Sector, i \in Nat :
    InUse(dsk, s, i) => /\ To(dsk, s, i) \in Sector \ {ROOT_DIR_SECTOR}
                        /\ dsk[To(dsk, s, i)] # None
Alone(dsk) ==
  \A s, t \in Sector, i, j \in Nat :
    InUse(dsk, s, i) /\ InUse(dsk, t, j) /\ To(dsk, s, i) = To(dsk, t, j)
      => s = t /\ i = j
Distinct(dsk) ==
  \A s \in Sector, i, j \in Nat :
    InUse(dsk, s, i) /\ InUse(dsk, s, j) /\ Name(dsk, s, i) = Name(dsk, s, j) => i = j
Tree(dsk) == Leads(dsk) /\ Alone(dsk) /\ Distinct(dsk) /\ dsk[ROOT_DIR_SECTOR] # None

\* An inode that is marked removed has no entry, and is not the root; it is open
\* still, and so is a directory that is robbed.
Unlisted(dsk, s) ==
  /\ s # ROOT_DIR_SECTOR
  /\ \A t \in Sector, i \in Nat : InUse(dsk, t, i) => To(dsk, t, i) # s
Marks ==
  \A s \in Sector :
    /\ inode[s].open_cnt > 0 => disk[s] # None
    /\ inode[s].removed => inode[s].open_cnt > 0 /\ Unlisted(disk, s)
    /\ s \in robbed => inode[s].open_cnt > 0

\* What processes hold is there.
Held(dsk, c, f) ==
  \A p \in Procs : /\ c[p] # None => dsk[c[p]] # None
                   /\ \A s \in f[p] : dsk[s] # None

\* Handles, by the inodes of dsk.
Dwellers(c, s) == {p \in Procs : c[p] = s}
Owners(f, s) == {p \in Procs : s \in f[p]}
WeightIn(dsk, s) == IF dsk[s].is_dir THEN 2 ELSE 1
Holds(dsk, c, f, s) ==
  Cardinality(Dwellers(c, s)) + WeightIn(dsk, s) * Cardinality(Owners(f, s))

\* CountsHandles for one sector, which has n openers, when those of rb are
\* robbed.
Covered(dsk, c, f, rb, s, n, rm) ==
  /\ s \notin rb => n >= Holds(dsk, c, f, s)
  /\ ~(dsk[s].is_dir \/ rm) => n = Holds(dsk, c, f, s)
Counts ==
  \A s \in Sector :
    disk[s] # None
      => Covered(disk, cwd, fds, robbed, s, inode[s].open_cnt, inode[s].removed)

\* A listing has its directory open; it has seen those of the names it is to
\* see whose entries are behind it.
Listing(dsk, f, sc) ==
  sc # NoScan =>
    /\ sc.proc \in Procs /\ sc.dir \in f[sc.proc] /\ sc.pos >= 2
    /\ ~sc.twice
    /\ sc.seen \subseteq sc.kept
    /\ \A n \in sc.kept :
         \E i \in Nat : /\ InUse(dsk, sc.dir, i) /\ Name(dsk, sc.dir, i) = n
                        /\ n \in sc.seen <=> i < sc.pos

DirInv ==
  /\ TypeOK
  /\ ~stray => /\ Tree(disk) /\ Marks /\ Held(disk, cwd, fds) /\ Counts
               /\ Listing(disk, fds, scan)

-------------------------------------------------------------------------------
(* How often an inode is held. *)

LEMMA HandlesAreHolds ==
  ASSUME NEW c, NEW f, NEW s
  PROVE  Handles(c, f, s) = Holds(disk, c, f, s)
BY DEF Handles, Weight, Holds, WeightIn, Dwellers, Owners

LEMMA HoldersFinite ==
  ASSUME NEW dsk, NEW c, NEW f, NEW s
  PROVE  /\ IsFiniteSet(Dwellers(c, s)) /\ Cardinality(Dwellers(c, s)) \in Nat
         /\ IsFiniteSet(Owners(f, s)) /\ Cardinality(Owners(f, s)) \in Nat
         /\ Holds(dsk, c, f, s) \in Nat
<1>1. Dwellers(c, s) \in SUBSET Procs /\ Owners(f, s) \in SUBSET Procs
  BY DEF Dwellers, Owners
<1>2. /\ IsFiniteSet(Dwellers(c, s)) /\ Cardinality(Dwellers(c, s)) \in Nat
      /\ IsFiniteSet(Owners(f, s)) /\ Cardinality(Owners(f, s)) \in Nat
  BY <1>1, ProcsAssumption, FS_Subset, FS_CardinalityType
<1>3. WeightIn(dsk, s) \in Nat
  BY DEF WeightIn
<1> DEFINE m == Cardinality(Dwellers(c, s))
           n == Cardinality(Owners(f, s))
           w == WeightIn(dsk, s)
<1>4. m \in Nat /\ n \in Nat /\ w \in Nat
  BY <1>2, <1>3
<1>5. Holds(dsk, c, f, s) = m + w * n
  BY DEF Holds
<1> HIDE DEF m, n, w
<1>6. m + w * n \in Nat
  BY <1>4
<1> QED
  BY <1>2, <1>5, <1>6

\* Nobody holds an inode that has no handles.
LEMMA NotHeld ==
  ASSUME NEW dsk, NEW c, NEW f, NEW s, Holds(dsk, c, f, s) <= 0
  PROVE  \A p \in Procs : c[p] # s /\ s \notin f[p]
<1> DEFINE m == Cardinality(Dwellers(c, s))
           n == Cardinality(Owners(f, s))
<1>1. m \in Nat /\ n \in Nat /\ WeightIn(dsk, s) \in {1, 2}
  BY HoldersFinite DEF WeightIn
<1>2. Holds(dsk, c, f, s) = m + WeightIn(dsk, s) * n
  BY DEF Holds
<1>3. m = 0 /\ n = 0
  <2> HIDE DEF m, n
  <2>1. CASE WeightIn(dsk, s) = 1
    BY <1>1, <1>2, <2>1
  <2>2. CASE WeightIn(dsk, s) = 2
    BY <1>1, <1>2, <2>2
  <2> QED
    BY <1>1, <2>1, <2>2
<1>4. Dwellers(c, s) = {} /\ Owners(f, s) = {}
  BY <1>3, HoldersFinite, FS_EmptySet
<1> QED
  BY <1>4 DEF Dwellers, Owners

\* A set that loses one of its elements.
LEMMA OneLess ==
  ASSUME NEW S, NEW x \in S, IsFiniteSet(S)
  PROVE  Cardinality(S \ {x}) = Cardinality(S) - 1
BY FS_RemoveElement

\* A process that changes its directory.
LEMMA Moves ==
  ASSUME NEW dsk, NEW c, NEW e, NEW f, NEW s, NEW p \in Procs,
         \A q \in Procs \ {p} : e[q] = s <=> c[q] = s
  PROVE  /\ e[p] = s /\ c[p] # s => Holds(dsk, e, f, s) = Holds(dsk, c, f, s) + 1
         /\ (e[p] = s <=> c[p] = s) => Holds(dsk, e, f, s) = Holds(dsk, c, f, s)
<1> DEFINE w == WeightIn(dsk, s) * Cardinality(Owners(f, s))
<1>1. Holds(dsk, e, f, s) = Cardinality(Dwellers(e, s)) + w
      /\ Holds(dsk, c, f, s) = Cardinality(Dwellers(c, s)) + w
  BY DEF Holds
<1>2. w \in Nat
  <2>1. WeightIn(dsk, s) \in {1, 2} /\ Cardinality(Owners(f, s)) \in Nat
    BY HoldersFinite DEF WeightIn
  <2> DEFINE n == Cardinality(Owners(f, s))
  <2>2. n \in Nat /\ (WeightIn(dsk, s) = 1 \/ WeightIn(dsk, s) = 2)
    BY <2>1
  <2> HIDE DEF n
  <2>3. WeightIn(dsk, s) * n \in Nat
    BY <2>2
  <2> QED
    BY <2>3 DEF n
<1>3. Cardinality(Dwellers(c, s)) \in Nat /\ IsFiniteSet(Dwellers(c, s))
  BY HoldersFinite
<1>4. Cardinality(Dwellers(e, s)) = Cardinality(Dwellers(c, s))
         + (IF e[p] = s THEN 1 ELSE 0) - (IF c[p] = s THEN 1 ELSE 0)
  <2>1. CASE e[p] = s /\ c[p] # s
    <3>1. Dwellers(e, s) = Dwellers(c, s) \union {p} /\ p \notin Dwellers(c, s)
      BY <2>1 DEF Dwellers
    <3>2. Cardinality(Dwellers(e, s)) = Cardinality(Dwellers(c, s)) + 1
      BY <1>3, <3>1, FS_AddElement
    <3> QED
      BY <1>3, <2>1, <3>2
  <2>2. CASE e[p] # s /\ c[p] = s
    <3>1. Dwellers(e, s) = Dwellers(c, s) \ {p} /\ p \in Dwellers(c, s)
      BY <2>2 DEF Dwellers
    <3>2. Cardinality(Dwellers(e, s)) = Cardinality(Dwellers(c, s)) - 1
      BY <1>3, <3>1, OneLess
    <3> QED
      BY <1>3, <2>2, <3>2
  <2>3. CASE e[p] = s <=> c[p] = s
    <3>1. Dwellers(e, s) = Dwellers(c, s)
      BY <2>3 DEF Dwellers
    <3> QED
      BY <1>3, <2>3, <3>1
  <2> QED
    BY <2>1, <2>2, <2>3
<1> HIDE DEF w
<1>5. Holds(dsk, e, f, s)
        = Holds(dsk, c, f, s) + (IF e[p] = s THEN 1 ELSE 0) - (IF c[p] = s THEN 1 ELSE 0)
  BY <1>1, <1>2, <1>3, <1>4
<1>6. Holds(dsk, c, f, s) \in Nat
  BY HoldersFinite
<1> QED
  BY <1>5, <1>6

\* A process whose descriptors change.
LEMMA Redescribes ==
  ASSUME NEW dsk, NEW c, NEW f, NEW g, NEW s, NEW p \in Procs,
         \A q \in Procs \ {p} : s \in g[q] <=> s \in f[q]
  PROVE  /\ s \in g[p] /\ s \notin f[p]
              => Holds(dsk, c, g, s) = Holds(dsk, c, f, s) + WeightIn(dsk, s)
         /\ (s \in g[p] <=> s \in f[p]) => Holds(dsk, c, g, s) = Holds(dsk, c, f, s)
<1> DEFINE m == Cardinality(Dwellers(c, s))
           k == Cardinality(Owners(g, s))
           n == Cardinality(Owners(f, s))
           w == WeightIn(dsk, s)
<1>1. Holds(dsk, c, g, s) = m + w * k /\ Holds(dsk, c, f, s) = m + w * n
  BY DEF Holds
<1>2. m \in Nat /\ n \in Nat /\ k \in Nat /\ (w = 1 \/ w = 2)
  BY HoldersFinite DEF WeightIn
<1>0. IsFiniteSet(Owners(f, s)) /\ Cardinality(Owners(f, s)) \in Nat
  BY HoldersFinite
<1>3. k = n + (IF s \in g[p] THEN 1 ELSE 0) - (IF s \in f[p] THEN 1 ELSE 0)
  <2>1. CASE s \in g[p] /\ s \notin f[p]
    <3>1. Owners(g, s) = Owners(f, s) \union {p} /\ p \notin Owners(f, s)
      BY <2>1 DEF Owners
    <3>2. Cardinality(Owners(g, s)) = Cardinality(Owners(f, s)) + 1
      BY <1>0, <3>1, FS_AddElement
    <3> QED
      BY <1>0, <2>1, <3>2
  <2>2. CASE s \notin g[p] /\ s \in f[p]
    <3>1. Owners(g, s) = Owners(f, s) \ {p} /\ p \in Owners(f, s)
      BY <2>2 DEF Owners
    <3>2. Cardinality(Owners(g, s)) = Cardinality(Owners(f, s)) - 1
      BY <1>0, <3>1, OneLess
    <3> QED
      BY <1>0, <2>2, <3>2
  <2>3. CASE s \in g[p] <=> s \in f[p]
    <3>1. Owners(g, s) = Owners(f, s)
      BY <2>3 DEF Owners
    <3> QED
      BY <1>2, <2>3, <3>1
  <2> QED
    BY <2>1, <2>2, <2>3
<1> HIDE DEF m, k, n, w
<1>4. Holds(dsk, c, g, s) = Holds(dsk, c, f, s) + (IF s \in g[p] THEN w ELSE 0)
                                          - (IF s \in f[p] THEN w ELSE 0)
  <2>1. CASE w = 1
    BY <1>1, <1>2, <1>3, <2>1
  <2>2. CASE w = 2
    BY <1>1, <1>2, <1>3, <2>2
  <2> QED
    BY <1>2, <2>1, <2>2
<1>5. Holds(dsk, c, f, s) \in Nat /\ w \in Nat
  BY <1>2, HoldersFinite
<1> QED
  BY <1>4, <1>5 DEF w

-------------------------------------------------------------------------------
(* The inodes that a call opens and closes. *)

\* Openers of s after a call.
Left(opens, closes, s) == inode[s].open_cnt + opens[s] - closes[s]
Doomed(removes, s) == inode[s].removed \/ s \in removes
Gone(opens, closes, s) == closes[s] > 0 /\ Left(opens, closes, s) <= 0

LEMMA SettleEffect ==
  ASSUME NEW dsk, NEW opens, NEW closes, NEW removes,
         Settled(dsk, opens, closes, removes)
  PROVE  /\ disk' = [s \in Sector |->
                      IF Gone(opens, closes, s) /\ Doomed(removes, s) THEN None ELSE dsk[s]]
         /\ inode' = [s \in Sector |->
                       IF Gone(opens, closes, s) THEN Closed
                       ELSE [open_cnt |-> Left(opens, closes, s),
                             removed |-> Doomed(removes, s) /\ Left(opens, closes, s) > 0]]
         /\ stray' \in BOOLEAN
         /\ ~stray' => \A s \in Sector :
                         Gone(opens, closes, s)
                           => /\ ~(Left(opens, closes, s) < 0)
                              /\ ~(Holds(disk, cwd', fds', s) > 0)
<1> DEFINE count(s) == inode[s].open_cnt + opens[s] - closes[s]
           removed(s) == inode[s].removed \/ s \in removes
           gone == {s \in Sector : closes[s] > 0 /\ count(s) <= 0}
<1>1. /\ disk' = [s \in Sector |-> IF s \in gone /\ removed(s) THEN None ELSE dsk[s]]
      /\ inode' = [s \in Sector |->
                    IF s \in gone THEN Closed
                    ELSE [open_cnt |-> count(s), removed |-> removed(s) /\ count(s) > 0]]
      /\ stray' = \E s \in gone : count(s) < 0 \/ Holds(disk, cwd', fds', s) > 0
  BY HandlesAreHolds DEF Settled
<1>2. \A s \in Sector : /\ s \in gone <=> Gone(opens, closes, s)
                        /\ count(s) = Left(opens, closes, s)
                        /\ removed(s) = Doomed(removes, s)
  BY DEF Gone, Left, Doomed
<1>3. \A s \in gone : s \in Sector
  OBVIOUS
<1> HIDE DEF count, removed, gone
<1>4. disk' = [s \in Sector |->
                IF Gone(opens, closes, s) /\ Doomed(removes, s) THEN None ELSE dsk[s]]
  BY <1>1, <1>2
<1>5. inode' = [s \in Sector |->
                 IF Gone(opens, closes, s) THEN Closed
                 ELSE [open_cnt |-> Left(opens, closes, s),
                       removed |-> Doomed(removes, s) /\ Left(opens, closes, s) > 0]]
  BY <1>1, <1>2
<1>6. ~stray' => \A s \in Sector : Gone(opens, closes, s)
                   => ~(Left(opens, closes, s) < 0) /\ ~(Holds(disk, cwd', fds', s) > 0)
  BY <1>1, <1>2
<1>7. stray' \in BOOLEAN
  BY <1>1
<1> QED
  BY <1>4, <1>5, <1>6, <1>7

\* Openers are counted in naturals, whatever a call opens and closes.
LEMMA SettleTypes ==
  ASSUME TypeOK, NEW dsk \in Disks, NEW opens \in [Sector -> Nat],
         NEW closes \in [Sector -> Nat], NEW removes \in SUBSET Sector,
         Settled(dsk, opens, closes, removes)
  PROVE  disk' \in Disks /\ inode' \in [Sector -> Opened] /\ stray' \in BOOLEAN
<1>1. ASSUME NEW s \in Sector
      PROVE  /\ inode[s].open_cnt \in Nat /\ Left(opens, closes, s) \in Int
             /\ ~Gone(opens, closes, s) => Left(opens, closes, s) \in Nat
  <2> DEFINE n == inode[s].open_cnt
             o == opens[s]
             k == closes[s]
  <2>1. n \in Nat /\ o \in Nat /\ k \in Nat
    BY DEF TypeOK, Opened
  <2>2. Left(opens, closes, s) = n + o - k /\ (Gone(opens, closes, s) <=> k > 0 /\ n + o - k <= 0)
    BY DEF Left, Gone
  <2> HIDE DEF n, o, k
  <2>3. n + o - k \in Int /\ (~(k > 0 /\ n + o - k <= 0) => n + o - k \in Nat)
    BY <2>1
  <2> QED
    BY <2>1, <2>2, <2>3 DEF n
<1>2. disk' \in Disks
  BY SettleEffect DEF Disks
<1>3. inode' \in [Sector -> Opened]
  <2>1. Closed \in Opened
    BY DEF Closed, Opened
  <2>2. ASSUME NEW s \in Sector, ~Gone(opens, closes, s)
        PROVE  [open_cnt |-> Left(opens, closes, s),
                removed |-> Doomed(removes, s) /\ Left(opens, closes, s) > 0] \in Opened
    BY <1>1, <2>2 DEF Opened
  <2> QED
    BY SettleEffect, <2>1, <2>2
<1> QED
  BY <1>2, <1>3, SettleEffect

\* dsk differs from disk in the entries of directories only.
SameInodes(dsk) ==
  \A s \in Sector : /\ dsk[s] # None <=> disk[s] # None
                    /\ dsk[s].is_dir = disk[s].is_dir

\* What a call must have seen to, for the invariant to hold when it has closed
\* what it has to close: the tree is as it should be and does not lead to an
\* inode that is to go, what processes hold then is there, and what is opened
\* and closed is what they have got and given up.
LEMMA SettleKeeps ==
  ASSUME TypeOK, Marks, NEW dsk \in Disks, NEW opens \in [Sector -> Nat],
         NEW closes \in [Sector -> Nat], NEW removes \in SUBSET Sector,
         Settled(dsk, opens, closes, removes), ~stray', NEW rb \in SUBSET Sector, Robbed(rb),
         cwd' \in [Procs -> Sector \union {None}], fds' \in [Procs -> SUBSET Sector],
         SameInodes(dsk), Tree(dsk), Held(dsk, cwd', fds'),
         \A s \in Sector : Doomed(removes, s) => Unlisted(dsk, s),
         \A s \in removes : closes[s] > 0,
         \A s \in rb : s \in robbed \/ closes[s] > 0,
         \A s \in Sector : opens[s] > 0 => disk[s] # None,
         \A s \in Sector :
           disk[s] # None => Covered(disk, cwd', fds', rb, s, Left(opens, closes, s),
                                     Doomed(removes, s))
  PROVE  /\ Tree(disk') /\ Marks' /\ Held(disk', cwd', fds') /\ Counts'
         /\ \A s \in Sector : disk'[s] = dsk[s] \/ disk'[s] = None
<1> DEFINE gone(s) == Gone(opens, closes, s)
           left(s) == Left(opens, closes, s)
           doomed(s) == Doomed(removes, s)
<1>1. \A s \in Sector : disk'[s] = IF gone(s) /\ doomed(s) THEN None ELSE dsk[s]
  BY SettleEffect
<1>2. ASSUME NEW s \in Sector
      PROVE  /\ gone(s) => inode'[s].open_cnt = 0 /\ ~inode'[s].removed
             /\ ~gone(s) => /\ inode'[s].open_cnt = left(s)
                            /\ inode'[s].removed <=> doomed(s) /\ left(s) > 0
  <2>1. inode'[s] = IF gone(s) THEN Closed
                    ELSE [open_cnt |-> left(s), removed |-> doomed(s) /\ left(s) > 0]
    BY SettleEffect
  <2> HIDE DEF gone, left, doomed
  <2>2. CASE gone(s)
    BY <2>1, <2>2 DEF Closed
  <2>3. CASE ~gone(s)
    <3> DEFINE b == doomed(s) /\ left(s) > 0
    <3>1. inode'[s] = [open_cnt |-> left(s), removed |-> b]
      BY <2>1, <2>3
    <3> HIDE DEF b
    <3>2. inode'[s].open_cnt = left(s) /\ inode'[s].removed = b
      BY <3>1
    <3> QED
      BY <2>3, <3>2 DEF b
  <2> QED
    BY <2>2, <2>3
<1>3. ASSUME NEW s \in Sector, gone(s)
      PROVE  left(s) = 0 /\ Holds(disk, cwd', fds', s) = 0
  <2>1. ~(left(s) < 0) /\ ~(Holds(disk, cwd', fds', s) > 0)
    BY <1>3, SettleEffect
  <2> DEFINE h == Holds(disk, cwd', fds', s)
             n == left(s)
  <2>2. h \in Nat
    BY HoldersFinite
  <2>3. n \in Int /\ n <= 0
    <3>1. inode[s].open_cnt \in Nat /\ opens[s] \in Nat /\ closes[s] \in Nat
      BY DEF TypeOK, Opened
    <3> QED
      BY <1>3, <3>1 DEF Gone, Left
  <2> HIDE DEF h, n
  <2>4. n = 0 /\ h = 0
    BY <2>1, <2>2, <2>3 DEF h, n
  <2> QED
    BY <2>4 DEF h, n
<1>4. ASSUME NEW s \in Sector
      PROVE  /\ disk'[s] # None => disk'[s] = dsk[s] /\ dsk[s] # None
             /\ dsk[s] # None /\ disk'[s] = None => gone(s) /\ doomed(s)
  BY <1>1
<1>5. ASSUME NEW s \in Sector, NEW i \in Nat, InUse(disk', s, i)
      PROVE  /\ InUse(dsk, s, i) /\ To(disk', s, i) = To(dsk, s, i)
             /\ Name(disk', s, i) = Name(dsk, s, i)
  BY <1>4, <1>5 DEF InUse, To, Name
<1> HIDE DEF gone, left, doomed
<1>6. ASSUME NEW s \in Sector PROVE Unlisted(dsk, s) => Unlisted(disk', s)
  BY <1>5 DEF Unlisted
<1>7. Tree(disk')
  <2>1. Leads(disk')
    <3> SUFFICES ASSUME NEW s \in Sector, NEW i \in Nat, InUse(disk', s, i)
                 PROVE  /\ To(disk', s, i) \in Sector \ {ROOT_DIR_SECTOR}
                        /\ disk'[To(disk', s, i)] # None
      BY DEF Leads
    <3>1. InUse(dsk, s, i) /\ To(disk', s, i) = To(dsk, s, i)
      BY <1>5
    <3>2. /\ To(dsk, s, i) \in Sector \ {ROOT_DIR_SECTOR} /\ dsk[To(dsk, s, i)] # None
          /\ ~Unlisted(dsk, To(dsk, s, i))
      BY <3>1 DEF Tree, Leads, Unlisted
    <3> QED
      BY <1>4, <3>1, <3>2 DEF doomed
  <2>2. Alone(disk')
    BY <1>5 DEF Tree, Alone
  <2>3. Distinct(disk')
    BY <1>5 DEF Tree, Distinct
  <2>4. disk'[ROOT_DIR_SECTOR] # None
    BY <1>4, SizesAssumption DEF Tree, Unlisted, doomed, Sector, ROOT_DIR_SECTOR
  <2> QED
    BY <2>1, <2>2, <2>3, <2>4 DEF Tree
<1>8. Held(disk', cwd', fds')
  <2>1. ASSUME NEW p \in Procs, NEW s \in Sector, cwd'[p] = s \/ s \in fds'[p]
        PROVE  ~gone(s)
    <3>1. CASE gone(s)
      <4>1. Holds(disk, cwd', fds', s) <= 0
        BY <1>3, <3>1 DEF gone
      <4> QED
        BY <2>1, <4>1, NotHeld
    <3> QED
      BY <3>1
  <2> QED
    BY <1>4, <2>1 DEF Held
<1>9. ASSUME NEW s \in Sector, ~gone(s) PROVE disk'[s] = dsk[s] /\ left(s) \in Nat
  <2>1. inode[s].open_cnt \in Nat /\ opens[s] \in Nat /\ closes[s] \in Nat
    BY DEF TypeOK, Opened
  <2>2. left(s) \in Nat
    BY <1>9, <2>1 DEF gone, Gone, left, Left
  <2> QED
    BY <1>1, <1>9, <2>2 DEF gone
<1>10. Marks'
  <2> SUFFICES ASSUME NEW s \in Sector
               PROVE  /\ inode'[s].open_cnt > 0 => disk'[s] # None
                      /\ inode'[s].removed => inode'[s].open_cnt > 0 /\ Unlisted(disk', s)
    BY DEF Marks, Robbed
  <2>1. CASE gone(s)
    BY <1>2, <2>1
  <2>2. CASE ~gone(s)
    <3>1. inode'[s].open_cnt = left(s) /\ (inode'[s].removed <=> doomed(s) /\ left(s) > 0)
      BY <1>2, <2>2
    <3>2. doomed(s) => Unlisted(disk', s)
      BY <1>6 DEF doomed
    <3>3. left(s) > 0 => disk[s] # None
      <4>1. inode[s].open_cnt \in Nat /\ opens[s] \in Nat /\ closes[s] \in Nat
        BY DEF TypeOK, Opened
      <4>2. left(s) > 0 => inode[s].open_cnt > 0 \/ opens[s] > 0
        BY <4>1 DEF left, Left
      <4> QED
        BY <4>2 DEF Marks
    <3> QED
      BY <1>9, <2>2, <3>1, <3>2, <3>3 DEF SameInodes
  <2> QED
    BY <2>1, <2>2
<1>11. Counts'
  <2> SUFFICES ASSUME NEW s \in Sector, disk'[s] # None
               PROVE  Covered(disk', cwd', fds', robbed', s, inode'[s].open_cnt,
                              inode'[s].removed)
    BY DEF Counts
  <2>1. disk[s] # None /\ disk'[s].is_dir = disk[s].is_dir
    BY <1>4 DEF SameInodes
  <2>2. Holds(disk', cwd', fds', s) = Holds(disk, cwd', fds', s)
    BY <2>1 DEF Holds, WeightIn
  <2>3. CASE gone(s)
    <3>1. inode'[s].open_cnt = 0 /\ Holds(disk', cwd', fds', s) = 0
      BY <1>2, <1>3, <2>2, <2>3
    <3> QED
      BY <3>1 DEF Covered
  <2>4. CASE ~gone(s)
    <3>1. inode'[s].open_cnt = left(s) /\ (inode'[s].removed <=> doomed(s) /\ left(s) > 0)
      BY <1>2, <2>4
    <3>2. doomed(s) => left(s) > 0
      <4>1. CASE inode[s].removed /\ closes[s] = 0
        <5>1. inode[s].open_cnt \in Nat /\ opens[s] \in Nat /\ inode[s].open_cnt > 0
          BY <4>1 DEF TypeOK, Opened, Marks
        <5> QED
          BY <4>1, <5>1 DEF left, Left
      <4>2. CASE closes[s] > 0
        BY <1>9, <2>4, <4>2 DEF gone, Gone, left
      <4> QED
        BY <4>1, <4>2 DEF doomed, Doomed
    <3>3. Covered(disk, cwd', fds', rb, s, left(s), doomed(s))
      BY <2>1 DEF left, doomed
    <3>4. s \in rb => left(s) > 0
      <4>1. inode[s].open_cnt \in Nat /\ opens[s] \in Nat /\ closes[s] \in Nat
        BY DEF TypeOK, Opened
      <4>2. CASE closes[s] > 0
        BY <1>9, <2>4, <4>2 DEF gone, Gone, left
      <4>3. CASE s \in rb /\ ~(closes[s] > 0)
        <5>1. inode[s].open_cnt > 0
          BY <4>3 DEF Marks
        <5> QED
          BY <4>1, <4>3, <5>1 DEF left, Left
      <4> QED
        BY <4>2, <4>3
    <3>5. s \notin robbed' => s \notin rb
      BY <3>1, <3>4 DEF Robbed
    <3> QED
      BY <2>1, <2>2, <3>1, <3>2, <3>3, <3>5 DEF Covered
  <2> QED
    BY <2>3, <2>4
<1> QED
  BY <1>1, <1>7, <1>8, <1>10, <1>11

\* A listing does not notice that inodes go which nobody holds.
LEMMA ListingStays ==
  ASSUME NEW dsk, NEW new, NEW c, NEW f \in [Procs -> SUBSET Sector], NEW sc,
         Listing(dsk, f, sc), Held(new, c, f),
         \A s \in Sector : new[s] = dsk[s] \/ new[s] = None
  PROVE  Listing(new, f, sc)
<1> SUFFICES ASSUME sc # NoScan PROVE Listing(new, f, sc)
  BY DEF Listing
<1>1. sc.proc \in Procs /\ sc.dir \in f[sc.proc]
  BY DEF Listing
<1>2. sc.dir \in Sector /\ new[sc.dir] # None
  BY <1>1 DEF Held
<1>3. new[sc.dir] = dsk[sc.dir]
  BY <1>2
<1>4. \A i \in Nat : /\ InUse(dsk, sc.dir, i) => InUse(new, sc.dir, i)
                     /\ Name(new, sc.dir, i) = Name(dsk, sc.dir, i)
  BY <1>2, <1>3 DEF InUse, Name
<1> QED
  BY <1>4 DEF Listing

\* SettleKeeps for the whole of the invariant.
LEMMA Settles ==
  ASSUME TypeOK, Marks, NEW dsk \in Disks, NEW opens \in [Sector -> Nat],
         NEW closes \in [Sector -> Nat], NEW removes \in SUBSET Sector,
         Settled(dsk, opens, closes, removes), NEW rb \in SUBSET Sector, Robbed(rb),
         cwd' \in [Procs -> Sector \union {None}], fds' \in [Procs -> SUBSET Sector],
         scan' \in Scans, Listing(dsk, fds', scan'),
         SameInodes(dsk), Tree(dsk), Held(dsk, cwd', fds'),
         \A s \in Sector : Doomed(removes, s) => Unlisted(dsk, s),
         \A s \in removes : closes[s] > 0,
         \A s \in rb : s \in robbed \/ closes[s] > 0,
         \A s \in Sector : opens[s] > 0 => disk[s] # None,
         \A s \in Sector :
           disk[s] # None => Covered(disk, cwd', fds', rb, s, Left(opens, closes, s),
                                     Doomed(removes, s))
  PROVE  DirInv'
<1>1. TypeOK'
  BY SettleTypes DEF TypeOK, Robbed
<1>2. ~stray' => /\ Tree(disk') /\ Marks' /\ Held(disk', cwd', fds') /\ Counts'
                 /\ \A s \in Sector : disk'[s] = dsk[s] \/ disk'[s] = None
  BY SettleKeeps
<1>3. ~stray' => Listing(disk', fds', scan')
  BY <1>2, ListingStays
<1> QED
  BY <1>1, <1>2, <1>3 DEF DirInv

\* Only and Nothing count openers.
LEMMA CountsOpeners ==
  /\ Nothing \in [Sector -> Nat] /\ \A s \in Sector : Nothing[s] = 0
  /\ \A s \in Sector, n \in Nat :
       /\ Only(s, n) \in [Sector -> Nat]
       /\ \A t \in Sector : Only(s, n)[t] = IF t = s THEN n ELSE 0
BY DEF Only, Nothing

\* An inode that as many handles come to, or leave, as openers stays covered.
LEMMA CoveredShifts ==
  ASSUME NEW dsk, NEW c, NEW f, NEW c2, NEW f2, NEW s, NEW n \in Int, NEW k \in Int, NEW rm,
         NEW rb, Covered(dsk, c, f, rb, s, n, rm),
         Holds(dsk, c2, f2, s) = Holds(dsk, c, f, s) + k
  PROVE  Covered(dsk, c2, f2, rb, s, n + k, rm)
<1> DEFINE h == Holds(dsk, c, f, s)
           h2 == Holds(dsk, c2, f2, s)
<1>1. h \in Nat /\ h2 \in Nat /\ h2 = h + k
  BY HoldersFinite
<1>2. /\ s \notin rb => n >= h
      /\ ~(dsk[s].is_dir \/ rm) => n = h
  BY DEF Covered
<1> HIDE DEF h, h2
<1>3. (n >= h => n + k >= h2) /\ (n = h => n + k = h2)
  BY <1>1
<1>4. /\ s \notin rb => n + k >= h2
      /\ ~(dsk[s].is_dir \/ rm) => n + k = h2
  BY <1>2, <1>3
<1> QED
  BY <1>4 DEF Covered, h2

\* The directory that a name is looked up in.
LEMMA Resolved ==
  ASSUME TypeOK, NEW path \in Paths, NEW walk, Resolves(walk, path)
  PROVE  LET d == dir_open_path(walk, path) IN
         d \in Sector /\ disk[d] # None /\ disk[d] \in Inode /\ ~inode[d].removed
<1>1. Len(path[2]) \in Nat
  BY PathsAssumption
<1>2. walk[Len(path[2])] \in used
  BY <1>1 DEF Resolves
<1> QED
  BY <1>2 DEF Resolves, dir_open_path, used, TypeOK, Disks

\* Settles for a call that writes no entry.
LEMMA SettlesWithin ==
  ASSUME DirInv, ~stray, NEW opens \in [Sector -> Nat], NEW closes \in [Sector -> Nat],
         Settled(disk, opens, closes, {}), NEW rb \in SUBSET Sector, Robbed(rb),
         cwd' \in [Procs -> Sector \union {None}], fds' \in [Procs -> SUBSET Sector],
         scan' \in Scans, Listing(disk, fds', scan'), Held(disk, cwd', fds'),
         \A s \in Sector : opens[s] > 0 => disk[s] # None,
         \A s \in rb : s \in robbed \/ closes[s] > 0,
         \A s \in Sector :
           disk[s] # None => Covered(disk, cwd', fds', rb, s, Left(opens, closes, s),
                                     inode[s].removed)
  PROVE  DirInv'
<1>1. TypeOK /\ Marks /\ Tree(disk) /\ disk \in Disks
  BY DEF DirInv, TypeOK
<1>2. SameInodes(disk)
  BY DEF SameInodes
<1>3. \A s \in Sector : Doomed({}, s) <=> inode[s].removed
  BY DEF Doomed
<1>4. \A s \in Sector : Doomed({}, s) => Unlisted(disk, s)
  BY <1>1, <1>3 DEF Marks
<1>5. \A s \in Sector :
        disk[s] # None => Covered(disk, cwd', fds', rb, s, Left(opens, closes, s),
                                  Doomed({}, s))
  BY <1>3 DEF Covered
<1>6. /\ {} \in SUBSET Sector
      /\ \A s \in {} : closes[s] > 0
  OBVIOUS
<1> QED
  BY <1>1, <1>2, <1>4, <1>5, <1>6, Settles

\* And robs no directory.
LEMMA SettlesHere ==
  ASSUME DirInv, ~stray, NEW opens \in [Sector -> Nat], NEW closes \in [Sector -> Nat],
         Settle(disk, opens, closes, {}),
         cwd' \in [Procs -> Sector \union {None}], fds' \in [Procs -> SUBSET Sector],
         scan' \in Scans, Listing(disk, fds', scan'), Held(disk, cwd', fds'),
         \A s \in Sector : opens[s] > 0 => disk[s] # None,
         \A s \in Sector :
           disk[s] # None => Covered(disk, cwd', fds', robbed, s, Left(opens, closes, s),
                                     inode[s].removed)
  PROVE  DirInv'
<1>1. robbed \in SUBSET Sector
  BY DEF DirInv, TypeOK
<1>2. Settled(disk, opens, closes, {}) /\ Robbed(robbed)
  BY DEF Settle
<1>3. \A s \in robbed : s \in robbed \/ closes[s] > 0
  OBVIOUS
<1> QED
  BY <1>1, <1>2, <1>3, SettlesWithin

-------------------------------------------------------------------------------
(* The calls. *)

LEMMA CloseKeeps ==
  ASSUME DirInv, NEW p \in Procs, NEW s \in Sector, sys_close(p, s)
  PROVE  DirInv'
<1> DEFINE closes == Only(s, Weight(s))
<1>1. /\ ~stray /\ s \in fds[p] /\ cwd' = cwd
      /\ fds' = [fds EXCEPT ![p] = fds[p] \ {s}]
      /\ scan' = IF scan.proc = p /\ scan.dir = s THEN NoScan ELSE scan
      /\ Settle(disk, Nothing, closes, {})
  BY DEF sys_close
<1>2. /\ disk \in Disks /\ cwd \in [Procs -> Sector \union {None}]
      /\ fds \in [Procs -> SUBSET Sector] /\ scan \in Scans
  BY DEF DirInv, TypeOK
<1>3. fds' \in [Procs -> SUBSET Sector] /\ fds[p] \ {s} \in SUBSET Sector
  BY <1>1, <1>2
<1>4. scan' \in Scans
  BY <1>1, <1>2 DEF Scans, NoScan
<1>5. Listing(disk, fds', scan')
  <2> SUFFICES ASSUME scan' # NoScan PROVE Listing(disk, fds', scan')
    BY DEF Listing
  <2>1. scan' = scan /\ ~(scan.proc = p /\ scan.dir = s) /\ Listing(disk, fds, scan)
    BY <1>1 DEF DirInv
  <2>2. scan.proc \in Procs /\ scan.dir \in fds[scan.proc]
    BY <2>1 DEF Listing
  <2>3. scan.dir \in fds'[scan.proc]
    BY <1>1, <1>2, <2>1, <2>2
  <2> QED
    BY <2>1, <2>3 DEF Listing
<1>6. Held(disk, cwd', fds')
  <2>1. Held(disk, cwd, fds)
    BY <1>1 DEF DirInv
  <2> QED
    BY <1>1, <1>2, <2>1 DEF Held
<1>7. Weight(s) \in Nat /\ Nothing \in [Sector -> Nat] /\ closes \in [Sector -> Nat]
  BY CountsOpeners DEF Weight
<1>8. \A t \in Sector : Nothing[t] > 0 => disk[t] # None
  BY CountsOpeners
<1>9. ASSUME NEW t \in Sector, disk[t] # None
      PROVE  Covered(disk, cwd', fds', robbed, t, Left(Nothing, closes, t), inode[t].removed)
  <2> DEFINE k == IF t = s THEN 0 - Weight(s) ELSE 0
             n == inode[t].open_cnt
  <2>1. Covered(disk, cwd, fds, robbed, t, n, inode[t].removed)
    BY <1>1, <1>9 DEF DirInv, Counts
  <2>2. n \in Int /\ k \in Int
    BY <1>7 DEF DirInv, TypeOK, Opened
  <2>3. Left(Nothing, closes, t) = n + k
    BY <1>7, <2>2, CountsOpeners DEF Left
  <2>4. Holds(disk, cwd', fds', t) = Holds(disk, cwd, fds, t) + k
    <3>1. /\ \A q \in Procs \ {p} : t \in fds[q] <=> t \in fds'[q]
          /\ t = s => t \in fds[p] /\ t \notin fds'[p]
          /\ t # s => (t \in fds[p] <=> t \in fds'[p])
      BY <1>1, <1>2
    <3>2. /\ t = s => Holds(disk, cwd, fds, t) = Holds(disk, cwd, fds', t) + WeightIn(disk, t)
          /\ t # s => Holds(disk, cwd, fds', t) = Holds(disk, cwd, fds, t)
      BY <3>1, Redescribes
    <3>3. Holds(disk, cwd, fds, t) \in Nat /\ Holds(disk, cwd, fds', t) \in Nat
          /\ WeightIn(disk, t) = Weight(t)
          /\ Weight(t) \in Nat
      BY HoldersFinite DEF WeightIn, Weight
    <3> QED
      BY <1>1, <3>2, <3>3
  <2> HIDE DEF k, n
  <2> QED
    BY <2>1, <2>2, <2>3, <2>4, CoveredShifts DEF n
<1> HIDE DEF closes
<1> QED
  BY <1>1, <1>2, <1>3, <1>4, <1>5, <1>6, <1>7, <1>8, <1>9, SettlesHere

LEMMA OpenKeeps ==
  ASSUME DirInv, NEW p \in Procs, NEW path \in Paths, NEW n, filesys_open(p, path, n)
  PROVE  DirInv'
<1> DEFINE d == dir_open_path(Walk(p, path), path)
           s == IF n = None THEN d ELSE dir_lookup(d, n)
<1>1. /\ ~stray /\ s \in used /\ s \notin fds[p] /\ scan' = scan
      /\ IF inode[s].removed
           THEN Settle(disk, Only(s, 1), Nothing, {}) /\ cwd' = cwd /\ fds' = fds
           ELSE /\ cwd' = cwd /\ fds' = [fds EXCEPT ![p] = fds[p] \union {s}]
                /\ Settle(disk, Only(s, Weight(s)), Nothing, {})
  BY DEF filesys_open
<1> HIDE DEF s
<1>2. /\ cwd \in [Procs -> Sector \union {None}] /\ fds \in [Procs -> SUBSET Sector]
      /\ scan \in Scans /\ Held(disk, cwd, fds) /\ Listing(disk, fds, scan)
  BY <1>1 DEF DirInv, TypeOK
<1>3. s \in Sector /\ disk[s] # None
  BY <1>1 DEF used
<1> DEFINE w == IF inode[s].removed THEN 1 ELSE Weight(s)
           opens == Only(s, w)
<1>4. Settle(disk, opens, Nothing, {}) /\ cwd' = cwd /\ fds' \in [Procs -> SUBSET Sector]
  BY <1>1, <1>2, <1>3
<1>5. w \in Nat /\ Weight(s) \in Nat /\ Nothing \in [Sector -> Nat] /\ opens \in [Sector -> Nat]
  BY <1>3, CountsOpeners DEF Weight
<1>6. \A t \in Sector : opens[t] = (IF t = s THEN w ELSE 0) /\ Nothing[t] = 0
  BY <1>3, <1>5, CountsOpeners
<1>7. \A t \in Sector : opens[t] > 0 => disk[t] # None
  BY <1>3, <1>6
<1>8. \A q \in Procs : fds'[q] \subseteq fds[q] \union {s} /\ fds[q] \subseteq fds'[q]
  BY <1>1, <1>2
<1>9. Held(disk, cwd', fds') /\ Listing(disk, fds', scan')
  BY <1>1, <1>2, <1>3, <1>4, <1>8 DEF Held, Listing
<1>10. ASSUME NEW t \in Sector, disk[t] # None
       PROVE  Covered(disk, cwd', fds', robbed, t, Left(opens, Nothing, t), inode[t].removed)
  <2> DEFINE m == inode[t].open_cnt
             k == IF t = s THEN w ELSE 0
  <2>1. Covered(disk, cwd, fds, robbed, t, m, inode[t].removed) /\ m \in Nat
    BY <1>1, <1>10 DEF DirInv, Counts, TypeOK, Opened
  <2>2. Left(opens, Nothing, t) = m + k /\ k \in Nat
    BY <1>5, <1>6, <2>1 DEF Left
  <2>3. CASE inode[s].removed
    <3>1. Holds(disk, cwd', fds', t) = Holds(disk, cwd, fds, t)
      BY <1>1, <2>3
    <3> DEFINE h == Holds(disk, cwd, fds, t)
    <3>2. h \in Nat
      BY HoldersFinite
    <3>3. CASE t = s
      <4>1. t \notin robbed => m >= h
        BY <2>1 DEF Covered
      <4> HIDE DEF h, m, k
      <4>2. t \notin robbed => m + k >= h
        BY <2>1, <2>2, <3>2, <4>1
      <4>3. Covered(disk, cwd', fds', robbed, t, m + k, inode[t].removed)
        BY <2>3, <3>1, <3>3, <4>2 DEF Covered, h
      <4> QED
        BY <2>2, <4>3
    <3>4. CASE t # s
      BY <2>1, <2>2, <3>1, <3>4 DEF Covered
    <3> QED
      BY <3>3, <3>4
  <2>4. CASE ~inode[s].removed
    <3>1. /\ \A q \in Procs \ {p} : t \in fds'[q] <=> t \in fds[q]
          /\ t = s => t \in fds'[p] /\ t \notin fds[p]
          /\ t # s => (t \in fds'[p] <=> t \in fds[p])
      BY <1>1, <1>2, <2>4
    <3>2. /\ t = s => Holds(disk, cwd, fds', t) = Holds(disk, cwd, fds, t) + WeightIn(disk, t)
          /\ t # s => Holds(disk, cwd, fds', t) = Holds(disk, cwd, fds, t)
      BY <3>1, Redescribes
    <3>3. Holds(disk, cwd, fds, t) \in Nat /\ WeightIn(disk, t) = Weight(t)
      BY HoldersFinite DEF WeightIn, Weight
    <3>4. Holds(disk, cwd', fds', t) = Holds(disk, cwd, fds, t) + k
      BY <1>4, <2>4, <3>2, <3>3
    <3> HIDE DEF k, m
    <3> QED
      BY <2>1, <2>2, <3>4, CoveredShifts
  <2> QED
    BY <2>3, <2>4
<1> HIDE DEF opens
<1> QED
  BY <1>1, <1>2, <1>4, <1>5, <1>7, <1>9, <1>10, SettlesHere

LEMMA ChdirKeeps ==
  ASSUME DirInv, NEW p \in Procs, NEW path \in Paths, filesys_chdir(p, path)
  PROVE  DirInv'
<1> DEFINE walk == Walk(p, path)
           d == dir_open_path(walk, path)
           o == cwd[p]
<1>1. /\ ~stray /\ o # None /\ Resolves(walk, path) /\ fds' = fds /\ scan' = scan
      /\ cwd' = [cwd EXCEPT ![p] = d]
      /\ Settle(disk, Only(d, 1), Only(o, 1), {})
  BY DEF filesys_chdir, Replaced
<1>2. d \in Sector /\ disk[d] # None
  BY <1>1, Resolved DEF DirInv
<1> HIDE DEF walk, d
<1>3. /\ cwd \in [Procs -> Sector \union {None}] /\ fds \in [Procs -> SUBSET Sector]
      /\ scan \in Scans /\ Held(disk, cwd, fds) /\ Listing(disk, fds, scan)
  BY <1>1 DEF DirInv, TypeOK
<1>4. o \in Sector /\ cwd' \in [Procs -> Sector \union {None}]
  BY <1>1, <1>2, <1>3
<1>5. Only(d, 1) \in [Sector -> Nat] /\ Only(o, 1) \in [Sector -> Nat]
      /\ \A t \in Sector : /\ Only(d, 1)[t] = IF t = d THEN 1 ELSE 0
                           /\ Only(o, 1)[t] = IF t = o THEN 1 ELSE 0
  <2> HIDE DEF o
  <2>1. \A x \in Sector : /\ Only(x, 1) \in [Sector -> Nat]
                          /\ \A t \in Sector : Only(x, 1)[t] = IF t = x THEN 1 ELSE 0
    BY CountsOpeners
  <2> QED
    BY <1>2, <1>4, <2>1
<1>6. \A t \in Sector : Only(d, 1)[t] > 0 => disk[t] # None
  BY <1>2, <1>5
<1>7. Held(disk, cwd', fds') /\ Listing(disk, fds', scan')
  BY <1>1, <1>2, <1>3 DEF Held
<1>8. ASSUME NEW t \in Sector, disk[t] # None
      PROVE  Covered(disk, cwd', fds', robbed, t, Left(Only(d, 1), Only(o, 1), t), inode[t].removed)
  <2> DEFINE m == inode[t].open_cnt
             k == (IF t = d THEN 1 ELSE 0) - (IF t = o THEN 1 ELSE 0)
  <2>1. Covered(disk, cwd, fds, robbed, t, m, inode[t].removed) /\ m \in Nat
    BY <1>1, <1>8 DEF DirInv, Counts, TypeOK, Opened
  <2>2. Left(Only(d, 1), Only(o, 1), t) = m + k /\ k \in Int
    BY <1>5, <2>1 DEF Left
  <2>3. /\ \A q \in Procs \ {p} : cwd'[q] = t <=> cwd[q] = t
        /\ \A q \in Procs \ {p} : cwd[q] = t <=> cwd'[q] = t
        /\ cwd'[p] = d /\ cwd[p] = o
    BY <1>1, <1>3
  <2>4. /\ t = d /\ t # o => Holds(disk, cwd', fds, t) = Holds(disk, cwd, fds, t) + 1
        /\ t # d /\ t = o => Holds(disk, cwd, fds, t) = Holds(disk, cwd', fds, t) + 1
        /\ (t = d <=> t = o) => Holds(disk, cwd', fds, t) = Holds(disk, cwd, fds, t)
    <3> HIDE DEF o
    <3> QED
      BY <2>3, Moves
  <2>5. Holds(disk, cwd, fds, t) \in Nat /\ Holds(disk, cwd', fds, t) \in Nat
    BY HoldersFinite
  <2>6. Holds(disk, cwd', fds', t) = Holds(disk, cwd, fds, t) + k
    BY <1>1, <2>4, <2>5
  <2> HIDE DEF k, m
  <2> QED
    BY <2>1, <2>2, <2>6, CoveredShifts
<1> QED
  BY <1>1, <1>3, <1>4, <1>5, <1>6, <1>7, <1>8, SettlesHere

LEMMA StartKeeps ==
  ASSUME DirInv, NEW q \in Procs, start_process(q)
  PROVE  DirInv'
<1>1. ~stray /\ cwd[q] = None /\ scan' = scan
  BY DEF start_process
<1>2. PICK d \in Sector :
        /\ IF \A p \in Procs : cwd[p] = None THEN d = ROOT_DIR_SECTOR
           ELSE \E p \in Procs : cwd[p] = d
        /\ cwd' = [cwd EXCEPT ![q] = d] /\ fds' = fds
        /\ Settle(disk, Only(d, 1), Nothing, {})
  BY DEF start_process
<1>3. /\ cwd \in [Procs -> Sector \union {None}] /\ fds \in [Procs -> SUBSET Sector]
      /\ scan \in Scans /\ Held(disk, cwd, fds) /\ Listing(disk, fds, scan) /\ Tree(disk)
  BY <1>1 DEF DirInv, TypeOK
<1>4. d # None
  BY NoneAssumption, SizesAssumption DEF Sector
<1>5. disk[d] # None
  BY <1>2, <1>3, <1>4 DEF Held, Tree
<1>6. cwd' \in [Procs -> Sector \union {None}]
  BY <1>2, <1>3
<1>7. /\ Only(d, 1) \in [Sector -> Nat] /\ Nothing \in [Sector -> Nat]
      /\ \A t \in Sector : Only(d, 1)[t] = (IF t = d THEN 1 ELSE 0) /\ Nothing[t] = 0
  BY CountsOpeners
<1>8. \A t \in Sector : Only(d, 1)[t] > 0 => disk[t] # None
  BY <1>5, <1>7
<1>9. Held(disk, cwd', fds') /\ Listing(disk, fds', scan')
  BY <1>1, <1>2, <1>3, <1>5 DEF Held
<1>10. ASSUME NEW t \in Sector, disk[t] # None
       PROVE  Covered(disk, cwd', fds', robbed, t, Left(Only(d, 1), Nothing, t), inode[t].removed)
  <2> DEFINE m == inode[t].open_cnt
             k == IF t = d THEN 1 ELSE 0
  <2>1. Covered(disk, cwd, fds, robbed, t, m, inode[t].removed) /\ m \in Nat
    BY <1>1, <1>10 DEF DirInv, Counts, TypeOK, Opened
  <2>2. Left(Only(d, 1), Nothing, t) = m + k /\ k \in Int
    BY <1>7, <2>1 DEF Left
  <2>3. /\ \A p \in Procs \ {q} : cwd'[p] = t <=> cwd[p] = t
        /\ cwd'[q] = d /\ cwd[q] # t
    BY <1>1, <1>2, <1>3, NoneAssumption, SizesAssumption DEF Sector
  <2>4. /\ t = d => Holds(disk, cwd', fds, t) = Holds(disk, cwd, fds, t) + 1
        /\ t # d => Holds(disk, cwd', fds, t) = Holds(disk, cwd, fds, t)
    BY <2>3, Moves
  <2>5. Holds(disk, cwd, fds, t) \in Nat
    BY HoldersFinite
  <2>6. Holds(disk, cwd', fds', t) = Holds(disk, cwd, fds, t) + k
    BY <1>2, <2>4, <2>5
  <2> HIDE DEF k, m
  <2> QED
    BY <2>1, <2>2, <2>6, CoveredShifts
<1> QED
  BY <1>1, <1>2, <1>3, <1>6, <1>7, <1>8, <1>9, <1>10, SettlesHere

LEMMA ExitKeeps ==
  ASSUME DirInv, NEW p \in Procs, process_exit(p)
  PROVE  DirInv'
<1> DEFINE closes == [s \in Sector |-> (IF s \in fds[p] THEN 1 ELSE 0)
                                         + (IF cwd[p] = s THEN 1 ELSE 0)]
<1>1. /\ ~stray /\ cwd[p] # None
      /\ cwd' = [cwd EXCEPT ![p] = None] /\ fds' = [fds EXCEPT ![p] = {}]
      /\ scan' = IF scan.proc = p THEN NoScan ELSE scan
      /\ Settle(disk, Nothing, closes, {})
  BY DEF process_exit, Emptied
<1>2. /\ cwd \in [Procs -> Sector \union {None}] /\ fds \in [Procs -> SUBSET Sector]
      /\ scan \in Scans /\ Held(disk, cwd, fds) /\ Listing(disk, fds, scan)
  BY <1>1 DEF DirInv, TypeOK
<1>3. cwd' \in [Procs -> Sector \union {None}] /\ fds' \in [Procs -> SUBSET Sector]
  BY <1>1, <1>2
<1>4. scan' \in Scans
  BY <1>1, <1>2 DEF Scans, NoScan
<1>5. Listing(disk, fds', scan')
  <2> SUFFICES ASSUME scan' # NoScan PROVE Listing(disk, fds', scan')
    BY DEF Listing
  <2>1. scan' = scan /\ scan.proc # p
    BY <1>1
  <2>2. scan.proc \in Procs /\ scan.dir \in fds[scan.proc]
    BY <1>2, <2>1 DEF Listing
  <2>3. scan.dir \in fds'[scan.proc]
    BY <1>1, <1>2, <2>1, <2>2
  <2> QED
    BY <1>2, <2>1, <2>3 DEF Listing
<1>6. Held(disk, cwd', fds')
  BY <1>1, <1>2 DEF Held
<1>7. Nothing \in [Sector -> Nat] /\ closes \in [Sector -> Nat]
      /\ \A t \in Sector : Nothing[t] = 0
  BY CountsOpeners
<1>8. \A t \in Sector : Nothing[t] > 0 => disk[t] # None
  BY <1>7
<1>9. ASSUME NEW t \in Sector, disk[t] # None
      PROVE  Covered(disk, cwd', fds', robbed, t, Left(Nothing, closes, t), inode[t].removed)
  <2> DEFINE m == inode[t].open_cnt
             i == IF t \in fds[p] THEN 1 ELSE 0
             j == IF cwd[p] = t THEN 1 ELSE 0
             w == WeightIn(disk, t)
             h == Holds(disk, cwd, fds, t)
             h1 == Holds(disk, cwd', fds, t)
             h2 == Holds(disk, cwd', fds', t)
  <2>1. Covered(disk, cwd, fds, robbed, t, m, inode[t].removed) /\ m \in Nat
    BY <1>1, <1>9 DEF DirInv, Counts, TypeOK, Opened
  <2>2. Left(Nothing, closes, t) = m - (i + j)
    BY <1>7, <2>1 DEF Left
  <2>3. /\ \A q \in Procs \ {p} : cwd[q] = t <=> cwd'[q] = t
        /\ \A q \in Procs \ {p} : t \in fds[q] <=> t \in fds'[q]
        /\ cwd'[p] # t /\ t \notin fds'[p]
    BY <1>1, <1>2, NoneAssumption, SizesAssumption DEF Sector
  <2>4. /\ cwd[p] = t => h = h1 + 1
        /\ cwd[p] # t => h = h1
    BY <2>3, Moves
  <2>5. /\ t \in fds[p] => h1 = h2 + w
        /\ t \notin fds[p] => h1 = h2
    BY <2>3, Redescribes
  <2>6. h \in Nat /\ h1 \in Nat /\ h2 \in Nat /\ i \in {0, 1} /\ j \in {0, 1}
        /\ w = IF disk[t].is_dir THEN 2 ELSE 1
    BY HoldersFinite DEF WeightIn
  <2>7. /\ t \notin robbed => m >= h
        /\ ~(disk[t].is_dir \/ inode[t].removed) => m = h
    BY <2>1 DEF Covered
  <2>8. h2 = h - j - (IF disk[t].is_dir THEN 2 * i ELSE i)
    BY <2>4, <2>5, <2>6
  <2> HIDE DEF m, i, j, w, h, h1, h2
  <2>9. /\ m >= h => m - (i + j) >= h2
        /\ m = h /\ ~disk[t].is_dir => m - (i + j) = h2
    <3>1. CASE disk[t].is_dir
      BY <2>1, <2>6, <2>8, <3>1
    <3>2. CASE ~disk[t].is_dir
      BY <2>1, <2>6, <2>8, <3>2
    <3> QED
      BY <3>1, <3>2
  <2> QED
    BY <2>2, <2>7, <2>9 DEF Covered, h2
<1> HIDE DEF closes
<1> QED
  BY <1>1, <1>2, <1>3, <1>4, <1>5, <1>6, <1>7, <1>8, <1>9, SettlesHere

\* The entries of an inode have their types.
LEMMA EntryTypes ==
  ASSUME NEW x \in Inode
  PROVE  /\ x.is_dir \in BOOLEAN /\ x.entries \in Seq(DirEntry)
         /\ Len(x.entries) \in Nat /\ DOMAIN x.entries = 1 .. Len(x.entries)
         /\ \A i \in 1 .. Len(x.entries) :
              /\ x.entries[i] \in DirEntry
              /\ x.entries[i].name \in Names \union {None}
              /\ x.entries[i].sector \in 0 .. NSectors
              /\ x.entries[i].in_use \in BOOLEAN
<1>1. x.is_dir \in BOOLEAN /\ x.entries \in Seq(DirEntry)
  BY DEF Inode
<1>2. /\ Len(x.entries) \in Nat /\ DOMAIN x.entries = 1 .. Len(x.entries)
      /\ \A i \in 1 .. Len(x.entries) : x.entries[i] \in DirEntry
  BY <1>1
<1>3. \A e \in DirEntry : /\ e.name \in Names \union {None} /\ e.sector \in 0 .. NSectors
                          /\ e.in_use \in BOOLEAN
  BY DEF DirEntry
<1> QED
  BY <1>1, <1>2, <1>3

\* The names that a directory shows are those of its entries in use.
LEMMA VisibleIs ==
  ASSUME NEW dsk, NEW s, dsk[s] # None
  PROVE  \A n : n \in Visible(dsk[s].entries)
                  <=> \E i \in Nat : InUse(dsk, s, i) /\ Name(dsk, s, i) = n
<1>1. \A i \in 2 .. Len(dsk[s].entries) : i \in Nat
  OBVIOUS
<1> QED
  BY <1>1 DEF Visible, InUse, Name

LEMMA StartScanKeeps ==
  ASSUME DirInv, NEW p \in Procs, NEW s \in Sector, StartScan(p, s)
  PROVE  DirInv'
<1> DEFINE kept == Visible(disk[s].entries)
<1>1. /\ ~stray /\ s \in fds[p] /\ disk' = disk /\ inode' = inode /\ cwd' = cwd
      /\ fds' = fds /\ robbed' = robbed /\ stray' = stray
      /\ scan' = [NoScan EXCEPT !.proc = p, !.dir = s, !.pos = 2, !.kept = kept]
  BY DEF StartScan
<1>2. disk \in Disks /\ fds \in [Procs -> SUBSET Sector] /\ disk[s] # None
  BY <1>1 DEF DirInv, TypeOK, Held
<1>3. kept \subseteq Names \union {None}
  <2>1. disk[s] \in Inode
    BY <1>2 DEF Disks
  <2>2. /\ \A i \in 1 .. Len(disk[s].entries) :
             disk[s].entries[i].name \in Names \union {None}
        /\ Len(disk[s].entries) \in Nat
    BY <2>1, EntryTypes
  <2>3. \A i \in 2 .. Len(disk[s].entries) : i \in 1 .. Len(disk[s].entries)
    BY <2>2
  <2> QED
    BY <2>2, <2>3 DEF Visible
<1>4. \A n : n \in kept <=> \E i \in Nat : InUse(disk, s, i) /\ Name(disk, s, i) = n
  BY <1>2, VisibleIs
<1> HIDE DEF kept
<1>5. /\ scan'.proc = p /\ scan'.dir = s /\ scan'.pos = 2 /\ scan'.kept = kept
      /\ scan'.seen = {} /\ scan'.twice = FALSE
      /\ scan' = [proc |-> p, dir |-> s, pos |-> 2, kept |-> kept, seen |-> {},
                  twice |-> FALSE]
  BY <1>1 DEF NoScan
<1>6. scan' \in Scans
  BY <1>3, <1>5 DEF Scans
<1>7. Listing(disk, fds, scan')
  <2>1. \A i \in Nat : InUse(disk, s, i) => ~(i < 2)
    BY DEF InUse
  <2> QED
    BY <1>1, <1>4, <1>5, <2>1 DEF Listing
<1>8. TypeOK'
  BY <1>1, <1>6 DEF DirInv, TypeOK
<1> QED
  BY <1>1, <1>7, <1>8 DEF DirInv, Marks, Counts

LEMMA ReaddirKeeps ==
  ASSUME DirInv, dir_readdir
  PROVE  DirInv'
<1> DEFINE es == disk[scan.dir].entries
           left == {i \in scan.pos .. Len(es) : es[i].in_use}
           m == Min(left)
           n == es[m].name
<1>1. /\ ~stray /\ scan # NoScan /\ left # {} /\ disk' = disk /\ inode' = inode
      /\ cwd' = cwd /\ fds' = fds /\ robbed' = robbed /\ stray' = stray
      /\ scan' = [scan EXCEPT !.pos = m + 1,
                              !.seen = (scan.seen \union {n}) \intersect scan.kept,
                              !.twice = scan.twice \/ n \in scan.seen]
  BY DEF dir_readdir
<1>2. /\ disk \in Disks /\ fds \in [Procs -> SUBSET Sector] /\ scan \in Scans
      /\ Held(disk, cwd, fds) /\ Distinct(disk) /\ Listing(disk, fds, scan)
  BY <1>1 DEF DirInv, TypeOK, Tree
<1>3. /\ scan.proc \in Procs /\ scan.dir \in fds[scan.proc] /\ scan.pos >= 2
      /\ ~scan.twice /\ scan.seen \subseteq scan.kept
      /\ \A x \in scan.kept :
           \E i \in Nat : /\ InUse(disk, scan.dir, i) /\ Name(disk, scan.dir, i) = x
                          /\ x \in scan.seen <=> i < scan.pos
  BY <1>1, <1>2 DEF Listing
<1>4. scan.dir \in Sector /\ disk[scan.dir] # None /\ scan.pos \in Nat
  BY <1>2, <1>3 DEF Held, Scans
<1>5. \A i \in Nat : InUse(disk, scan.dir, i) /\ i >= scan.pos <=> i \in left
  <2>1. disk[scan.dir] \in Inode
    BY <1>2, <1>4 DEF Disks
  <2>2. Len(es) \in Nat
    BY <2>1 DEF Inode
  <2> QED
    BY <1>3, <1>4, <2>2 DEF InUse
<1>6. left \in SUBSET Nat
  BY <1>4
<1> HIDE DEF left
<1>7. m \in Nat /\ m \in left /\ \A i \in left : m <= i
  BY <1>1, <1>6, MinIsLeast
<1>8. InUse(disk, scan.dir, m) /\ Name(disk, scan.dir, m) = n /\ m >= scan.pos
  BY <1>5, <1>7 DEF Name
<1>9. \A i \in Nat : InUse(disk, scan.dir, i) /\ Name(disk, scan.dir, i) = n => i = m
  BY <1>2, <1>4, <1>7, <1>8 DEF Distinct
<1> HIDE DEF n, m, es
<1>10. n \notin scan.seen
  BY <1>3, <1>4, <1>7, <1>8, <1>9
<1>11. /\ scan'.proc = scan.proc /\ scan'.dir = scan.dir /\ scan'.pos = m + 1
       /\ scan'.kept = scan.kept /\ scan'.twice = (scan.twice \/ n \in scan.seen)
       /\ scan'.seen = (scan.seen \union {n}) \intersect scan.kept
       /\ scan' \in Scans
  <2>1. (scan.seen \union {n}) \intersect scan.kept \in SUBSET (Names \union {None})
    BY <1>2 DEF Scans
  <2> DEFINE b == scan.twice \/ n \in scan.seen
             seen == (scan.seen \union {n}) \intersect scan.kept
  <2>2. b \in BOOLEAN
    OBVIOUS
  <2>3. scan' = [scan EXCEPT !.pos = m + 1, !.seen = seen, !.twice = b]
    BY <1>1
  <2> HIDE DEF b, seen
  <2>4. scan' = [proc |-> scan.proc, dir |-> scan.dir, pos |-> m + 1, kept |-> scan.kept,
                 seen |-> seen, twice |-> b]
    BY <1>2, <2>3 DEF Scans
  <2>5. /\ scan'.proc = scan.proc /\ scan'.dir = scan.dir /\ scan'.pos = m + 1
        /\ scan'.kept = scan.kept /\ scan'.twice = b /\ scan'.seen = seen
    BY <2>4
  <2>6. m + 1 \in Nat /\ seen \in SUBSET (Names \union {None})
    BY <1>7, <2>1 DEF seen
  <2>7. scan' \in Scans
    BY <1>2, <2>2, <2>4, <2>6 DEF Scans
  <2> QED
    BY <2>5, <2>7 DEF b, seen
<1>12. ASSUME NEW x \in scan.kept
       PROVE  \E i \in Nat : /\ InUse(disk, scan.dir, i) /\ Name(disk, scan.dir, i) = x
                             /\ x \in scan'.seen <=> i < m + 1
  <2>1. PICK i \in Nat : /\ InUse(disk, scan.dir, i) /\ Name(disk, scan.dir, i) = x
                         /\ x \in scan.seen <=> i < scan.pos
    BY <1>3
  <2>2. x \in scan'.seen <=> x \in scan.seen \/ x = n
    BY <1>11
  <2>3. CASE i < scan.pos
    BY <1>4, <1>7, <1>8, <2>1, <2>2, <2>3
  <2>4. CASE ~(i < scan.pos)
    <3>1. i \in left
      BY <1>4, <1>5, <2>1, <2>4
    <3>2. m <= i /\ (x = n <=> i = m)
      BY <1>7, <1>8, <1>9, <2>1, <3>1
    <3>3. i < m + 1 <=> i = m
      BY <1>7, <3>2
    <3> QED
      BY <2>1, <2>2, <2>4, <3>2, <3>3
  <2> QED
    BY <2>3, <2>4
<1>13. Listing(disk, fds, scan')
  <2>1. m + 1 >= 2
    BY <1>3, <1>4, <1>7, <1>8
  <2>2. ~scan'.twice /\ scan'.seen \subseteq scan'.kept
    BY <1>3, <1>10, <1>11
  <2> QED
    BY <1>3, <1>11, <1>12, <2>1, <2>2 DEF Listing
<1>14. TypeOK'
  BY <1>1, <1>11 DEF DirInv, TypeOK
<1> QED
  BY <1>1, <1>13, <1>14 DEF DirInv, Marks, Counts

\* A listing goes on over a directory whose entries change, as long as no entry
\* that stays moves.
LEMMA RescanKeeps ==
  ASSUME NEW dsk, NEW d \in Sector, scan \in Scans, fds \in [Procs -> SUBSET Sector],
         Listing(disk, fds, scan), Rescan(dsk, d), dsk[d] # None,
         \A s \in Sector \ {d} : dsk[s] = disk[s] \/ disk[s] = None,
         \A i, j \in Nat :
           InUse(disk, d, i) /\ InUse(dsk, d, j) /\ Name(disk, d, i) = Name(dsk, d, j)
             => InUse(dsk, d, i) /\ Name(dsk, d, i) = Name(disk, d, i)
  PROVE  Listing(dsk, fds, scan') /\ scan' \in Scans
<1>1. CASE scan.dir # d
  <2>1. scan' = scan
    BY <1>1 DEF Rescan
  <2>2. CASE scan # NoScan
    <3>1. scan.dir \in Sector \ {d}
      BY <1>1, <2>2 DEF Listing
    <3>2. \A i \in Nat : InUse(disk, scan.dir, i)
             => InUse(dsk, scan.dir, i) /\ Name(dsk, scan.dir, i) = Name(disk, scan.dir, i)
      BY <3>1 DEF InUse, Name
    <3> QED
      BY <2>1, <3>2 DEF Listing
  <2> QED
    BY <2>1, <2>2 DEF Listing
<1>2. CASE scan.dir = d
  <2> DEFINE v == Visible(dsk[d].entries)
  <2>1. scan' = [scan EXCEPT !.kept = scan.kept \intersect v, !.seen = scan.seen \intersect v]
    BY <1>2 DEF Rescan
  <2>2. \A n : n \in v <=> \E i \in Nat : InUse(dsk, d, i) /\ Name(dsk, d, i) = n
    BY VisibleIs
  <2> HIDE DEF v
  <2>3. /\ scan' \in Scans /\ scan'.proc = scan.proc /\ scan'.dir = d
        /\ scan'.pos = scan.pos /\ scan'.twice = scan.twice
        /\ scan'.kept = scan.kept \intersect v /\ scan'.seen = scan.seen \intersect v
    BY <1>2, <2>1 DEF Scans
  <2>4. scan # NoScan
    BY <1>2, NoneAssumption, SizesAssumption DEF NoScan, Sector
  <2>5. /\ scan.proc \in Procs /\ d \in fds[scan.proc] /\ scan.pos >= 2
        /\ ~scan.twice /\ scan.seen \subseteq scan.kept
        /\ \A n \in scan.kept :
             \E i \in Nat : /\ InUse(disk, d, i) /\ Name(disk, d, i) = n
                            /\ n \in scan.seen <=> i < scan.pos
    BY <1>2, <2>4 DEF Listing
  <2>6. ASSUME NEW n \in scan'.kept
        PROVE  \E i \in Nat : /\ InUse(dsk, d, i) /\ Name(dsk, d, i) = n
                              /\ n \in scan'.seen <=> i < scan.pos
    <3>1. n \in scan.kept /\ n \in v
      BY <2>3
    <3>2. PICK i \in Nat : /\ InUse(disk, d, i) /\ Name(disk, d, i) = n
                           /\ n \in scan.seen <=> i < scan.pos
      BY <2>5, <3>1
    <3>3. PICK j \in Nat : InUse(dsk, d, j) /\ Name(dsk, d, j) = n
      BY <2>2, <3>1
    <3>4. InUse(dsk, d, i) /\ Name(dsk, d, i) = n
      BY <3>2, <3>3
    <3> QED
      BY <2>3, <3>1, <3>2, <3>4
  <2> QED
    BY <2>3, <2>5, <2>6 DEF Listing
<1> QED
  BY <1>1, <1>2

\* An entry that is erased.
LEMMA EraseEffect ==
  ASSUME disk \in Disks, NEW d \in Sector, disk[d] # None, NEW k \in Nat,
         InUse(disk, d, k), NEW dsk, dsk = [s \in Sector |-> dsk[s]],
         \A s \in Sector \ {d} : dsk[s] = disk[s],
         dsk[d] = [is_dir |-> disk[d].is_dir, entries |-> Erase(disk[d].entries, k)]
  PROVE  /\ dsk \in Disks /\ SameInodes(dsk)
         /\ \A s \in Sector, i \in Nat :
              InUse(dsk, s, i) => /\ InUse(disk, s, i) /\ ~(s = d /\ i = k)
                                  /\ To(dsk, s, i) = To(disk, s, i)
                                  /\ Name(dsk, s, i) = Name(disk, s, i)
<1> DEFINE es == disk[d].entries
           er == Erase(es, k)
<1>1. disk[d] \in Inode
  BY DEF Disks
<1>2. /\ es \in Seq(DirEntry) /\ Len(es) \in Nat /\ DOMAIN es = 1 .. Len(es)
      /\ disk[d].is_dir \in BOOLEAN
  BY <1>1, EntryTypes
<1>3. k \in 1 .. Len(es)
  BY <1>2 DEF InUse
<1>4. Free \in DirEntry /\ ~Free.in_use
  BY SizesAssumption DEF Free, Entry, DirEntry
<1>5. er \in Seq(DirEntry) /\ Len(er) = Len(es)
      /\ \A i \in 1 .. Len(es) : er[i] = IF i = k THEN Free ELSE es[i]
  <2> HIDE DEF es
  <2> QED
    BY <1>2, <1>3, <1>4 DEF Erase
<1>6. dsk[d] = [is_dir |-> disk[d].is_dir, entries |-> er]
  OBVIOUS
<1> HIDE DEF er
<1>8. dsk[d] \in Inode /\ dsk[d] # None
  BY <1>2, <1>5, <1>6, NoneAssumption DEF Inode
<1>9. dsk \in Disks
  BY <1>8 DEF Disks
<1>10. SameInodes(dsk)
  BY <1>6, <1>8 DEF SameInodes
<1>11. ASSUME NEW s \in Sector, NEW i \in Nat, InUse(dsk, s, i)
       PROVE  /\ InUse(disk, s, i) /\ ~(s = d /\ i = k)
              /\ To(dsk, s, i) = To(disk, s, i) /\ Name(dsk, s, i) = Name(disk, s, i)
  <2>1. CASE s # d
    BY <1>11, <2>1 DEF InUse, To, Name
  <2>2. CASE s = d
    <3>1. dsk[d].entries = er
      BY <1>6
    <3>2. i \in 2 .. Len(er) /\ er[i].in_use
      BY <1>11, <2>2, <3>1 DEF InUse
    <3>3. i # k /\ er[i] = es[i] /\ i \in 2 .. Len(es) /\ i \in 1 .. Len(es)
      BY <1>2, <1>4, <1>5, <3>2
    <3> QED
      BY <2>2, <3>1, <3>2, <3>3 DEF InUse, To, Name
  <2> QED
    BY <2>1, <2>2
<1> QED
  BY <1>9, <1>10, <1>11

\* lookup finds the entry with a name.
LEMMA LookupFinds ==
  ASSUME TypeOK, NEW d \in Sector, disk[d] # None, NEW n, Slots(disk[d].entries, n) # {}
  PROVE  /\ lookup(disk[d].entries, n) \in Nat
         /\ InUse(disk, d, lookup(disk[d].entries, n))
         /\ Name(disk, d, lookup(disk[d].entries, n)) = n
<1> DEFINE es == disk[d].entries
           S == Slots(es, n)
<1>1. S \in SUBSET Nat
  BY DEF Slots
<1>2. lookup(es, n) \in S
  BY <1>1, MinIsLeast DEF lookup
<1> QED
  BY <1>1, <1>2 DEF Slots, InUse, Name

LEMMA RemoveKeeps ==
  ASSUME DirInv, NEW p \in Procs, NEW path \in Paths, NEW n \in Names,
         filesys_remove(p, path, n)
  PROVE  DirInv'
<1> DEFINE walk == Walk(p, path)
           d == dir_open_path(walk, path)
           k == lookup(disk[d].entries, n)
           s == To(disk, d, k)
           erased == [disk EXCEPT ![d].entries = Erase(disk[d].entries, k)]
           success == disk[s].is_dir => dir_is_empty(disk[s].entries)
           dsk == IF success THEN erased ELSE disk
           marked == IF success THEN {s} ELSE {}
           rb == IF disk[s].is_dir THEN robbed \union {s} ELSE robbed
<1>1. /\ ~stray /\ Resolves(walk, path) /\ Slots(disk[d].entries, n) # {}
      /\ Rescan(dsk, d) /\ cwd' = cwd /\ fds' = fds
      /\ IF ~disk[s].is_dir
           THEN Settled(dsk, Only(s, 1), Only(s, 1), marked) /\ Robbed(rb)
         ELSE IF inode[s].open_cnt > 0
           THEN Settled(dsk, Only(s, 1), Only(s, 2), marked) /\ Robbed(rb)
         ELSE disk' = dsk /\ inode' = inode /\ robbed' = robbed /\ stray' = stray
  BY DEF filesys_remove, To, Settle
<1>2. d \in Sector /\ disk[d] # None
  BY <1>1, Resolved DEF DirInv
<1> HIDE DEF walk, d
<1>3. /\ TypeOK /\ Tree(disk) /\ Marks /\ Held(disk, cwd, fds) /\ Counts
      /\ Listing(disk, fds, scan)
  BY <1>1 DEF DirInv
<1>4. /\ disk \in Disks /\ cwd \in [Procs -> Sector \union {None}]
      /\ fds \in [Procs -> SUBSET Sector] /\ scan \in Scans
  BY <1>3 DEF TypeOK
<1>5. k \in Nat /\ InUse(disk, d, k)
  BY <1>1, <1>2, <1>3, LookupFinds
<1> HIDE DEF k
<1>6. /\ dsk \in Disks /\ SameInodes(dsk)
      /\ \A t \in Sector \ {d} : dsk[t] = disk[t]
      /\ \A t \in Sector, i \in Nat :
           InUse(dsk, t, i) => /\ InUse(disk, t, i) /\ (success => ~(t = d /\ i = k))
                               /\ To(dsk, t, i) = To(disk, t, i)
                               /\ Name(dsk, t, i) = Name(disk, t, i)
  <2> HIDE DEF success
  <2>1. CASE success
    <3>1. dsk = erased
      BY <2>1
    <3>2. disk[d] \in Inode
      BY <1>2, <1>4 DEF Disks
    <3>3. dsk[d] = [is_dir |-> disk[d].is_dir, entries |-> Erase(disk[d].entries, k)]
      BY <1>2, <1>4, <3>1, <3>2 DEF Inode, Disks
    <3>4. dsk = [t \in Sector |-> dsk[t]] /\ \A t \in Sector \ {d} : dsk[t] = disk[t]
      BY <1>4, <3>1 DEF Disks
    <3> HIDE DEF dsk
    <3> QED
      BY <1>2, <1>4, <1>5, <3>3, <3>4, EraseEffect
  <2>2. CASE ~success
    BY <1>4, <2>2 DEF SameInodes
  <2> QED
    BY <2>1, <2>2
<1> HIDE DEF dsk, s, success
<1>7. Tree(dsk)
  <2>1. Leads(dsk)
    BY <1>3, <1>6 DEF Tree, Leads, SameInodes
  <2>2. Alone(dsk)
    BY <1>3, <1>6 DEF Tree, Alone
  <2>3. Distinct(dsk)
    BY <1>3, <1>6 DEF Tree, Distinct
  <2>4. dsk[ROOT_DIR_SECTOR] # None
    BY <1>3, <1>6, SizesAssumption DEF Tree, SameInodes, Sector, ROOT_DIR_SECTOR
  <2> QED
    BY <2>1, <2>2, <2>3, <2>4 DEF Tree
<1>8. s \in Sector /\ disk[s] # None /\ (success => Unlisted(dsk, s))
  <2>1. s \in Sector \ {ROOT_DIR_SECTOR} /\ disk[s] # None
    BY <1>2, <1>3, <1>5 DEF Tree, Leads, s
  <2>2. ASSUME success, NEW t \in Sector, NEW i \in Nat, InUse(dsk, t, i)
        PROVE  To(dsk, t, i) # s
    BY <1>2, <1>3, <1>5, <1>6, <2>2 DEF Tree, Alone, s
  <2> QED
    BY <2>1, <2>2 DEF Unlisted
<1>9. \A t \in Sector : Unlisted(disk, t) => Unlisted(dsk, t)
  BY <1>6 DEF Unlisted
<1>10. Held(dsk, cwd, fds)
  BY <1>3, <1>4, <1>6 DEF Held, SameInodes
<1>11. Listing(dsk, fds, scan') /\ scan' \in Scans
  <2>1. \A i, j \in Nat :
          InUse(disk, d, i) /\ InUse(dsk, d, j) /\ Name(disk, d, i) = Name(dsk, d, j)
            => InUse(dsk, d, i) /\ Name(dsk, d, i) = Name(disk, d, i)
    BY <1>2, <1>3, <1>6 DEF Tree, Distinct
  <2>2. dsk[d] # None
    BY <1>2, <1>6 DEF SameInodes
  <2> QED
    BY <1>1, <1>2, <1>3, <1>4, <1>6, <2>1, <2>2, RescanKeeps
<1>12. CASE ~disk[s].is_dir \/ inode[s].open_cnt > 0
  <2> DEFINE w == IF ~disk[s].is_dir THEN 1 ELSE 2
             opens == Only(s, 1)
             closes == Only(s, w)
  <2>1. Settled(dsk, opens, closes, marked) /\ Robbed(rb)
    BY <1>1, <1>12
  <2>2. w \in Nat /\ w > 0
    OBVIOUS
  <2>3. opens \in [Sector -> Nat] /\ \A t \in Sector : opens[t] = IF t = s THEN 1 ELSE 0
    BY <1>8, CountsOpeners
  <2>4. closes \in [Sector -> Nat] /\ \A t \in Sector : closes[t] = IF t = s THEN w ELSE 0
    <3> HIDE DEF w
    <3> QED
      BY <1>8, <2>2, CountsOpeners
  <2> HIDE DEF opens, closes
  <2>5. /\ marked \in SUBSET Sector /\ \A t \in marked : closes[t] > 0
        /\ rb \in SUBSET Sector /\ \A t \in rb : t \in robbed \/ closes[t] > 0
    BY <1>3, <1>8, <2>2, <2>4 DEF TypeOK
  <2>6. \A t \in Sector : opens[t] > 0 => disk[t] # None
    BY <1>8, <2>3
  <2>7. \A t \in Sector : Doomed(marked, t) => Unlisted(dsk, t)
    BY <1>3, <1>8, <1>9 DEF Doomed, Marks
  <2>8. ASSUME NEW t \in Sector, disk[t] # None
        PROVE  Covered(disk, cwd, fds, rb, t, Left(opens, closes, t), Doomed(marked, t))
    <3> DEFINE m == inode[t].open_cnt
               h == Holds(disk, cwd, fds, t)
    <3>1. Covered(disk, cwd, fds, robbed, t, m, inode[t].removed) /\ m \in Nat /\ h \in Nat
      BY <1>3, <2>8, HoldersFinite DEF Counts, TypeOK, Opened
    <3>2. CASE t # s
      <4>1. Left(opens, closes, t) = m /\ (Doomed(marked, t) <=> inode[t].removed)
        BY <2>3, <2>4, <3>1, <3>2 DEF Left, Doomed
      <4> QED
        BY <3>1, <4>1 DEF Covered
    <3>3. CASE t = s /\ disk[s].is_dir
      BY <3>3 DEF Covered, Doomed
    <3>4. CASE t = s /\ ~disk[s].is_dir
      <4>1. Left(opens, closes, t) = m /\ Doomed(marked, t)
        BY <2>3, <2>4, <3>1, <3>4 DEF Left, Doomed, success
      <4>2. t \notin rb => m >= h
        BY <3>1, <3>4 DEF Covered
      <4> QED
        BY <3>4, <4>1, <4>2 DEF Covered
    <3> QED
      BY <3>2, <3>3, <3>4
  <2>9. cwd' \in [Procs -> Sector \union {None}] /\ fds' \in [Procs -> SUBSET Sector]
        /\ Listing(dsk, fds', scan') /\ scan' \in Scans /\ Held(dsk, cwd', fds')
    BY <1>1, <1>4, <1>10, <1>11
  <2>10. \A t \in Sector :
           disk[t] # None => Covered(disk, cwd', fds', rb, t, Left(opens, closes, t),
                                     Doomed(marked, t))
    BY <1>1, <2>8
  <2> HIDE DEF marked, rb
  <2> QED
    BY <1>3, <1>6, <1>7, <2>1, <2>3, <2>4, <2>5, <2>6, <2>7, <2>9, <2>10, Settles
<1>13. CASE disk[s].is_dir /\ ~(inode[s].open_cnt > 0)
  <2>1. disk' = dsk /\ inode' = inode /\ robbed' = robbed /\ stray' = stray
    BY <1>1, <1>13
  <2>2. TypeOK'
    BY <1>1, <1>3, <1>6, <1>11, <2>1 DEF TypeOK
  <2>3. Marks'
    BY <1>3, <1>6, <1>9, <2>1 DEF Marks, SameInodes
  <2>4. Counts'
    <3> SUFFICES ASSUME NEW t \in Sector, dsk[t] # None
                 PROVE  Covered(dsk, cwd, fds, robbed, t, inode[t].open_cnt,
                                inode[t].removed)
      BY <1>1, <2>1 DEF Counts
    <3>1. Covered(disk, cwd, fds, robbed, t, inode[t].open_cnt, inode[t].removed)
          /\ dsk[t].is_dir = disk[t].is_dir
      BY <1>3, <1>6 DEF Counts, SameInodes
    <3>2. Holds(dsk, cwd, fds, t) = Holds(disk, cwd, fds, t)
      BY <3>1 DEF Holds, WeightIn
    <3> QED
      BY <3>1, <3>2 DEF Covered
  <2> QED
    BY <1>1, <1>7, <1>10, <1>11, <2>1, <2>2, <2>3, <2>4 DEF DirInv
<1> QED
  BY <1>12, <1>13

\* The slot for a new entry is one that is not in use, or behind the last.
LEMMA SlotIsFree ==
  ASSUME NEW es \in Seq(DirEntry)
  PROVE  /\ FreeSlot(es) \in 1 .. Len(es) + 1
         /\ FreeSlot(es) \in 1 .. Len(es) => ~es[FreeSlot(es)].in_use
<1> DEFINE S == {Len(es) + 1} \union {i \in DOMAIN es : ~es[i].in_use}
<1>1. Len(es) \in Nat /\ DOMAIN es = 1 .. Len(es)
  OBVIOUS
<1>2. S \in SUBSET Nat /\ S # {}
  BY <1>1
<1>3. FreeSlot(es) \in S
  BY <1>2, MinIsLeast DEF FreeSlot
<1> QED
  BY <1>1, <1>3

\* The entries of a directory that e is added to.
Grown(es, e) ==
  IF FreeSlot(es) > Len(es) THEN Append(es, e) ELSE [es EXCEPT ![FreeSlot(es)] = e]

LEMMA GrownEffect ==
  ASSUME NEW es \in Seq(DirEntry), NEW e \in DirEntry
  PROVE  /\ Grown(es, e) \in Seq(DirEntry) /\ Len(Grown(es, e)) \in Nat
         /\ Len(Grown(es, e)) >= Len(es)
         /\ FreeSlot(es) \in 1 .. Len(Grown(es, e)) /\ Grown(es, e)[FreeSlot(es)] = e
         /\ \A i \in 1 .. Len(Grown(es, e)) :
              i # FreeSlot(es) => i \in 1 .. Len(es) /\ Grown(es, e)[i] = es[i]
<1> DEFINE k == FreeSlot(es)
<1>1. Len(es) \in Nat /\ k \in 1 .. Len(es) + 1
  BY SlotIsFree
<1> HIDE DEF k
<1>2. CASE k > Len(es)
  <2>1. k = Len(es) + 1 /\ Grown(es, e) = Append(es, e)
    BY <1>1, <1>2 DEF Grown, k
  <2> QED
    BY <1>1, <2>1 DEF k
<1>3. CASE ~(k > Len(es))
  <2>1. Grown(es, e) = [es EXCEPT ![k] = e] /\ k \in 1 .. Len(es)
    BY <1>1, <1>3 DEF Grown, k
  <2> QED
    BY <1>1, <2>1 DEF k
<1> QED
  BY <1>2, <1>3

\* An entry that is added, e in the slot k of d, for the new inode in sector f.
LEMMA AddEffect ==
  ASSUME disk \in Disks, NEW d \in Sector, disk[d] # None, NEW f \in Sector, disk[f] = None,
         NEW e \in DirEntry, e.in_use, NEW child \in Inode, Len(child.entries) <= 1,
         NEW dsk, dsk = [s \in Sector |-> dsk[s]],
         \A s \in Sector \ {d, f} : dsk[s] = disk[s], dsk[f] = child,
         dsk[d] = [is_dir |-> disk[d].is_dir, entries |-> Grown(disk[d].entries, e)]
  PROVE  /\ dsk \in Disks /\ dsk[d] # None /\ dsk[d].is_dir = disk[d].is_dir
         /\ dsk[f] # None
         /\ \A s \in Sector, i \in Nat :
              InUse(dsk, s, i)
                => \/ /\ s = d /\ i = FreeSlot(disk[d].entries)
                      /\ To(dsk, s, i) = e.sector /\ Name(dsk, s, i) = e.name
                   \/ /\ InUse(disk, s, i) /\ To(dsk, s, i) = To(disk, s, i)
                      /\ Name(dsk, s, i) = Name(disk, s, i)
         /\ \A i \in Nat :
              InUse(disk, d, i) => InUse(dsk, d, i) /\ Name(dsk, d, i) = Name(disk, d, i)
<1> DEFINE es == disk[d].entries
           k == FreeSlot(es)
           grown == Grown(es, e)
<1>1. disk[d] \in Inode
  BY DEF Disks
<1>2. /\ es \in Seq(DirEntry) /\ Len(es) \in Nat /\ DOMAIN es = 1 .. Len(es)
      /\ disk[d].is_dir \in BOOLEAN
  BY <1>1, EntryTypes
<1>3. k \in 1 .. Len(es) + 1 /\ (k \in 1 .. Len(es) => ~es[k].in_use)
  <2> HIDE DEF es
  <2> QED
    BY <1>2, SlotIsFree DEF es
<1>4. /\ grown \in Seq(DirEntry) /\ Len(grown) \in Nat /\ Len(grown) >= Len(es)
      /\ \A i \in 1 .. Len(grown) : i # k => i \in 1 .. Len(es) /\ grown[i] = es[i]
      /\ k \in 1 .. Len(grown) /\ grown[k] = e
  <2> HIDE DEF es
  <2> QED
    BY <1>2, GrownEffect
<1>5. dsk[d] = [is_dir |-> disk[d].is_dir, entries |-> grown]
  OBVIOUS
<1> HIDE DEF grown, k
<1>6. dsk[d] \in Inode /\ dsk[d] # None /\ dsk[f] # None /\ dsk[f] \in Inode
      /\ dsk[d].is_dir = disk[d].is_dir /\ dsk[d].entries = grown
  BY <1>2, <1>4, <1>5, NoneAssumption DEF Inode
<1>7. dsk \in Disks
  BY <1>6 DEF Disks
<1>8. ASSUME NEW i \in Nat, InUse(disk, d, i)
      PROVE  InUse(dsk, d, i) /\ Name(dsk, d, i) = Name(disk, d, i)
  <2>1. i \in 2 .. Len(es) /\ i \in 1 .. Len(es) /\ es[i].in_use
    BY <1>2, <1>8 DEF InUse
  <2>2. i # k /\ i \in 1 .. Len(grown) /\ i \in 2 .. Len(grown)
    BY <1>2, <1>3, <1>4, <2>1
  <2>3. grown[i] = es[i]
    BY <1>4, <2>2
  <2> QED
    BY <1>6, <2>1, <2>2, <2>3 DEF InUse, Name
<1>9. ASSUME NEW s \in Sector, NEW i \in Nat, InUse(dsk, s, i)
      PROVE  \/ s = d /\ i = k /\ To(dsk, s, i) = e.sector /\ Name(dsk, s, i) = e.name
             \/ /\ InUse(disk, s, i) /\ To(dsk, s, i) = To(disk, s, i)
                /\ Name(dsk, s, i) = Name(disk, s, i)
  <2>1. CASE s = f
    <3>1. i \in 2 .. Len(child.entries)
      BY <1>9, <2>1 DEF InUse
    <3>2. Len(child.entries) \in Nat
      BY EntryTypes
    <3> QED
      BY <3>1, <3>2
  <2>2. CASE s \notin {d, f}
    BY <1>9, <2>2 DEF InUse, To, Name
  <2>3. CASE s = d
    <3>1. i \in 2 .. Len(grown) /\ i \in 1 .. Len(grown) /\ grown[i].in_use
      BY <1>4, <1>6, <1>9, <2>3 DEF InUse
    <3>2. CASE i = k
      BY <1>4, <1>6, <2>3, <3>2 DEF To, Name
    <3>3. CASE i # k
      <4>1. grown[i] = es[i] /\ i \in 2 .. Len(es)
        BY <1>2, <1>4, <3>1, <3>3
      <4> QED
        BY <1>6, <2>3, <3>1, <4>1 DEF InUse, To, Name
    <3> QED
      BY <3>2, <3>3
  <2> QED
    BY <2>1, <2>2, <2>3
<1> QED
  BY <1>6, <1>7, <1>8, <1>9 DEF k

LEMMA CreateKeeps ==
  ASSUME DirInv, NEW p \in Procs, NEW path \in Paths, NEW n \in Names,
         NEW is_dir \in BOOLEAN, NEW room \in BOOLEAN,
         filesys_create(p, path, n, is_dir, room)
  PROVE  DirInv'
<1> DEFINE walk == Walk(p, path)
           d == dir_open_path(walk, path)
           f == Min(Sector \ used)
           es == disk[d].entries
           k == FreeSlot(es)
           e == Entry(n, f, TRUE)
           grown == Grown(es, e)
           child(g) == [is_dir |-> is_dir,
                        entries |-> IF is_dir THEN << Entry(None, d, g) >> ELSE << >>]
<1>1. /\ ~stray /\ Resolves(walk, path) /\ used # Sector
      /\ inode' = inode /\ cwd' = cwd /\ fds' = fds /\ robbed' = robbed /\ stray' = stray
  BY DEF filesys_create
<1>2. PICK g \in Garbage :
        \/ /\ ~NameTaken(es, n)
           /\ disk' = [disk EXCEPT ![f] = child(g), ![d].entries = grown]
           /\ Rescan(disk', d)
        \/ disk' = disk /\ scan' = scan
  BY DEF filesys_create, Grown
<1>3. d \in Sector /\ disk[d] # None /\ disk[d] \in Inode
  BY <1>1, Resolved DEF DirInv
<1>4. /\ TypeOK /\ Tree(disk) /\ Marks /\ Held(disk, cwd, fds) /\ Counts
      /\ Listing(disk, fds, scan)
  BY <1>1 DEF DirInv
<1>5. /\ disk \in Disks /\ cwd \in [Procs -> Sector \union {None}]
      /\ fds \in [Procs -> SUBSET Sector] /\ scan \in Scans
  BY <1>4 DEF TypeOK
<1>6. f \in Sector /\ disk[f] = None
  <2>1. Sector \ used \in SUBSET Nat /\ Sector \ used # {}
    BY <1>1, SizesAssumption DEF Sector, used
  <2>2. f \in Sector \ used
    BY <2>1, MinIsLeast
  <2> QED
    BY <2>2 DEF used
<1> HIDE DEF walk, d, f
<1>7. CASE disk' = disk /\ scan' = scan
  BY <1>1, <1>4, <1>7 DEF DirInv, TypeOK, Marks, Counts
<1>8. CASE /\ ~NameTaken(es, n)
           /\ disk' = [disk EXCEPT ![f] = child(g), ![d].entries = grown]
           /\ Rescan(disk', d)
  <2>1. f # d /\ f # ROOT_DIR_SECTOR
    BY <1>3, <1>4, <1>6 DEF Tree
  <2>2. e \in DirEntry /\ e.in_use /\ e.sector = f /\ e.name = n
    BY <1>6, SizesAssumption DEF Entry, DirEntry, Sector
  <2>3. child(g) \in Inode /\ Len(child(g).entries) <= 1
    <3>1. Entry(None, d, g) \in DirEntry
      BY <1>3, GarbageAssumption, SizesAssumption DEF Entry, DirEntry, Sector
    <3>2. << Entry(None, d, g) >> \in Seq(DirEntry) /\ Len(<< Entry(None, d, g) >>) = 1
      BY <3>1
    <3>3. << >> \in Seq(DirEntry) /\ Len(<< >>) = 0
      OBVIOUS
    <3> QED
      BY <3>2, <3>3 DEF Inode
  <2>4. /\ \A s \in Sector \ {d, f} : disk'[s] = disk[s]
        /\ disk'[f] = child(g) /\ disk' = [s \in Sector |-> disk'[s]]
    <3> HIDE DEF child, grown
    <3> QED
      BY <1>3, <1>5, <1>6, <1>8, <2>1 DEF Disks
  <2>5. disk'[d] = [is_dir |-> disk[d].is_dir, entries |-> grown]
    <3> HIDE DEF child, grown
    <3> QED
      BY <1>3, <1>5, <1>6, <1>8, <2>1 DEF Disks, Inode
  <2> DEFINE c == child(g)
  <2> HIDE DEF c, child, e, grown
  <2>6. /\ disk' \in Disks /\ disk'[d] # None /\ disk'[d].is_dir = disk[d].is_dir
        /\ disk'[f] # None
        /\ \A s \in Sector, i \in Nat :
             InUse(disk', s, i)
               => \/ s = d /\ i = k /\ To(disk', s, i) = f /\ Name(disk', s, i) = n
                  \/ /\ InUse(disk, s, i) /\ To(disk', s, i) = To(disk, s, i)
                     /\ Name(disk', s, i) = Name(disk, s, i)
        /\ \A i \in Nat :
             InUse(disk, d, i) => InUse(disk', d, i) /\ Name(disk', d, i) = Name(disk, d, i)
    <3>1. c \in Inode /\ Len(c.entries) <= 1 /\ disk'[f] = c
      BY <2>3, <2>4 DEF c
    <3>2. disk'[d] = [is_dir |-> disk[d].is_dir, entries |-> Grown(disk[d].entries, e)]
      BY <2>5 DEF grown
    <3>3. disk' = [s \in Sector |-> disk'[s]] /\ \A s \in Sector \ {d, f} : disk'[s] = disk[s]
      BY <2>4
    <3> HIDE DEF k
    <3> QED
      BY <1>3, <1>5, <1>6, <2>2, <3>1, <3>2, <3>3, AddEffect DEF k
  <2> HIDE DEF k, grown
  <2>7. \A s \in Sector : disk[s] # None => disk'[s] # None /\ disk'[s].is_dir = disk[s].is_dir
    BY <1>6, <2>4, <2>6
  <2>8. \A i \in Nat : InUse(disk, d, i) => Name(disk, d, i) # n
    BY <1>8 DEF NameTaken, Slots, InUse, Name
  <2>9. \A s \in Sector, i \in Nat : InUse(disk, s, i) => To(disk, s, i) \in Sector \ {f}
    BY <1>4, <1>6 DEF Tree, Leads
  <2>10. Tree(disk')
    <3>1. Leads(disk')
      BY <1>4, <1>6, <2>1, <2>6, <2>7 DEF Tree, Leads
    <3>2. Alone(disk')
      BY <1>4, <2>6, <2>9 DEF Tree, Alone
    <3>3. Distinct(disk')
      BY <1>4, <2>6, <2>8 DEF Tree, Distinct
    <3>4. disk'[ROOT_DIR_SECTOR] # None
      BY <1>4, <2>7, SizesAssumption DEF Tree, Sector, ROOT_DIR_SECTOR
    <3> QED
      BY <3>1, <3>2, <3>3, <3>4 DEF Tree
  <2>11. ASSUME NEW s \in Sector, s # f PROVE Unlisted(disk, s) => Unlisted(disk', s)
    BY <2>6, <2>11 DEF Unlisted
  <2>12. ~inode[f].removed /\ inode[f].open_cnt = 0
    BY <1>4, <1>6 DEF Marks, TypeOK, Opened
  <2>13. Marks'
    BY <1>1, <1>4, <2>7, <2>11, <2>12 DEF Marks
  <2>14. Held(disk', cwd', fds')
    BY <1>1, <1>4, <1>5, <2>7 DEF Held
  <2>15. Counts'
    <3> SUFFICES ASSUME NEW s \in Sector
                 PROVE  Covered(disk', cwd, fds, robbed, s, inode[s].open_cnt, inode[s].removed)
      BY <1>1 DEF Counts
    <3>1. CASE disk[s] # None
      <4>1. Covered(disk, cwd, fds, robbed, s, inode[s].open_cnt, inode[s].removed)
            /\ disk'[s].is_dir = disk[s].is_dir
        BY <1>4, <2>7, <3>1 DEF Counts
      <4>2. Holds(disk', cwd, fds, s) = Holds(disk, cwd, fds, s)
        BY <4>1 DEF Holds, WeightIn
      <4> QED
        BY <4>1, <4>2 DEF Covered
    <3>2. CASE disk[s] = None
      <4>1. \A q \in Procs : cwd[q] # s /\ s \notin fds[q]
        BY <1>4, <3>2, NoneAssumption, SizesAssumption DEF Held, Sector
      <4>2. Dwellers(cwd, s) = {} /\ Owners(fds, s) = {}
        BY <4>1 DEF Dwellers, Owners
      <4>3. Cardinality(Dwellers(cwd, s)) = 0 /\ Cardinality(Owners(fds, s)) = 0
        BY <4>2, FS_EmptySet
      <4>4. Holds(disk', cwd, fds, s) = 0
        BY <4>3 DEF Holds, WeightIn
      <4>5. inode[s].open_cnt = 0
        BY <1>4, <3>2 DEF Marks, TypeOK, Opened
      <4> QED
        BY <4>4, <4>5 DEF Covered
    <3> QED
      BY <3>1, <3>2
  <2>16. Listing(disk', fds', scan') /\ scan' \in Scans
    <3>1. \A s \in Sector \ {d} : disk'[s] = disk[s] \/ disk[s] = None
      BY <1>6, <2>4
    <3>2. \A i, j \in Nat :
            InUse(disk, d, i) /\ InUse(disk', d, j) /\ Name(disk, d, i) = Name(disk', d, j)
              => InUse(disk', d, i) /\ Name(disk', d, i) = Name(disk, d, i)
      BY <2>6
    <3>3. Rescan(disk', d) /\ fds' = fds
      BY <1>1, <1>8
    <3>4. Listing(disk', fds, scan') /\ scan' \in Scans
      BY <1>3, <1>4, <1>5, <2>6, <3>1, <3>2, <3>3, RescanKeeps
    <3> QED
      BY <3>3, <3>4
  <2>17. TypeOK'
    BY <1>1, <1>4, <2>6, <2>16 DEF TypeOK
  <2> QED
    BY <2>10, <2>13, <2>14, <2>15, <2>16, <2>17 DEF DirInv
<1> QED
  BY <1>2, <1>7, <1>8

-------------------------------------------------------------------------------
(* The theorems. *)

LEMMA InitKeeps ==
  ASSUME Init
  PROVE  DirInv
<1> DEFINE R == ROOT_DIR_SECTOR
           free == [i \in 1 .. NRoot - 1 |-> Free]
           es(g) == << Entry(None, R, g) >> \o free
<1>1. PICK g \in Garbage :
        disk = [s \in Sector |-> IF s # R THEN None
                                 ELSE [is_dir |-> TRUE,
                                       entries |-> << Entry(None, s, g) >> \o free]]
  BY DEF Init
<1>2. PICK p \in Procs :
        /\ cwd = [q \in Procs |-> IF q = p THEN R ELSE None]
        /\ inode = [s \in Sector |-> IF s = R THEN [Closed EXCEPT !.open_cnt = 1] ELSE Closed]
  BY DEF Init
<1>3. fds = [q \in Procs |-> {}] /\ scan = NoScan /\ robbed = {} /\ stray = FALSE
  BY DEF Init
<1>4. R \in Sector /\ R # None
  BY SizesAssumption, NoneAssumption DEF Sector, ROOT_DIR_SECTOR
<1>5. Entry(None, R, g) \in DirEntry /\ Free \in DirEntry /\ ~Free.in_use
  BY <1>4, GarbageAssumption, SizesAssumption DEF Entry, Free, DirEntry, Sector
<1>6. free \in Seq(DirEntry) /\ Len(free) = NRoot - 1
  BY <1>5, SizesAssumption
<1>7. /\ es(g) \in Seq(DirEntry) /\ Len(es(g)) = NRoot
      /\ \A i \in 2 .. NRoot : es(g)[i] = Free
  <2> DEFINE one == << Entry(None, R, g) >>
  <2>1. one \in Seq(DirEntry) /\ Len(one) = 1
    BY <1>5
  <2>2. \A i \in 1 .. NRoot - 1 : free[i] = Free
    OBVIOUS
  <2> HIDE DEF one, free
  <2> DEFINE all == one \o free
  <2>3. /\ all \in Seq(DirEntry) /\ Len(all) = Len(one) + Len(free)
        /\ \A i \in 1 .. Len(one) + Len(free) :
             all[i] = IF i <= Len(one) THEN one[i] ELSE free[i - Len(one)]
    BY <1>6, <2>1, ConcatProperties, Zenon
  <2> HIDE DEF all
  <2>4. Len(all) = NRoot /\ \A i \in 2 .. NRoot : all[i] = free[i - 1]
    BY <1>6, <2>1, <2>3, SizesAssumption
  <2>5. \A i \in 2 .. NRoot : i - 1 \in 1 .. NRoot - 1
    BY SizesAssumption
  <2> QED
    BY <2>2, <2>3, <2>4, <2>5 DEF one, all
<1>8. /\ disk[R] = [is_dir |-> TRUE, entries |-> es(g)]
      /\ \A s \in Sector : s # R => disk[s] = None
  BY <1>1, <1>4
<1> HIDE DEF es, free, R
<1>9. disk[R] \in Inode /\ disk[R] # None /\ disk[R].is_dir /\ disk[R].entries = es(g)
  <2> DEFINE x == es(g)
  <2>1. x \in Seq(DirEntry) /\ disk[R] = [is_dir |-> TRUE, entries |-> x]
    BY <1>7, <1>8
  <2> HIDE DEF x
  <2>2. disk[R] \in Inode /\ disk[R].is_dir /\ disk[R].entries = x
    BY <2>1 DEF Inode
  <2> QED
    BY <2>2, NoneAssumption DEF x
<1>10. disk \in Disks
  <2>1. disk = [s \in Sector |-> disk[s]]
    BY <1>1
  <2> QED
    BY <1>8, <1>9, <2>1 DEF Disks
<1>11. inode[R].open_cnt = 1 /\ \A s \in Sector : /\ inode[s] \in Opened /\ ~inode[s].removed
                                                  /\ s # R => inode[s].open_cnt = 0
  BY <1>2, <1>4 DEF Closed, Opened
<1>12. TypeOK
  <2>1. inode \in [Sector -> Opened]
    BY <1>2, <1>11
  <2>2. scan \in Scans
    BY <1>3 DEF NoScan, Scans
  <2>3. cwd \in [Procs -> Sector \union {None}] /\ fds \in [Procs -> SUBSET Sector]
    BY <1>2, <1>3, <1>4
  <2> QED
    BY <1>3, <1>10, <2>1, <2>2, <2>3 DEF TypeOK
<1>13. ASSUME NEW s \in Sector, NEW i \in Nat PROVE ~InUse(disk, s, i)
  BY <1>5, <1>7, <1>8, <1>9 DEF InUse
<1>14. Tree(disk)
  BY <1>9, <1>13 DEF Tree, Leads, Alone, Distinct, R
<1>15. Marks
  BY <1>3, <1>9, <1>11 DEF Marks
<1>16. Held(disk, cwd, fds)
  BY <1>2, <1>3, <1>9 DEF Held
<1>17. Counts
  <2> SUFFICES ASSUME NEW s \in Sector, disk[s] # None
               PROVE  Covered(disk, cwd, fds, robbed, s, inode[s].open_cnt,
                              inode[s].removed)
    BY DEF Counts
  <2>1. s = R
    BY <1>8
  <2>2. Dwellers(cwd, s) = {p} /\ Owners(fds, s) = {}
    BY <1>2, <1>3, <1>4, <2>1 DEF Dwellers, Owners
  <2>3. Cardinality(Dwellers(cwd, s)) = 1 /\ Cardinality(Owners(fds, s)) = 0
    BY <2>2, FS_Singleton, FS_EmptySet
  <2>4. Holds(disk, cwd, fds, s) = 1
    BY <2>3 DEF Holds, WeightIn
  <2> QED
    BY <1>9, <1>11, <2>1, <2>4 DEF Covered
<1>18. Listing(disk, fds, scan)
  BY <1>3 DEF Listing
<1> QED
  BY <1>12, <1>14, <1>15, <1>16, <1>17, <1>18 DEF DirInv

LEMMA NextKeeps ==
  ASSUME DirInv, [Next]_vars
  PROVE  DirInv'
<1>1. ASSUME NEW p \in Procs, NEW path \in Paths, NEW n \in Names, NEW is_dir \in BOOLEAN,
             NEW room \in BOOLEAN, filesys_create(p, path, n, is_dir, room)
      PROVE  DirInv'
  BY <1>1, CreateKeeps
<1>2. ASSUME NEW p \in Procs, NEW path \in Paths, NEW n, filesys_open(p, path, n)
      PROVE  DirInv'
  BY <1>2, OpenKeeps
<1>3. ASSUME NEW p \in Procs, NEW path \in Paths, NEW n \in Names, filesys_remove(p, path, n)
      PROVE  DirInv'
  BY <1>3, RemoveKeeps
<1>4. ASSUME NEW p \in Procs, NEW path \in Paths, filesys_chdir(p, path)
      PROVE  DirInv'
  BY <1>4, ChdirKeeps
<1>5. ASSUME NEW p \in Procs, NEW s \in Sector, sys_close(p, s) \/ StartScan(p, s)
      PROVE  DirInv'
  BY <1>5, CloseKeeps, StartScanKeeps
<1>6. ASSUME NEW p \in Procs, start_process(p) \/ process_exit(p)
      PROVE  DirInv'
  BY <1>6, StartKeeps, ExitKeeps
<1>7. ASSUME dir_readdir PROVE DirInv'
  BY <1>7, ReaddirKeeps
<1>8. CASE UNCHANGED vars
  BY <1>8 DEF vars, DirInv, TypeOK, Marks, Counts
<1> QED
  BY <1>1, <1>2, <1>3, <1>4, <1>5, <1>6, <1>7, <1>8 DEF Next

\* The calls keep the directories and the inodes as they should be, until one
\* uses an inode that is gone.
THEOREM DirectoriesKept == Spec => []DirInv
<1>1. Init => DirInv
  BY InitKeeps
<1>2. DirInv /\ [Next]_vars => DirInv'
  BY NextKeeps
<1> QED
  BY <1>1, <1>2, PTL DEF Spec

\* Every variable has its type, also when a call has gone astray.
THEOREM DirectoriesTyped == Spec => []TypeOK
<1>1. DirInv => TypeOK
  BY DEF DirInv
<1> QED
  BY <1>1, DirectoriesKept, PTL

\* dir_add, dir_remove and the inode_close that frees a sector leave no entry
\* without its inode, no inode with two entries and no name twice, whichever
\* directories processes have open or have removed meanwhile.
THEOREM EntriesHaveInodes == Spec => []EntriesLead
<1>1. ASSUME DirInv, ~stray, NEW e \in Listed
      PROVE  /\ EntryAt(e).sector \in used
             /\ \A g \in Listed \ {e} :
                  /\ EntryAt(e).sector # EntryAt(g).sector
                  /\ e[1] = g[1] => EntryAt(e).name # EntryAt(g).name
  <2>1. ASSUME NEW h \in Listed
        PROVE  /\ h[1] \in Sector /\ h[2] \in Nat /\ h = << h[1], h[2] >>
               /\ InUse(disk, h[1], h[2])
               /\ EntryAt(h).sector = To(disk, h[1], h[2])
               /\ EntryAt(h).name = Name(disk, h[1], h[2])
    <3>1. PICK s \in used :
            h \in {s} \X {i \in 2 .. Len(disk[s].entries) : disk[s].entries[i].in_use}
      BY <2>1 DEF Listed
    <3>2. /\ h[1] = s /\ h = << h[1], h[2] >> /\ h[2] \in 2 .. Len(disk[s].entries)
          /\ disk[s].entries[h[2]].in_use
      BY <3>1
    <3> QED
      BY <3>2 DEF EntryAt, InUse, To, Name, used
  <2>2. Leads(disk) /\ Alone(disk) /\ Distinct(disk)
    BY <1>1 DEF DirInv, Tree
  <2>3. EntryAt(e).sector \in used
    BY <1>1, <2>1, <2>2 DEF Leads, used
  <2>4. ASSUME NEW g \in Listed \ {e}
        PROVE  /\ EntryAt(e).sector # EntryAt(g).sector
               /\ e[1] = g[1] => EntryAt(e).name # EntryAt(g).name
    <3>1. ~(e[1] = g[1] /\ e[2] = g[2])
      BY <1>1, <2>1, <2>4
    <3> QED
      BY <1>1, <2>1, <2>2, <2>4, <3>1 DEF Alone, Distinct
  <2> QED
    BY <2>3, <2>4
<1>2. DirInv => EntriesLead
  BY <1>1 DEF EntriesLead
<1> QED
  BY <1>2, DirectoriesKept, PTL

\* inode_open, inode_reopen and inode_close keep in open_cnt the handles that
\* the descriptors and the current directories of all processes are: all of
\* them, and for a file that is not removed no other.  What is excepted is a
\* directory while it is open after a removal of it, granted or refused.
THEOREM HandlesCounted == Spec => []CountsHandles
<1>1. ASSUME DirInv, ~stray, NEW s \in used
      PROVE  /\ s \notin robbed => inode[s].open_cnt >= Handles(cwd, fds, s)
             /\ ~(disk[s].is_dir \/ inode[s].removed)
                  => inode[s].open_cnt = Handles(cwd, fds, s)
  <2>1. Covered(disk, cwd, fds, robbed, s, inode[s].open_cnt, inode[s].removed)
    BY <1>1 DEF DirInv, Counts, used
  <2> QED
    BY <2>1, HandlesAreHolds DEF Covered
<1>2. DirInv => CountsHandles
  BY <1>1 DEF CountsHandles
<1> QED
  BY <1>2, DirectoriesKept, PTL

\* dir_readdir, whose position is an index into the entries, shows every name
\* that stays, and shows it once: dir_add and dir_remove move no entry.
THEOREM ListingComplete == Spec => []ListsAll
<1>1. ASSUME DirInv, ~stray, scan # NoScan
      PROVE  /\ ~scan.twice
             /\ (\A i \in scan.pos .. Len(disk[scan.dir].entries) :
                   ~disk[scan.dir].entries[i].in_use) => scan.seen = scan.kept
  <2>1. Listing(disk, fds, scan) /\ scan \in Scans
    BY <1>1 DEF DirInv, TypeOK
  <2>2. /\ ~scan.twice /\ scan.seen \subseteq scan.kept
        /\ \A n \in scan.kept :
             \E i \in Nat : /\ InUse(disk, scan.dir, i) /\ Name(disk, scan.dir, i) = n
                            /\ n \in scan.seen <=> i < scan.pos
    BY <1>1, <2>1 DEF Listing
  <2>3. ASSUME \A i \in scan.pos .. Len(disk[scan.dir].entries) :
                 ~disk[scan.dir].entries[i].in_use,
               NEW n \in scan.kept
        PROVE  n \in scan.seen
    <3>1. PICK i \in Nat : /\ InUse(disk, scan.dir, i)
                           /\ n \in scan.seen <=> i < scan.pos
      BY <2>2
    <3>2. ~(i < scan.pos) => i \in scan.pos .. Len(disk[scan.dir].entries)
      BY <2>1, <3>1 DEF InUse, Scans
    <3> QED
      BY <2>3, <3>1, <3>2 DEF InUse
  <2> QED
    BY <2>2, <2>3
<1>2. DirInv => ListsAll
  BY <1>1 DEF ListsAll
<1> QED
  BY <1>2, DirectoriesKept, PTL
===============================================================================
