----------------------------- MODULE InodesProofs -----------------------------
(***************************************************************************)
(* Theorems about Inodes, for a device of any size, inodes and index       *)
(* blocks of any shape, any lengths of files and any writes of programs.   *)
(*                                                                         *)
(* Inv, the inductive invariant, sees the blocks of a file as trees, one   *)
(* for each entry of its inode: no sector is in two places of a tree or in *)
(* two trees, each is marked in the free map, and the blocks the length    *)
(* asks for are there.  It holds between the steps of a write too, and of  *)
(* the inode on the disk as of the open one.  From it follow that no       *)
(* sector has two uses and that no free sector is released.                *)
(*                                                                         *)
(* Exactly is for the time before a call fails: a file then has no block   *)
(* its length does not ask for, and every marked sector has a file.        *)
(*                                                                         *)
(* Refined is for the refinement of FileStore: a file has nothing but      *)
(* zeros past its length, so that it may grow over what it has there.      *)
(***************************************************************************)
EXTENDS Inodes, FiniteSetTheorems, SequenceTheorems, TLAPS

-------------------------------------------------------------------------------
(* Numbers. *)

LEMMA LeastNumber ==
  ASSUME NEW S \in SUBSET Nat, S # {}
  PROVE  \E x \in S : \A y \in S : x <= y
<1>1. PICK x \in S : \A y \in S : << y, x >> \notin OpToRel(<, Nat)
  BY NatLessThanWellFounded, WFMin
<1>2. \A y \in S : ~(y < x)
  BY <1>1 DEF OpToRel
<1>3. \A y \in S : y \in Nat
  OBVIOUS
<1>4. \A y \in S : x <= y
  BY <1>2, <1>3
<1> QED BY <1>4

\* What holds of 0, and of each number with the one before, holds up to n.
LEMMA UpTo ==
  ASSUME NEW n \in Nat, NEW G, 0 \in G,
         \A k \in 0 .. n : k > 0 /\ k - 1 \in G => k \in G
  PROVE  \A k \in 0 .. n : k \in G
<1> SUFFICES ASSUME NEW j \in 0 .. n, j \notin G PROVE FALSE
  OBVIOUS
<1> DEFINE T == {k \in 0 .. n : k \notin G}
<1>1. T \in SUBSET Nat /\ T # {}
  OBVIOUS
<1>2. PICK m \in T : \A k \in T : m <= k
  BY <1>1, LeastNumber
<1>3. m \in 0 .. n /\ m > 0 /\ m \notin G
  BY <1>2
<1>4. m - 1 \in 0 .. n /\ ~ (m <= m - 1)
  BY <1>3
<1>5. m - 1 \in G
  BY <1>2, <1>4
<1> QED
  BY <1>3, <1>5

\* Quotient and remainder.
LEMMA Quotient ==
  ASSUME NEW i \in Nat, NEW u \in Nat \ {0}
  PROVE  /\ i \div u \in Nat /\ i % u \in 0 .. u - 1
         /\ i = ((i \div u) * u) + (i % u)
BY SMT

LEMMA QuotientIs ==
  ASSUME NEW q \in Nat, NEW u \in Nat \ {0}, NEW r \in 0 .. u - 1
  PROVE  ((q * u) + r) \div u = q /\ ((q * u) + r) % u = r
BY SMT

LEMMA QuotientBelow ==
  ASSUME NEW i \in Nat, NEW u \in Nat \ {0}, NEW n \in Nat, i < n * u
  PROVE  i \div u < n
BY SMT

LEMMA SectorsFor ==
  ASSUME NEW n \in Nat, NEW u \in Nat \ {0}
  PROVE  /\ (n + u - 1) \div u \in Nat
         /\ \A q \in Nat : q < (n + u - 1) \div u <=> q * u < n
<1>1. (n + u - 1) \div u \in Nat /\ (n + u - 1) % u \in 0 .. u - 1
      /\ n + u - 1 = (((n + u - 1) \div u) * u) + ((n + u - 1) % u)
  <2>1. n + u - 1 \in Nat
    OBVIOUS
  <2> QED
    BY <2>1, Quotient
<1>2. PICK k \in Nat, r \in 0 .. u - 1 : k = (n + u - 1) \div u /\ n + u - 1 = k * u + r
  BY <1>1
<1>3. ASSUME NEW q \in Nat PROVE q < k <=> q * u < n
  BY <1>2
<1> QED
  BY <1>2, <1>3

LEMMA ProductUp ==
  ASSUME NEW m \in Nat, NEW n \in Nat, m <= n, NEW u \in Nat
  PROVE  m * u <= n * u /\ m * u \in Nat
BY SMT

-------------------------------------------------------------------------------
(* Sectors and their words. *)

Entries == 0 .. NIndex - 1
Word == Int \union Value
Block == [Words -> Word]
Disk == [Sector -> Block]

LEMMA WordsThere ==
  /\ Entries \subseteq Words /\ 0 .. NBytes - 1 \subseteq Words
  /\ 0 .. NDirect + 2 \subseteq Words /\ Words \subseteq Nat
<1> DEFINE S == {NDirect + 2, NIndex - 1, NBytes - 1}
<1>1. S \subseteq Nat
  BY SizesAssumption
<1>2. \E x \in S : \A y \in S : x >= y
  <2>1. CASE NDirect + 2 >= NIndex - 1 /\ NDirect + 2 >= NBytes - 1
    BY <1>1, <2>1
  <2>2. CASE NIndex - 1 >= NDirect + 2 /\ NIndex - 1 >= NBytes - 1
    BY <1>1, <2>2
  <2>3. CASE NBytes - 1 >= NDirect + 2 /\ NBytes - 1 >= NIndex - 1
    BY <1>1, <2>3
  <2> QED
    BY <1>1, <2>1, <2>2, <2>3
<1>3. Max(S) \in S /\ \A y \in S : Max(S) >= y
  BY <1>2 DEF Max
<1>4. PICK m \in Nat : m = Max(S) /\ m >= NDirect + 2 /\ m >= NIndex - 1 /\ m >= NBytes - 1
  BY <1>1, <1>3
<1>5. Words = 0 .. m
  BY <1>4 DEF Words
<1>6. NDirect \in Nat /\ NIndex \in Nat /\ NBytes \in Nat
  BY SizesAssumption
<1>7. ASSUME NEW n \in Int, n <= m PROVE 0 .. n \subseteq Words
  BY <1>4, <1>5, <1>7
<1>8. Entries \subseteq Words
  BY <1>4, <1>6, <1>7 DEF Entries
<1>9. 0 .. NBytes - 1 \subseteq Words /\ 0 .. NDirect + 2 \subseteq Words
  BY <1>4, <1>6, <1>7
<1>10. Words \subseteq Nat
  BY <1>5
<1> QED
  BY <1>8, <1>9, <1>10

LEMMA ZerosBlock == Zeros \in Block /\ \A w \in Words : Zeros[w] = 0
BY DEF Zeros, Block, Word

-------------------------------------------------------------------------------
(* Trees of sectors.  An entry of an inode leads to a tree of height 0, 1 or   *)
(* 2: a sector of data, or an index block whose entries lead to trees of one   *)
(* less.  Entry 0 leads to none.                                               *)

Heights == 0 .. 2
Unit(h) == IF h = 0 THEN 1 ELSE IF h = 1 THEN NIndex ELSE NIndex * NIndex

\* The sectors of a tree.
Nodes0(d, e) == {e} \ {0}
Nodes1(d, e) == IF e = 0 THEN {} ELSE {e} \union UNION {Nodes0(d, d[e][k]) : k \in Entries}
Nodes2(d, e) == IF e = 0 THEN {} ELSE {e} \union UNION {Nodes1(d, d[e][k]) : k \in Entries}
Nodes(h, d, e) ==
  IF h = 0 THEN Nodes0(d, e) ELSE IF h = 1 THEN Nodes1(d, e) ELSE Nodes2(d, e)

\* Its index blocks.
Inner1(d, e) == IF e = 0 THEN {} ELSE {e}
Inner2(d, e) == IF e = 0 THEN {} ELSE {e} \union UNION {Inner1(d, d[e][k]) : k \in Entries}
Inner(h, d, e) == IF h = 0 THEN {} ELSE IF h = 1 THEN Inner1(d, e) ELSE Inner2(d, e)

\* No sector is in it twice.
Apart1(d, e) ==
  e # 0 => \A k \in Entries :
             /\ e \notin Nodes0(d, d[e][k])
             /\ \A j \in Entries \ {k} : Nodes0(d, d[e][k]) \intersect Nodes0(d, d[e][j]) = {}
Apart2(d, e) ==
  e # 0 => \A k \in Entries :
             /\ e \notin Nodes1(d, d[e][k]) /\ Apart1(d, d[e][k])
             /\ \A j \in Entries \ {k} : Nodes1(d, d[e][k]) \intersect Nodes1(d, d[e][j]) = {}
Apart(h, d, e) == IF h = 0 THEN TRUE ELSE IF h = 1 THEN Apart1(d, e) ELSE Apart2(d, e)

\* Its sector of data number i, or 0 where there is none.
Leaf1(d, e, i) == IF e = 0 THEN 0 ELSE d[e][i]
Leaf2(d, e, i) == IF e = 0 THEN 0 ELSE Leaf1(d, d[e][i \div NIndex], i % NIndex)
Leaf(h, d, e, i) == IF h = 0 THEN e ELSE IF h = 1 THEN Leaf1(d, e, i) ELSE Leaf2(d, e, i)

\* The first m sectors of data are there.
Full(h, d, e, m) == \A i \in Nat : i < m /\ i < Unit(h) => Leaf(h, d, e, i) # 0

\* There is nothing but the first m sectors of data and the way to them.
Trim0(d, e, m) == m <= 0 => e = 0
Trim1(d, e, m) == /\ m <= 0 => e = 0
                  /\ e # 0 => \A k \in Entries : Trim0(d, d[e][k], m - k)
Trim2(d, e, m) == /\ m <= 0 => e = 0
                  /\ e # 0 => \A k \in Entries : Trim1(d, d[e][k], m - k * NIndex)
Trim(h, d, e, m) ==
  IF h = 0 THEN Trim0(d, e, m) ELSE IF h = 1 THEN Trim1(d, e, m) ELSE Trim2(d, e, m)

LEMMA Units == /\ Unit(0) = 1 /\ Unit(1) = NIndex /\ Unit(2) = NIndex * Unit(1)
               /\ \A h \in Heights : Unit(h) \in Nat \ {0}
               /\ \A h \in {0, 1} : Unit(h + 1) = NIndex * Unit(h) /\ h + 1 \in Heights
<1>1. NIndex * NIndex \in Nat \ {0}
  BY SizesAssumption, SMT
<1> QED
  BY <1>1, SizesAssumption DEF Unit, Heights

\* A tree above trees.
LEMMA NodesAbove ==
  ASSUME NEW h \in {0, 1}, NEW d, NEW e
  PROVE  Nodes(h + 1, d, e) =
           IF e = 0 THEN {} ELSE {e} \union UNION {Nodes(h, d, d[e][k]) : k \in Entries}
<1>1. CASE h = 0
  BY <1>1 DEF Nodes, Nodes1
<1>2. CASE h = 1
  BY <1>2 DEF Nodes, Nodes2
<1> QED
  BY <1>1, <1>2

LEMMA InnerAbove ==
  ASSUME NEW h \in {0, 1}, NEW d, NEW e
  PROVE  Inner(h + 1, d, e) =
           IF e = 0 THEN {} ELSE {e} \union UNION {Inner(h, d, d[e][k]) : k \in Entries}
<1>1. CASE h = 0
  BY <1>1 DEF Inner, Inner1
<1>2. CASE h = 1
  BY <1>2 DEF Inner, Inner2
<1> QED
  BY <1>1, <1>2

LEMMA ApartAbove ==
  ASSUME NEW h \in {0, 1}, NEW d, NEW e
  PROVE  Apart(h + 1, d, e) <=>
           (e # 0 => \A k \in Entries :
              /\ e \notin Nodes(h, d, d[e][k]) /\ Apart(h, d, d[e][k])
              /\ \A j \in Entries \ {k} :
                   Nodes(h, d, d[e][k]) \intersect Nodes(h, d, d[e][j]) = {})
<1>1. CASE h = 0
  BY <1>1 DEF Nodes, Apart, Apart1
<1>2. CASE h = 1
  BY <1>2 DEF Nodes, Apart, Apart2
<1> QED
  BY <1>1, <1>2

LEMMA LeafAbove ==
  ASSUME NEW h \in {0, 1}, NEW d, NEW e, NEW k \in Entries, NEW r \in 0 .. Unit(h) - 1
  PROVE  Leaf(h + 1, d, e, k * Unit(h) + r) = IF e = 0 THEN 0 ELSE Leaf(h, d, d[e][k], r)
<1>0. k \in Nat
  BY SizesAssumption DEF Entries
<1>1. CASE h = 0
  BY <1>0, <1>1, Units DEF Leaf, Leaf1
<1>2. CASE h = 1
  <2>1. (k * NIndex + r) \div NIndex = k /\ (k * NIndex + r) % NIndex = r
    <3>1. r \in 0 .. NIndex - 1 /\ NIndex \in Nat \ {0}
      BY <1>2, Units, SizesAssumption
    <3> QED
      BY <1>0, <3>1, QuotientIs
  <2> QED
    BY <1>2, <2>1, Units DEF Leaf, Leaf2
<1> QED
  BY <1>1, <1>2

\* Every number of a leaf has that form.
LEMMA LeafPlace ==
  ASSUME NEW h \in {0, 1}, NEW i \in Nat, i < Unit(h + 1)
  PROVE  \E k \in Entries, r \in 0 .. Unit(h) - 1 : i = k * Unit(h) + r
<1>1. PICK u \in Nat \ {0} : u = Unit(h)
  BY Units DEF Heights
<1>2. i \div u \in Nat /\ i % u \in 0 .. u - 1 /\ i = ((i \div u) * u) + (i % u)
  BY <1>1, Quotient
<1>3. i < NIndex * u
  BY <1>1, Units
<1>4. i \div u < NIndex
  BY <1>1, <1>3, QuotientBelow, SizesAssumption
<1>5. i \div u \in Entries /\ i % u \in 0 .. Unit(h) - 1
  BY <1>1, <1>2, <1>4, SizesAssumption DEF Entries
<1> QED
  BY <1>1, <1>2, <1>5

LEMMA TrimAbove ==
  ASSUME NEW h \in {0, 1}, NEW d, NEW e, NEW m \in Int
  PROVE  Trim(h + 1, d, e, m) <=>
           /\ m <= 0 => e = 0
           /\ e # 0 => \A k \in Entries : Trim(h, d, d[e][k], m - k * Unit(h))
<1>0. \A k \in Entries : k * 1 = k
  BY SizesAssumption DEF Entries
<1>1. CASE h = 0
  BY <1>0, <1>1, Units DEF Trim, Trim1
<1>2. CASE h = 1
  BY <1>2, Units DEF Trim, Trim2
<1> QED
  BY <1>1, <1>2

LEMMA NoTree ==
  ASSUME NEW h \in Heights, NEW d
  PROVE  /\ Nodes(h, d, 0) = {} /\ Inner(h, d, 0) = {} /\ Apart(h, d, 0)
         /\ \A i : Leaf(h, d, 0, i) = 0
         /\ \A m : Trim(h, d, 0, m)
BY DEF Heights, Nodes, Nodes0, Nodes1, Nodes2, Inner, Inner1, Inner2, Apart, Apart1,
       Apart2, Leaf, Leaf1, Leaf2, Trim, Trim0, Trim1, Trim2

\* What is not under an index block does not matter to the tree.
Same(h, d, d2, e) ==
  /\ Nodes(h, d2, e) = Nodes(h, d, e)
  /\ Inner(h, d2, e) = Inner(h, d, e)
  /\ Apart(h, d2, e) <=> Apart(h, d, e)
  /\ \A i \in Nat : i < Unit(h) => Leaf(h, d2, e, i) = Leaf(h, d, e, i)
  /\ \A m \in Int : Trim(h, d2, e, m) <=> Trim(h, d, e, m)

LEMMA SameAbove ==
  ASSUME NEW h \in {0, 1}, NEW d, NEW d2, NEW e,
         e # 0 => d2[e] = d[e] /\ \A k \in Entries : Same(h, d, d2, d[e][k])
  PROVE  Same(h + 1, d, d2, e)
<1>1. CASE e = 0
  <2>1. \A i \in Nat : i < Unit(h + 1) =>
          Leaf(h + 1, d2, e, i) = Leaf(h + 1, d, e, i)
    BY <1>1, NoTree DEF Heights
  <2>2. h + 1 \in Heights
    BY DEF Heights
  <2> QED
    BY <1>1, <2>1, <2>2, NoTree DEF Same
<1>2. CASE e # 0
  <2>1. \A k \in Entries :
          /\ d2[e][k] = d[e][k]
          /\ Nodes(h, d2, d2[e][k]) = Nodes(h, d, d[e][k])
          /\ Inner(h, d2, d2[e][k]) = Inner(h, d, d[e][k])
          /\ Apart(h, d2, d2[e][k]) <=> Apart(h, d, d[e][k])
    BY <1>2 DEF Same
  <2>2. Nodes(h + 1, d2, e) = Nodes(h + 1, d, e)
    <3>1. Nodes(h + 1, d2, e) = {e} \union UNION {Nodes(h, d2, d2[e][k]) : k \in Entries}
      BY <1>2, NodesAbove
    <3>2. Nodes(h + 1, d, e) = {e} \union UNION {Nodes(h, d, d[e][k]) : k \in Entries}
      BY <1>2, NodesAbove
    <3>3. {Nodes(h, d2, d2[e][k]) : k \in Entries} = {Nodes(h, d, d[e][k]) : k \in Entries}
      BY <2>1
    <3> QED
      BY <3>1, <3>2, <3>3
  <2>3. Inner(h + 1, d2, e) = Inner(h + 1, d, e)
    <3>1. Inner(h + 1, d2, e) = {e} \union UNION {Inner(h, d2, d2[e][k]) : k \in Entries}
      BY <1>2, InnerAbove
    <3>2. Inner(h + 1, d, e) = {e} \union UNION {Inner(h, d, d[e][k]) : k \in Entries}
      BY <1>2, InnerAbove
    <3>3. {Inner(h, d2, d2[e][k]) : k \in Entries} = {Inner(h, d, d[e][k]) : k \in Entries}
      BY <2>1
    <3> QED
      BY <3>1, <3>2, <3>3
  <2>4. Apart(h + 1, d2, e) <=> Apart(h + 1, d, e)
    <3> DEFINE G(dd, k) == /\ e \notin Nodes(h, dd, dd[e][k])
                           /\ Apart(h, dd, dd[e][k])
                           /\ \A j \in Entries \ {k} :
                                Nodes(h, dd, dd[e][k]) \intersect Nodes(h, dd, dd[e][j]) = {}
    <3>1. Apart(h + 1, d2, e) <=> \A k \in Entries : G(d2, k)
      BY <1>2, ApartAbove
    <3>2. Apart(h + 1, d, e) <=> \A k \in Entries : G(d, k)
      BY <1>2, ApartAbove
    <3>3. \A k \in Entries : G(d2, k) <=> G(d, k)
      BY <2>1
    <3> HIDE DEF G
    <3> QED
      BY <3>1, <3>2, <3>3
  <2>5. ASSUME NEW i \in Nat, i < Unit(h + 1)
        PROVE  Leaf(h + 1, d2, e, i) = Leaf(h + 1, d, e, i)
    <3>1. PICK k \in Entries : \E r \in 0 .. Unit(h) - 1 : i = k * Unit(h) + r
      BY <2>5, LeafPlace
    <3>2. PICK r \in 0 .. Unit(h) - 1 : i = k * Unit(h) + r
      BY <3>1
    <3>3. Leaf(h, d2, d2[e][k], r) = Leaf(h, d, d[e][k], r)
      <4>1. r \in Nat /\ r < Unit(h)
        BY Units DEF Heights
      <4> QED
        BY <1>2, <2>1, <4>1 DEF Same
    <3> QED
      BY <1>2, <3>2, <3>3, LeafAbove
  <2>6. ASSUME NEW m \in Int PROVE Trim(h + 1, d2, e, m) <=> Trim(h + 1, d, e, m)
    <3>1. \A k \in Entries : m - k * Unit(h) \in Int
      BY SizesAssumption, Units DEF Entries, Heights
    <3>2. \A k \in Entries :
            Trim(h, d2, d2[e][k], m - k * Unit(h)) <=> Trim(h, d, d[e][k], m - k * Unit(h))
      BY <1>2, <2>1, <3>1 DEF Same
    <3> QED
      BY <1>2, <3>2, TrimAbove
  <2> QED
    BY <2>2, <2>3, <2>4, <2>5, <2>6 DEF Same
<1> QED
  BY <1>1, <1>2

LEMMA SameTree ==
  ASSUME NEW h \in Heights, NEW d, NEW d2, NEW e,
         \A s \in Inner(h, d, e) : d2[s] = d[s]
  PROVE  Same(h, d, d2, e)
<1>1. \A x : Same(0, d, d2, x)
  BY DEF Same, Nodes, Nodes0, Inner, Apart, Leaf, Trim, Trim0
<1>2. ASSUME NEW x, \A s \in Inner(1, d, x) : d2[s] = d[s] PROVE Same(1, d, d2, x)
  <2>1. x # 0 => d2[x] = d[x]
    BY <1>2 DEF Inner, Inner1
  <2>2. Same(0 + 1, d, d2, x)
    BY <1>1, <2>1, SameAbove
  <2> QED
    BY <2>2
<1>3. CASE h = 2
  <2>1. e # 0 => d2[e] = d[e] /\ \A k \in Entries : Same(1, d, d2, d[e][k])
    <3>1. e # 0 => d2[e] = d[e]
      BY <1>3 DEF Inner, Inner2
    <3>2. ASSUME e # 0, NEW k \in Entries PROVE Same(1, d, d2, d[e][k])
      <4>1. Inner(1, d, d[e][k]) \subseteq Inner(h, d, e)
        BY <1>3, <3>2 DEF Inner, Inner2
      <4> QED
        BY <1>2, <4>1
    <3> QED
      BY <3>1, <3>2
  <2>2. Same(1 + 1, d, d2, e)
    BY <2>1, SameAbove
  <2> QED
    BY <1>3, <2>2
<1> QED
  BY <1>1, <1>2, <1>3 DEF Heights

\* The index blocks and the leaves are sectors of the tree, and not the same.
LEMMA InnerAreNodes ==
  ASSUME NEW h \in Heights, NEW d, NEW e
  PROVE  Inner(h, d, e) \subseteq Nodes(h, d, e) /\ 0 \notin Nodes(h, d, e)
<1>1. \A x : Inner1(d, x) \subseteq Nodes1(d, x) /\ 0 \notin Nodes1(d, x)
  BY DEF Inner1, Nodes1, Nodes0
<1>2. Inner2(d, e) \subseteq Nodes2(d, e) /\ 0 \notin Nodes2(d, e)
  BY <1>1 DEF Inner2, Nodes2
<1>3. 0 \notin Nodes0(d, e)
  BY DEF Nodes0
<1> QED
  BY <1>1, <1>2, <1>3 DEF Heights, Inner, Nodes

LEMMA RootIsNode ==
  ASSUME NEW h \in Heights, NEW d, NEW e, e # 0
  PROVE  e \in Nodes(h, d, e)
BY DEF Heights, Nodes, Nodes0, Nodes1, Nodes2

LEMMA LeafIsNode ==
  ASSUME NEW h \in Heights, NEW d, NEW e, NEW i \in Nat, i < Unit(h), Leaf(h, d, e, i) # 0
  PROVE  Leaf(h, d, e, i) \in Nodes(h, d, e)
<1>1. CASE h = 0
  BY <1>1, NoTree, RootIsNode DEF Leaf
<1>2. ASSUME NEW x, NEW j \in Nat, j < NIndex, Leaf1(d, x, j) # 0
      PROVE  Leaf1(d, x, j) \in Nodes1(d, x)
  <2>1. j \in Entries
    BY <1>2, SizesAssumption DEF Entries
  <2> QED
    BY <1>2, <2>1 DEF Leaf1, Nodes1, Nodes0
<1>3. CASE h = 2
  <2>1. i < NIndex * NIndex
    BY <1>3 DEF Unit
  <2>2. i \div NIndex \in Nat /\ i % NIndex \in 0 .. NIndex - 1
    BY Quotient, SizesAssumption
  <2>3. i \div NIndex \in Entries
    BY <2>1, <2>2, QuotientBelow, SizesAssumption DEF Entries
  <2>4. e # 0 /\ Leaf(h, d, e, i) = Leaf1(d, d[e][i \div NIndex], i % NIndex)
    BY <1>3 DEF Leaf, Leaf2
  <2>5. Leaf(h, d, e, i) \in Nodes1(d, d[e][i \div NIndex])
    BY <1>2, <2>2, <2>4, SizesAssumption
  <2> QED
    BY <1>3, <2>3, <2>4, <2>5 DEF Nodes, Nodes2
<1>4. CASE h = 1
  BY <1>2, <1>4 DEF Unit, Leaf, Nodes
<1> QED
  BY <1>1, <1>3, <1>4 DEF Heights

LEMMA LeafNotInner ==
  ASSUME NEW h \in Heights, NEW d, NEW e, Apart(h, d, e), NEW i \in Nat, i < Unit(h),
         Leaf(h, d, e, i) # 0
  PROVE  Leaf(h, d, e, i) \notin Inner(h, d, e)
<1>1. CASE h = 0
  BY <1>1 DEF Inner
<1>2. ASSUME NEW x, Apart1(d, x), NEW j \in Nat, j < NIndex, Leaf1(d, x, j) # 0
      PROVE  Leaf1(d, x, j) \notin Inner1(d, x)
  <2>1. j \in Entries
    BY <1>2, SizesAssumption DEF Entries
  <2> QED
    BY <1>2, <2>1 DEF Leaf1, Nodes0, Apart1, Inner1
<1>3. CASE h = 2
  <2>1. i < NIndex * NIndex
    BY <1>3 DEF Unit
  <2>2. i \div NIndex \in Nat /\ i % NIndex \in 0 .. NIndex - 1
    BY Quotient, SizesAssumption
  <2>3. i \div NIndex \in Entries
    BY <2>1, <2>2, QuotientBelow, SizesAssumption DEF Entries
  <2> DEFINE l == Leaf(h, d, e, i)
             k == i \div NIndex
  <2>4. e # 0 /\ l = Leaf1(d, d[e][k], i % NIndex)
    BY <1>3 DEF Leaf, Leaf2
  <2>5. Apart1(d, d[e][k]) /\ e \notin Nodes1(d, d[e][k])
        /\ \A j \in Entries \ {k} : Nodes1(d, d[e][k]) \intersect Nodes1(d, d[e][j]) = {}
    BY <1>3, <2>3, <2>4 DEF Apart, Apart2
  <2>6. l \in Nodes1(d, d[e][k])
    <3>1. i % NIndex \in Nat /\ i % NIndex < Unit(1)
      BY <2>2, SizesAssumption DEF Unit
    <3>2. l = Leaf(1, d, d[e][k], i % NIndex)
      BY <2>4 DEF Leaf
    <3> QED
      BY <3>1, <3>2, LeafIsNode DEF Nodes, Heights
  <2>7. l \notin Inner1(d, d[e][k])
    BY <1>2, <2>2, <2>4, <2>5, SizesAssumption
  <2>8. \A j \in Entries : Inner1(d, d[e][j]) \subseteq Nodes1(d, d[e][j])
    BY DEF Inner1, Nodes1
  <2>9. l # e /\ \A j \in Entries : l \notin Inner1(d, d[e][j])
    BY <2>3, <2>5, <2>6, <2>7, <2>8
  <2> QED
    BY <1>3, <2>4, <2>9 DEF Inner, Inner2
<1>4. CASE h = 1
  BY <1>2, <1>4 DEF Unit, Leaf, Inner, Apart
<1> QED
  BY <1>1, <1>3, <1>4 DEF Heights

-------------------------------------------------------------------------------
(* What a reservation does.  N are the sectors it has taken.                   *)

States == [map : SUBSET Sector, disk : Disk, ok : BOOLEAN]

\* A tree that grows keeps its sectors and gets some of N.  New sectors of data
\* are zero.  If the reservation succeeds, the first num are there, and there
\* is no more than there was or than these need.
TreeGrown(h, d, e, num, d2, e2, N, ok) ==
  /\ e # 0 => e2 = e
  /\ Nodes(h, d, e) \subseteq Nodes(h, d2, e2)
  /\ Nodes(h, d2, e2) \subseteq Nodes(h, d, e) \union N
  /\ Apart(h, d2, e2)
  /\ \A i \in Nat :
       i < Unit(h) =>
         /\ Leaf(h, d, e, i) # 0 => Leaf(h, d2, e2, i) = Leaf(h, d, e, i)
         /\ Leaf(h, d, e, i) = 0 /\ Leaf(h, d2, e2, i) # 0
              => Leaf(h, d2, e2, i) \in N /\ d2[Leaf(h, d2, e2, i)] = Zeros
  /\ ok => /\ Full(h, d2, e2, num)
           /\ \A m \in Int : m >= num /\ Trim(h, d, e, m) => Trim(h, d2, e2, m)

\* Before and after the reservation for one entry.
TreePre(h, st, e) ==
  e \in Sector /\ Apart(h, st.disk, e) /\ Nodes(h, st.disk, e) \subseteq st.map

Grown(h, st, e, num, st2, e2) ==
  LET N == st2.map \ st.map IN
  /\ st2 \in States /\ st.map \subseteq st2.map /\ e2 \in Sector
  /\ TreeGrown(h, st.disk, e, num, st2.disk, e2, N, st2.ok)
  /\ \A s \in Sector : s # 0 /\ s \notin N /\ s \notin Inner(h, st.disk, e)
                         => st2.disk[s] = st.disk[s]
  /\ st2.ok => st2.disk[0] = st.disk[0] /\ N \subseteq Nodes(h, st2.disk, e2)

\* The same for the first n entries of a block: entry q leads to a tree of
\* height H[q], and is to have K[q] sectors of data.
BlockPre(H, n, st, b) ==
  /\ n \in Nat /\ 0 .. n - 1 \subseteq Words
  /\ \A q \in 0 .. n - 1 : H[q] \in Heights
  /\ st \in States /\ 0 \in st.map
  /\ b \in Block
  /\ \A q \in 0 .. n - 1 : TreePre(H[q], st, b[q])
  /\ \A q, r \in 0 .. n - 1 :
       q # r => Nodes(H[q], st.disk, b[q]) \intersect Nodes(H[r], st.disk, b[r]) = {}

BlockGrown(H, K, n, st, b, st2, b2) ==
  LET N == st2.map \ st.map IN
  /\ st2 \in States /\ st.map \subseteq st2.map /\ b2 \in Block
  /\ \A w \in Words : w \notin 0 .. n - 1 => b2[w] = b[w]
  /\ \A q \in 0 .. n - 1 :
       /\ b2[q] \in Sector
       /\ TreeGrown(H[q], st.disk, b[q], K[q], st2.disk, b2[q], N, st2.ok)
  /\ \A q, r \in 0 .. n - 1 :
       q # r => Nodes(H[q], st2.disk, b2[q]) \intersect Nodes(H[r], st2.disk, b2[r]) = {}
  /\ \A s \in Sector :
       s # 0 /\ s \notin N /\ (\A q \in 0 .. n - 1 : s \notin Inner(H[q], st.disk, b[q]))
         => st2.disk[s] = st.disk[s]
  /\ st2.ok => /\ st2.disk[0] = st.disk[0]
               /\ \A s \in N : \E q \in 0 .. n - 1 : s \in Nodes(H[q], st2.disk, b2[q])

\* A tree that has grown stays as it is while others grow.
LEMMA SameNodes ==
  ASSUME NEW h \in Heights, NEW d, NEW e, NEW d2, \A s \in Nodes(h, d, e) : d2[s] = d[s]
  PROVE  Same(h, d, d2, e)
BY SameTree, InnerAreNodes

LEMMA TreeStays ==
  ASSUME NEW h \in Heights, NEW d, NEW e, NEW num, NEW d2, NEW e2, NEW N, NEW ok,
         TreeGrown(h, d, e, num, d2, e2, N, ok),
         NEW d3, \A s \in Nodes(h, d2, e2) : d3[s] = d2[s],
         NEW N3, N \subseteq N3, NEW ok3, ok3 => ok
  PROVE  TreeGrown(h, d, e, num, d3, e2, N3, ok3)
<1>1. Same(h, d2, d3, e2)
  BY SameTree, InnerAreNodes
<1>2. \A i \in Nat :
        i < Unit(h) =>
          /\ Leaf(h, d3, e2, i) = Leaf(h, d2, e2, i)
          /\ Leaf(h, d3, e2, i) # 0 => d3[Leaf(h, d3, e2, i)] = d2[Leaf(h, d3, e2, i)]
  BY <1>1, LeafIsNode DEF Same
<1>3. Full(h, d2, e2, num) => Full(h, d3, e2, num)
  BY <1>2 DEF Full
<1>4. \A i \in Nat :
       i < Unit(h) =>
         /\ Leaf(h, d, e, i) # 0 => Leaf(h, d3, e2, i) = Leaf(h, d, e, i)
         /\ Leaf(h, d, e, i) = 0 /\ Leaf(h, d3, e2, i) # 0
              => Leaf(h, d3, e2, i) \in N3 /\ d3[Leaf(h, d3, e2, i)] = Zeros
  BY <1>2 DEF TreeGrown
<1>5. /\ Nodes(h, d3, e2) = Nodes(h, d2, e2)
      /\ Apart(h, d3, e2) <=> Apart(h, d2, e2)
      /\ \A m \in Int : Trim(h, d3, e2, m) <=> Trim(h, d2, e2, m)
  BY <1>1 DEF Same
<1> QED
  BY <1>1, <1>3, <1>4, <1>5 DEF TreeGrown

\* What grows may have been left alone by others before.
LEMMA TreeFrom ==
  ASSUME NEW h \in Heights, NEW d, NEW e, NEW d1, Same(h, d, d1, e),
         NEW num, NEW d2, NEW e2, NEW N, NEW ok, TreeGrown(h, d1, e, num, d2, e2, N, ok),
         NEW N2, N \subseteq N2
  PROVE  TreeGrown(h, d, e, num, d2, e2, N2, ok)
<1>1. \A i \in Nat :
       i < Unit(h) =>
         /\ Leaf(h, d, e, i) # 0 => Leaf(h, d2, e2, i) = Leaf(h, d, e, i)
         /\ Leaf(h, d, e, i) = 0 /\ Leaf(h, d2, e2, i) # 0
              => Leaf(h, d2, e2, i) \in N2 /\ d2[Leaf(h, d2, e2, i)] = Zeros
  BY DEF TreeGrown, Same
<1>2. ok => \A m \in Int : m >= num /\ Trim(h, d, e, m) => Trim(h, d2, e2, m)
  BY DEF TreeGrown, Same
<1>3. Nodes(h, d1, e) = Nodes(h, d, e)
  BY DEF Same
<1> QED
  BY <1>1, <1>2, <1>3 DEF TreeGrown

\* A tree that is left alone has grown as far as it had to, by nothing.
LEMMA TreeLeft ==
  ASSUME NEW h \in Heights, NEW d, NEW e, NEW d2, Same(h, d, d2, e), Apart(h, d, e),
         NEW num \in Int, NEW N, NEW ok, ok => num <= 0
  PROVE  TreeGrown(h, d, e, num, d2, e, N, ok)
<1>1. ok => Full(h, d2, e, num)
  BY DEF Full
<1> QED
  BY <1>1 DEF TreeGrown, Same

\* The entries the loop has not come to are as they were.
LEMMA NotReached ==
  ASSUME NEW H, NEW K, NEW n, NEW st, NEW b, BlockPre(H, n, st, b),
         NEW i \in 0 .. n, NEW st2, NEW b2, BlockGrown(H, K, i, st, b, st2, b2),
         NEW q \in i .. n - 1
  PROVE  /\ Same(H[q], st.disk, st2.disk, b[q])
         /\ TreePre(H[q], st2, b[q])
         /\ \A r \in 0 .. i - 1 : \A s \in Nodes(H[q], st.disk, b[q]) :
              s \notin Nodes(H[r], st2.disk, b2[r])
<1>0. /\ n \in Nat /\ 0 .. n - 1 \subseteq Words /\ st \in States /\ 0 \in st.map
      /\ \A r \in 0 .. n - 1 : H[r] \in Heights
  BY DEF BlockPre
<1>1. q \in 0 .. n - 1 /\ q \notin 0 .. i - 1 /\ H[q] \in Heights
      /\ TreePre(H[q], st, b[q])
  BY <1>0 DEF BlockPre
<1>3. \A r \in 0 .. i - 1 : r \in 0 .. n - 1 /\ r # q /\ H[r] \in Heights
        /\ Nodes(H[q], st.disk, b[q]) \intersect Nodes(H[r], st.disk, b[r]) = {}
  BY <1>0, <1>1 DEF BlockPre
<1>4. ASSUME NEW s \in Inner(H[q], st.disk, b[q]) PROVE st2.disk[s] = st.disk[s]
  <2>1. s \in Nodes(H[q], st.disk, b[q]) /\ s # 0
    BY <1>1, InnerAreNodes
  <2>2. s \in Sector /\ s \notin st2.map \ st.map
    BY <1>0, <1>1, <2>1 DEF TreePre, States
  <2>3. \A r \in 0 .. i - 1 : s \notin Inner(H[r], st.disk, b[r])
    BY <1>3, <2>1, InnerAreNodes
  <2> QED
    BY <2>1, <2>2, <2>3 DEF BlockGrown
<1>5. Same(H[q], st.disk, st2.disk, b[q])
  BY <1>1, <1>4, SameTree
<1>6. TreePre(H[q], st2, b[q])
  BY <1>1, <1>5 DEF TreePre, Same, BlockGrown
<1>7. ASSUME NEW r \in 0 .. i - 1
      PROVE  \A s \in Nodes(H[q], st.disk, b[q]) : s \notin Nodes(H[r], st2.disk, b2[r])
  <2>1. Nodes(H[r], st2.disk, b2[r]) \subseteq
          Nodes(H[r], st.disk, b[r]) \union (st2.map \ st.map)
    BY DEF BlockGrown, TreeGrown
  <2> QED
    BY <1>1, <1>3, <2>1 DEF TreePre
<1> QED
  BY <1>5, <1>6, <1>7

LEMMA BlockNone ==
  ASSUME NEW H, NEW K, NEW st \in States, NEW b \in Block
  PROVE  BlockGrown(H, K, 0, st, b, st, b)
BY DEF BlockGrown

\* One turn of the loop.
LEMMA BlockStep ==
  ASSUME NEW H, NEW K, NEW n, NEW st, NEW b, BlockPre(H, n, st, b),
         NEW i \in 0 .. n - 1, NEW st1, NEW b1, BlockGrown(H, K, i, st, b, st1, b1),
         st1.ok,
         NEW st2, NEW e2, Grown(H[i], st1, b1[i], K[i], st2, e2)
  PROVE  BlockGrown(H, K, i + 1, st, b, st2, [b1 EXCEPT ![i] = e2])
<1> DEFINE b2 == [b1 EXCEPT ![i] = e2]
           N == st2.map \ st.map
           N1 == st1.map \ st.map
           N2 == st2.map \ st1.map
<1>0. /\ n \in Nat /\ 0 .. n - 1 \subseteq Words /\ st \in States /\ 0 \in st.map
      /\ \A r \in 0 .. n - 1 : H[r] \in Heights
  BY DEF BlockPre
<1>1. /\ i \in 0 .. n /\ i \in i .. n - 1 /\ i \in Words /\ H[i] \in Heights
      /\ i \in 0 .. i /\ 0 .. (i + 1) - 1 = (0 .. i - 1) \union {i}
  BY <1>0
<1>2. /\ b1[i] = b[i]
      /\ Same(H[i], st.disk, st1.disk, b[i])
      /\ TreePre(H[i], st1, b[i])
      /\ \A r \in 0 .. i - 1 :
           Nodes(H[i], st.disk, b[i]) \intersect Nodes(H[r], st1.disk, b1[r]) = {}
  <2>1. b1[i] = b[i]
    BY <1>1 DEF BlockGrown
  <2>2. /\ Same(H[i], st.disk, st1.disk, b[i])
        /\ TreePre(H[i], st1, b[i])
        /\ \A r \in 0 .. i - 1 : \A s \in Nodes(H[i], st.disk, b[i]) :
             s \notin Nodes(H[r], st1.disk, b1[r])
    BY <1>1, NotReached
  <2> QED
    BY <2>1, <2>2
<1>3. /\ st2 \in States /\ st1 \in States /\ b1 \in Block /\ e2 \in Sector
      /\ st.map \subseteq st1.map /\ st1.map \subseteq st2.map
  BY DEF Grown, BlockGrown
<1>4. b2 \in Block /\ b2[i] = e2 /\ \A w \in Words : w # i => b2[w] = b1[w]
  BY <1>1, <1>3 DEF Block, Word, Sector
<1>5. N1 \subseteq N /\ N2 \subseteq N /\ N \subseteq N1 \union N2 /\ 0 \notin N
      /\ N2 \intersect st1.map = {}
  BY <1>0, <1>3
<1>6. TreeGrown(H[i], st1.disk, b[i], K[i], st2.disk, e2, N2, st2.ok)
  BY <1>2 DEF Grown
<1>7. TreeGrown(H[i], st.disk, b[i], K[i], st2.disk, b2[i], N, st2.ok)
  BY <1>1, <1>2, <1>4, <1>5, <1>6, TreeFrom
<1>8. ASSUME NEW q \in 0 .. i - 1
      PROVE  /\ q \in 0 .. n - 1 /\ q # i /\ b2[q] = b1[q] /\ b2[q] \in Sector
             /\ Nodes(H[q], st1.disk, b1[q]) \subseteq st1.map
             /\ TreeGrown(H[q], st.disk, b[q], K[q], st2.disk, b2[q], N, st2.ok)
             /\ Nodes(H[q], st2.disk, b2[q]) = Nodes(H[q], st1.disk, b1[q])
  <2>1. q \in 0 .. n - 1 /\ q # i /\ q \in Words /\ H[q] \in Heights
    BY <1>0, <1>1
  <2>2. b2[q] = b1[q]
    BY <1>4, <2>1
  <2>3. TreeGrown(H[q], st.disk, b[q], K[q], st1.disk, b1[q], N1, st1.ok) /\ b1[q] \in Sector
    BY DEF BlockGrown
  <2>4. Nodes(H[q], st1.disk, b1[q]) \subseteq st1.map
    <3>1. Nodes(H[q], st.disk, b[q]) \subseteq st.map
      BY <2>1 DEF BlockPre, TreePre
    <3> QED
      BY <1>3, <2>3, <3>1 DEF TreeGrown
  <2>5. ASSUME NEW s \in Nodes(H[q], st1.disk, b1[q]) PROVE st2.disk[s] = st1.disk[s]
    <3>1. s \in Sector /\ s # 0 /\ s \notin N2
      BY <1>3, <1>5, <2>1, <2>4, InnerAreNodes DEF States
    <3>2. s \notin Inner(H[i], st1.disk, b[i])
      <4>1. Nodes(H[i], st1.disk, b[i]) = Nodes(H[i], st.disk, b[i])
        BY <1>2 DEF Same
      <4> QED
        BY <1>1, <1>2, <4>1, InnerAreNodes
    <3> QED
      BY <1>2, <3>1, <3>2 DEF Grown
  <2>6. /\ TreeGrown(H[q], st.disk, b[q], K[q], st2.disk, b1[q], N, st2.ok)
        /\ Nodes(H[q], st2.disk, b1[q]) = Nodes(H[q], st1.disk, b1[q])
    <3> HIDE DEF N, N1
    <3>1. TreeGrown(H[q], st.disk, b[q], K[q], st2.disk, b1[q], N, st2.ok)
      BY <1>5, <2>1, <2>3, <2>5, TreeStays
    <3>2. Same(H[q], st1.disk, st2.disk, b1[q])
      BY <2>1, <2>5, SameNodes
    <3> QED
      BY <3>1, <3>2 DEF Same
  <2> QED
    BY <2>1, <2>2, <2>3, <2>4, <2>6
<1>9. \A q \in 0 .. (i + 1) - 1 :
       /\ b2[q] \in Sector
       /\ TreeGrown(H[q], st.disk, b[q], K[q], st2.disk, b2[q], N, st2.ok)
  BY <1>1, <1>3, <1>4, <1>7, <1>8
<1>10. \A w \in Words : w \notin 0 .. (i + 1) - 1 => b2[w] = b[w]
  BY <1>1, <1>4 DEF BlockGrown
<1>11. ASSUME NEW q \in 0 .. i - 1
       PROVE  Nodes(H[q], st2.disk, b2[q]) \intersect Nodes(H[i], st2.disk, b2[i]) = {}
  <2>1. Nodes(H[i], st2.disk, b2[i]) \subseteq Nodes(H[i], st.disk, b[i]) \union N2
    BY <1>2, <1>4, <1>6 DEF TreeGrown, Same
  <2> QED
    BY <1>2, <1>5, <1>8, <2>1
<1>12. \A q, r \in 0 .. (i + 1) - 1 :
        q # r => Nodes(H[q], st2.disk, b2[q]) \intersect Nodes(H[r], st2.disk, b2[r]) = {}
  <2> SUFFICES ASSUME NEW q \in 0 .. (i + 1) - 1, NEW r \in 0 .. (i + 1) - 1, q # r
               PROVE  Nodes(H[q], st2.disk, b2[q]) \intersect Nodes(H[r], st2.disk, b2[r]) = {}
    OBVIOUS
  <2>1. CASE q = i
    BY <1>1, <1>11, <2>1
  <2>2. CASE r = i
    BY <1>1, <1>11, <2>2
  <2>3. CASE q # i /\ r # i
    <3>1. q \in 0 .. i - 1 /\ r \in 0 .. i - 1
      BY <1>1, <2>3
    <3>2. Nodes(H[q], st1.disk, b1[q]) \intersect Nodes(H[r], st1.disk, b1[r]) = {}
      BY <3>1 DEF BlockGrown
    <3> QED
      BY <1>8, <3>1, <3>2
  <2> QED
    BY <2>1, <2>2, <2>3
<1>13. ASSUME NEW s \in Sector, s # 0, s \notin N,
              \A q \in 0 .. (i + 1) - 1 : s \notin Inner(H[q], st.disk, b[q])
       PROVE  st2.disk[s] = st.disk[s]
  <2>1. st1.disk[s] = st.disk[s]
    BY <1>1, <1>5, <1>13 DEF BlockGrown
  <2>2. s \notin Inner(H[i], st1.disk, b[i])
    BY <1>1, <1>2, <1>13 DEF Same
  <2> QED
    BY <1>2, <1>5, <1>13, <2>1, <2>2 DEF Grown
<1>14. ASSUME st2.ok
       PROVE  /\ st2.disk[0] = st.disk[0]
              /\ \A s \in N : \E q \in 0 .. (i + 1) - 1 : s \in Nodes(H[q], st2.disk, b2[q])
  <2>1. st2.disk[0] = st.disk[0]
    BY <1>14 DEF Grown, BlockGrown
  <2>2. ASSUME NEW s \in N1
        PROVE  \E q \in 0 .. (i + 1) - 1 : s \in Nodes(H[q], st2.disk, b2[q])
    <3>1. PICK q \in 0 .. i - 1 : s \in Nodes(H[q], st1.disk, b1[q])
      BY <2>2 DEF BlockGrown
    <3> QED
      BY <1>1, <1>8, <3>1
  <2>3. ASSUME NEW s \in N2
        PROVE  s \in Nodes(H[i], st2.disk, b2[i])
    BY <1>4, <1>14, <2>3 DEF Grown
  <2> QED
    BY <1>1, <1>5, <2>1, <2>2, <2>3
<1>15. st.map \subseteq st2.map
  BY <1>3
<1> QED
  BY <1>3, <1>4, <1>9, <1>10, <1>12, <1>13, <1>14, <1>15 DEF BlockGrown

\* What comes after the entries the loop has come to, when it has failed, or
\* when no more are needed.
LEMMA BlockMore ==
  ASSUME NEW H, NEW K, NEW n, NEW st, NEW b, BlockPre(H, n, st, b),
         \A q \in 0 .. n - 1 : K[q] \in Int,
         NEW i \in 0 .. n, NEW st2, NEW b2, BlockGrown(H, K, i, st, b, st2, b2),
         st2.ok => \A q \in i .. n - 1 : K[q] <= 0
  PROVE  BlockGrown(H, K, n, st, b, st2, b2)
<1> DEFINE N == st2.map \ st.map
<1>0. /\ n \in Nat /\ 0 .. n - 1 \subseteq Words /\ st \in States /\ 0 \in st.map
      /\ \A r \in 0 .. n - 1 : H[r] \in Heights
  BY DEF BlockPre
<1>1. /\ \A q \in 0 .. n - 1 : q \in 0 .. i - 1 \/ q \in i .. n - 1
      /\ \A q \in i .. n - 1 : q \in 0 .. n - 1
      /\ \A q \in 0 .. i - 1 : q \in 0 .. n - 1
  BY <1>0
<1>2. \A q \in i .. n - 1 :
        /\ b2[q] = b[q]
        /\ Same(H[q], st.disk, st2.disk, b[q])
        /\ TreePre(H[q], st2, b[q])
        /\ \A r \in 0 .. i - 1 :
             Nodes(H[q], st.disk, b[q]) \intersect Nodes(H[r], st2.disk, b2[r]) = {}
  <2>1. \A q \in i .. n - 1 : q \in Words /\ q \notin 0 .. i - 1
    BY <1>0
  <2>2. \A q \in i .. n - 1 : b2[q] = b[q]
    BY <2>1 DEF BlockGrown
  <2>3. ASSUME NEW q \in i .. n - 1
        PROVE  /\ Same(H[q], st.disk, st2.disk, b[q])
               /\ TreePre(H[q], st2, b[q])
               /\ \A r \in 0 .. i - 1 : \A s \in Nodes(H[q], st.disk, b[q]) :
                    s \notin Nodes(H[r], st2.disk, b2[r])
    BY NotReached
  <2> QED
    BY <2>2, <2>3
<1>3. ASSUME NEW q \in i .. n - 1
      PROVE  /\ b2[q] \in Sector
             /\ TreeGrown(H[q], st.disk, b[q], K[q], st2.disk, b2[q], N, st2.ok)
             /\ Nodes(H[q], st2.disk, b2[q]) = Nodes(H[q], st.disk, b[q])
  <2>1. q \in 0 .. n - 1 /\ H[q] \in Heights /\ K[q] \in Int
    BY <1>0, <1>1
  <2>2. b2[q] \in Sector /\ Apart(H[q], st.disk, b[q])
    BY <1>2, <2>1 DEF BlockPre, TreePre
  <2>3. TreeGrown(H[q], st.disk, b[q], K[q], st2.disk, b[q], N, st2.ok)
    <3> HIDE DEF N
    <3> QED
      BY <1>2, <2>1, <2>2, TreeLeft
  <2> QED
    BY <1>2, <2>2, <2>3 DEF Same
<1>4. \A w \in Words : w \notin 0 .. n - 1 => b2[w] = b[w]
  BY <1>1 DEF BlockGrown
<1>5. \A q \in 0 .. n - 1 :
       /\ b2[q] \in Sector
       /\ TreeGrown(H[q], st.disk, b[q], K[q], st2.disk, b2[q], N, st2.ok)
  BY <1>1, <1>3 DEF BlockGrown
<1>6. \A q, r \in 0 .. n - 1 :
       q # r => Nodes(H[q], st2.disk, b2[q]) \intersect Nodes(H[r], st2.disk, b2[r]) = {}
  <2> SUFFICES ASSUME NEW q \in 0 .. n - 1, NEW r \in 0 .. n - 1, q # r
               PROVE  Nodes(H[q], st2.disk, b2[q]) \intersect Nodes(H[r], st2.disk, b2[r]) = {}
    OBVIOUS
  <2>1. CASE q \in i .. n - 1 /\ r \in i .. n - 1
    BY <1>3, <2>1 DEF BlockPre
  <2>2. CASE q \in i .. n - 1 /\ r \in 0 .. i - 1
    BY <1>2, <1>3, <2>2
  <2>3. CASE q \in 0 .. i - 1 /\ r \in i .. n - 1
    BY <1>2, <1>3, <2>3
  <2>4. CASE q \in 0 .. i - 1 /\ r \in 0 .. i - 1
    BY <2>4 DEF BlockGrown
  <2> QED
    BY <1>1, <2>1, <2>2, <2>3, <2>4
<1>7. \A s \in Sector :
       s # 0 /\ s \notin N /\ (\A q \in 0 .. n - 1 : s \notin Inner(H[q], st.disk, b[q]))
         => st2.disk[s] = st.disk[s]
  BY <1>1 DEF BlockGrown
<1>8. st2.ok => /\ st2.disk[0] = st.disk[0]
                /\ \A s \in N : \E q \in 0 .. n - 1 : s \in Nodes(H[q], st2.disk, b2[q])
  BY <1>1 DEF BlockGrown
<1>9. st2 \in States /\ st.map \subseteq st2.map /\ b2 \in Block
  BY DEF BlockGrown
<1> QED
  BY <1>4, <1>5, <1>6, <1>7, <1>8, <1>9 DEF BlockGrown

-------------------------------------------------------------------------------
(* The loop of a reservation, for trees of height h: of num sectors of data,   *)
(* each tree gets u, and the last one what is left.                            *)

Flat(h) == [q \in Nat |-> h]
Share(num, u) == [q \in Nat |-> MinOf(num - q * u, u)]
Turns(num, u) == (num + u - 1) \div u

LEMMA Shares ==
  ASSUME NEW num \in Nat, NEW u \in Nat \ {0}, NEW q \in Nat
  PROVE  /\ Share(num, u)[q] \in Int /\ Turns(num, u) \in Nat
         /\ q < Turns(num, u) => Share(num, u)[q] >= 1
         /\ q >= Turns(num, u) => Share(num, u)[q] <= 0
<1>1. Turns(num, u) \in Nat /\ (q < Turns(num, u) <=> q * u < num)
  BY SectorsFor DEF Turns
<1>2. PICK p \in Int : p = q * u
  OBVIOUS
<1> QED
  BY <1>1, <1>2 DEF Share, MinOf

\* What a call for one entry must do if the entry's tree is in order.
Grows(h, st, e, num, st2, e2) ==
  st \in States /\ 0 \in st.map /\ st.ok /\ TreePre(h, st, e)
    => Grown(h, st, e, num, st2, e2)

\* f[i] is where the loop has come to after i turns.
LoopSteps(h, st, b, num, u, f) ==
  /\ f[0] = [st |-> st, block |-> b]
  /\ \A i \in 0 .. Turns(num, u) - 1 :
       \/ ~f[i].st.ok /\ f[i + 1] = f[i]
       \/ /\ f[i].st.ok
          /\ \E st2, e2 :
               /\ f[i + 1] = [st |-> st2, block |-> [f[i].block EXCEPT ![i] = e2]]
               /\ Grows(h, f[i].st, f[i].block[i], Share(num, u)[i], st2, e2)

LEMMA LoopTurn ==
  ASSUME NEW h \in Heights, NEW n, NEW st, NEW b, BlockPre(Flat(h), n, st, b),
         NEW num \in Nat, NEW u \in Nat \ {0}, Turns(num, u) <= n,
         NEW f, LoopSteps(h, st, b, num, u, f),
         NEW i \in Nat, i < Turns(num, u),
         BlockGrown(Flat(h), Share(num, u), i, st, b, f[i].st, f[i].block)
  PROVE  BlockGrown(Flat(h), Share(num, u), i + 1, st, b, f[i + 1].st, f[i + 1].block)
<1> DEFINE H == Flat(h)
           K == Share(num, u)
<1>1. n \in Nat /\ Turns(num, u) \in Nat /\ i \in 0 .. n /\ i + 1 \in 0 .. n /\ i \in 0 .. n - 1
      /\ i \in 0 .. Turns(num, u) - 1 /\ i \in i .. n - 1
  <2>1. n \in Nat
    BY DEF BlockPre
  <2>2. PICK t \in Nat : t = Turns(num, u)
    BY Shares
  <2> QED
    BY <2>1, <2>2
<1>2. H[i] = h /\ \A q \in 0 .. n - 1 : K[q] \in Int
  BY <1>1, Shares DEF Flat
<1>3. CASE ~f[i].st.ok
  <2>1. f[i + 1] = f[i]
    BY <1>1, <1>3 DEF LoopSteps
  <2>2. BlockPre(H, i + 1, st, b)
    <3>1. \A q \in 0 .. (i + 1) - 1 : q \in 0 .. n - 1
      BY <1>1
    <3> QED
      BY <1>1, <3>1 DEF BlockPre
  <2>3. i \in 0 .. i + 1 /\ \A q \in 0 .. (i + 1) - 1 : K[q] \in Int
    BY <1>1, <1>2
  <2>4. f[i].st.ok => \A q \in i .. (i + 1) - 1 : K[q] <= 0
    BY <1>3
  <2> HIDE DEF H, K
  <2>5. BlockGrown(H, K, i + 1, st, b, f[i].st, f[i].block)
    BY <2>2, <2>3, <2>4, BlockMore DEF H, K
  <2> QED
    BY <2>1, <2>5 DEF H, K
<1>4. CASE f[i].st.ok
  <2>1. PICK st2, e2 :
          /\ f[i + 1] = [st |-> st2, block |-> [f[i].block EXCEPT ![i] = e2]]
          /\ Grows(h, f[i].st, f[i].block[i], K[i], st2, e2)
    BY <1>1, <1>4 DEF LoopSteps
  <2>2. TreePre(H[i], f[i].st, b[i])
    <3> HIDE DEF H, K
    <3> QED
      BY <1>1, NotReached DEF H, K
  <2>3. f[i].block[i] = b[i]
    <3>1. i \in Words /\ i \notin 0 .. i - 1
      BY <1>1 DEF BlockPre
    <3> QED
      BY <3>1 DEF BlockGrown
  <2>4. f[i].st \in States /\ 0 \in f[i].st.map
    BY DEF BlockGrown, BlockPre
  <2>5. Grown(H[i], f[i].st, f[i].block[i], K[i], st2, e2)
    BY <1>2, <1>4, <2>1, <2>2, <2>3, <2>4 DEF Grows
  <2>6. BlockGrown(H, K, i + 1, st, b, st2, [f[i].block EXCEPT ![i] = e2])
    <3> HIDE DEF H, K
    <3> QED
      BY <1>1, <1>4, <2>5, BlockStep DEF H, K
  <2> QED
    BY <2>1, <2>6
<1> QED
  BY <1>3, <1>4

LEMMA LoopGrows ==
  ASSUME NEW h \in Heights, NEW n, NEW st, NEW b, BlockPre(Flat(h), n, st, b),
         NEW num \in Nat, NEW u \in Nat \ {0}, Turns(num, u) <= n,
         NEW f, LoopSteps(h, st, b, num, u, f)
  PROVE  BlockGrown(Flat(h), Share(num, u), n, st, b,
                    f[Turns(num, u)].st, f[Turns(num, u)].block)
<1> DEFINE T == Turns(num, u)
           G == {i \in 0 .. T : BlockGrown(Flat(h), Share(num, u), i, st, b, f[i].st, f[i].block)}
<1>1. T \in Nat /\ n \in Nat
  BY Shares DEF BlockPre
<1>2. 0 \in G
  <2>1. f[0].st = st /\ f[0].block = b
    BY DEF LoopSteps
  <2>2. st \in States /\ b \in Block
    BY DEF BlockPre
  <2>3. BlockGrown(Flat(h), Share(num, u), 0, st, b, st, b)
    BY <2>2, BlockNone
  <2> QED
    BY <1>1, <2>1, <2>3
<1>3. ASSUME NEW k \in 0 .. T, k > 0, k - 1 \in G PROVE k \in G
  <2>1. k - 1 \in Nat /\ k - 1 < T /\ (k - 1) + 1 = k
    BY <1>1, <1>3
  <2>2. BlockGrown(Flat(h), Share(num, u), k - 1, st, b, f[k - 1].st, f[k - 1].block)
    BY <1>3
  <2>3. BlockGrown(Flat(h), Share(num, u), (k - 1) + 1, st, b,
                   f[(k - 1) + 1].st, f[(k - 1) + 1].block)
    BY <2>1, <2>2, LoopTurn
  <2> QED
    BY <2>1, <2>3
<1> HIDE DEF G
<1>4. T \in G
  BY <1>1, <1>2, <1>3, UpTo
<1>5. BlockGrown(Flat(h), Share(num, u), T, st, b, f[T].st, f[T].block)
  BY <1>4 DEF G
<1>6. /\ \A q \in 0 .. n - 1 : Share(num, u)[q] \in Int
      /\ \A q \in T .. n - 1 : Share(num, u)[q] <= 0
      /\ T \in 0 .. n
  BY <1>1, Shares
<1> QED
  BY <1>5, <1>6, BlockMore

-------------------------------------------------------------------------------
(* The calls for one entry. *)

LEMMA StateIs ==
  ASSUME NEW st \in States
  PROVE  st = [map |-> st.map, disk |-> st.disk, ok |-> st.ok]
BY DEF States

\* free_map_allocate.  Some is what it gives when there is a free sector.
Some(st, s) == [st |-> [map |-> st.map \union {s}, disk |-> st.disk, ok |-> TRUE],
                entry |-> s]
NoneLeft(st) == [st |-> [map |-> st.map, disk |-> st.disk, ok |-> FALSE], entry |-> 0]

LEMMA Allocated ==
  ASSUME NEW st \in States, st.ok
  PROVE  \/ /\ Sector \subseteq st.map /\ free_map_allocate(st) = NoneLeft(st)
         \/ \E s \in Sector \ st.map : free_map_allocate(st) = Some(st, s)
<1>1. st.map \subseteq Sector /\ st.ok = TRUE
  BY DEF States
<1>2. CASE Sector \ st.map = {}
  <2>1. free_map_allocate(st) = [st |-> [st EXCEPT !.ok = FALSE], entry |-> 0]
    BY <1>2 DEF free_map_allocate
  <2>2. [st EXCEPT !.ok = FALSE] = [map |-> st.map, disk |-> st.disk, ok |-> FALSE]
    <3> DEFINE m == st.map
               d == st.disk
               o == st.ok
    <3>1. st = [map |-> m, disk |-> d, ok |-> o]
      BY StateIs
    <3> HIDE DEF m, d, o
    <3>2. PICK x : x = FALSE
      OBVIOUS
    <3>3. [st EXCEPT !.ok = x] = [map |-> m, disk |-> d, ok |-> x]
      BY ONLY <3>1
    <3> QED
      BY <3>2, <3>3 DEF m, d
  <2> QED
    BY <1>2, <2>1, <2>2 DEF NoneLeft
<1>3. CASE Sector \ st.map # {}
  <2>1. PICK s : s = Min(Sector \ st.map)
    OBVIOUS
  <2>2. s \in Sector \ st.map
    <3>1. Sector \ st.map \subseteq Nat
      BY DEF Sector
    <3>2. \E x \in Sector \ st.map : \A y \in Sector \ st.map : x <= y
      BY <1>3, <3>1, LeastNumber
    <3> QED
      BY <2>1, <3>2 DEF Min
  <2>3. free_map_allocate(st) = [st |-> [st EXCEPT !.map = st.map \union {s}], entry |-> s]
    BY <1>3, <2>1 DEF free_map_allocate
  <2>4. [st EXCEPT !.map = st.map \union {s}] =
          [map |-> st.map \union {s}, disk |-> st.disk, ok |-> TRUE]
    <3> DEFINE m == st.map
               d == st.disk
               o == st.ok
               x == st.map \union {s}
    <3>1. st = [map |-> m, disk |-> d, ok |-> o]
      BY StateIs
    <3> HIDE DEF m, d, o, x
    <3>2. [st EXCEPT !.map = x] = [map |-> x, disk |-> d, ok |-> o]
      BY ONLY <3>1
    <3>3. o = TRUE
      BY <1>1 DEF o
    <3> QED
      BY <3>2, <3>3 DEF d, x
  <2> QED
    BY <2>2, <2>3, <2>4 DEF Some
<1> QED
  BY <1>2, <1>3

LEMMA LeafGrows ==
  ASSUME NEW st, NEW e, NEW num \in Int, num >= 1
  PROVE  Grows(0, st, e, num, ReserveLeaf(st, e, num).st, ReserveLeaf(st, e, num).entry)
<1> SUFFICES ASSUME st \in States, 0 \in st.map, st.ok, TreePre(0, st, e)
             PROVE  Grown(0, st, e, num, ReserveLeaf(st, e, num).st, ReserveLeaf(st, e, num).entry)
  BY DEF Grows
<1> DEFINE r == ReserveLeaf(st, e, num)
<1>0. /\ e \in Sector /\ 0 \in Sector /\ st.disk \in Disk /\ st.map \subseteq Sector
      /\ \A s \in Sector : s # 0 => s \in Nat
      /\ \A d, x : Nodes(0, d, x) = {x} \ {0} /\ Inner(0, d, x) = {} /\ Apart(0, d, x)
      /\ \A d, x, i : Leaf(0, d, x, i) = x
      /\ \A d, x, m : Trim(0, d, x, m) <=> (m <= 0 => x = 0)
  BY SizesAssumption
  DEF TreePre, States, Sector, Nodes, Nodes0, Inner, Apart, Leaf, Trim, Trim0
<1>1. CASE e # 0
  <2>1. r.st = st /\ r.entry = e
    BY <1>1 DEF ReserveLeaf
  <2>2. TreeGrown(0, st.disk, e, num, st.disk, e, st.map \ st.map, st.ok)
    BY <1>0, <1>1 DEF TreeGrown, Full
  <2> QED
    BY <1>0, <2>1, <2>2 DEF Grown
<1>2. CASE e = 0
  <2>1. CASE free_map_allocate(st) = NoneLeft(st)
    <3>1. r = NoneLeft(st)
      BY <1>2, <2>1 DEF ReserveLeaf, NoneLeft
    <3>2. r.st = [map |-> st.map, disk |-> st.disk, ok |-> FALSE] /\ r.entry = 0
      BY <3>1 DEF NoneLeft
    <3>3. r.st \in States /\ r.st.map = st.map /\ r.st.disk = st.disk /\ ~r.st.ok
      BY <1>0, <3>2 DEF States
    <3>4. TreeGrown(0, st.disk, 0, num, st.disk, 0, st.map \ st.map, r.st.ok)
      BY <1>0, <3>3 DEF TreeGrown
    <3> HIDE DEF r
    <3> QED
      BY <1>0, <1>2, <3>2, <3>3, <3>4 DEF Grown, r
  <2>2. ASSUME NEW s \in Sector \ st.map, free_map_allocate(st) = Some(st, s)
        PROVE  Grown(0, st, e, num, r.st, r.entry)
    <3> DEFINE d2 == [st.disk EXCEPT ![s] = Zeros]
    <3>1. r = [Some(st, s) EXCEPT !.st.disk[s] = Zeros]
      BY <1>2, <2>2 DEF ReserveLeaf, Some
    <3>2. r.st = [map |-> st.map \union {s}, disk |-> d2, ok |-> TRUE] /\ r.entry = s
      BY <3>1 DEF Some
    <3>3. s \in Sector \ st.map /\ s # 0
      BY <2>2
    <3>4. d2 \in Disk /\ d2[s] = Zeros /\ \A t \in Sector \ {s} : d2[t] = st.disk[t]
      BY <1>0, <3>3, ZerosBlock DEF Disk
    <3>5. r.st \in States /\ r.st.map = st.map \union {s} /\ r.st.disk = d2
          /\ r.st.map \ st.map = {s} /\ r.entry = s
      BY <1>0, <3>2, <3>3, <3>4 DEF States
    <3> HIDE DEF d2, r
    <3>6. \A ok : TreeGrown(0, st.disk, 0, num, d2, s, {s}, ok)
      BY <1>0, <3>3, <3>4 DEF TreeGrown, Full
    <3>7. TreeGrown(0, st.disk, e, num, r.st.disk, r.entry, r.st.map \ st.map, r.st.ok)
      BY <1>2, <3>5, <3>6
    <3> QED
      BY <1>0, <1>2, <3>3, <3>4, <3>5, <3>7 DEF Grown
  <2> QED
    BY <2>1, <2>2, Allocated
<1> QED
  BY <1>1, <1>2

-------------------------------------------------------------------------------
(* The loops of ReserveEntries are loops as above. *)

Call(h, st, e, num) == IF h = 0 THEN ReserveLeaf(st, e, num) ELSE ReserveLevel1(st, e, num)

\* What turn k makes of acc.
Turn(h, acc, k, num, u) ==
  LET c == Call(h, acc.st, acc.block[k], MinOf(num - k * u, u))
  IN  IF ~acc.st.ok THEN acc
      ELSE [st |-> c.st, block |-> [acc.block EXCEPT ![k] = c.entry]]

Run(h, st, b, num, u, n, f) ==
  f = [i \in 0 .. n |-> IF i = 0 THEN [st |-> st, block |-> b]
                        ELSE Turn(h, f[i - 1], i - 1, num, u)]

LEMMA RunExists ==
  ASSUME NEW h, NEW st, NEW b, NEW num, NEW u, NEW n \in Nat
  PROVE  \E f : Run(h, st, b, num, u, n, f)
<1> DEFINE start == [st |-> st, block |-> b]
           turn(x, k) == Turn(h, x, k, num, u)
           G == {m \in 0 .. n : \E f : Run(h, st, b, num, u, m, f)}
<1>1. 0 \in G
  <2>1. PICK f : f = [k \in 0 .. 0 |-> start]
    OBVIOUS
  <2>2. f = [k \in 0 .. 0 |-> IF k = 0 THEN start ELSE turn(f[k - 1], k - 1)]
    BY <2>1
  <2> QED
    BY <2>2 DEF Run
<1>2. ASSUME NEW m \in 0 .. n, m > 0, m - 1 \in G PROVE m \in G
  <2>0. m \in Nat /\ 0 .. m = (0 .. m - 1) \union {m}
    BY <1>2
  <2>1. PICK f : Run(h, st, b, num, u, m - 1, f)
    BY <1>2
  <2>2. PICK g : g = [k \in 0 .. m |-> IF k < m THEN f[k] ELSE turn(f[m - 1], m - 1)]
    OBVIOUS
  <2>3. \A k \in 0 .. m - 1 : g[k] = f[k]
    BY <2>0, <2>2
  <2>4. g[m] = turn(g[m - 1], m - 1)
    BY <1>2, <2>0, <2>2, <2>3
  <2>5. \A k \in 0 .. m - 1 : g[k] = IF k = 0 THEN start ELSE turn(g[k - 1], k - 1)
    <3> SUFFICES ASSUME NEW k \in 0 .. m - 1
                 PROVE  g[k] = IF k = 0 THEN start ELSE turn(g[k - 1], k - 1)
      OBVIOUS
    <3>1. f[k] = IF k = 0 THEN start ELSE turn(f[k - 1], k - 1)
      BY <2>1 DEF Run
    <3>2. g[k] = f[k] /\ (k # 0 => g[k - 1] = f[k - 1])
      BY <2>0, <2>3
    <3> QED
      BY <3>1, <3>2
  <2>6. \A k \in 0 .. m : g[k] = IF k = 0 THEN start ELSE turn(g[k - 1], k - 1)
    BY <1>2, <2>0, <2>4, <2>5
  <2>7. Run(h, st, b, num, u, m, g)
    BY <2>2, <2>6 DEF Run
  <2> QED
    BY <2>7
<1> HIDE DEF G
<1>3. n \in G
  BY <1>1, <1>2, UpTo
<1> QED
  BY <1>3 DEF G

LEMMA RunIsLoop ==
  ASSUME NEW h \in {0, 1}, NEW st, NEW b, NEW num \in Nat, NEW u \in Nat \ {0},
         NEW f, Run(h, st, b, num, u, Turns(num, u), f),
         \A st1, e : \A m \in Int :
           m >= 1 /\ m <= u => Grows(h, st1, e, m, Call(h, st1, e, m).st, Call(h, st1, e, m).entry)
  PROVE  LoopSteps(h, st, b, num, u, f)
<1>1. Turns(num, u) \in Nat
  BY Shares
<1>2. \A i \in 0 .. Turns(num, u) :
        f[i] = IF i = 0 THEN [st |-> st, block |-> b] ELSE Turn(h, f[i - 1], i - 1, num, u)
  BY DEF Run
<1>3. f[0] = [st |-> st, block |-> b]
  BY <1>1, <1>2
<1>4. ASSUME NEW i \in 0 .. Turns(num, u) - 1
      PROVE  \/ ~f[i].st.ok /\ f[i + 1] = f[i]
             \/ /\ f[i].st.ok
                /\ \E st2, e2 :
                     /\ f[i + 1] = [st |-> st2, block |-> [f[i].block EXCEPT ![i] = e2]]
                     /\ Grows(h, f[i].st, f[i].block[i], Share(num, u)[i], st2, e2)
  <2>1. i \in Nat /\ i < Turns(num, u) /\ i + 1 \in 0 .. Turns(num, u) /\ i + 1 # 0
        /\ (i + 1) - 1 = i
    BY <1>1
  <2>2. f[i + 1] = Turn(h, f[i], i, num, u)
    BY <1>2, <2>1
  <2>3. CASE ~f[i].st.ok
    BY <2>2, <2>3 DEF Turn
  <2>4. CASE f[i].st.ok
    <3>1. PICK m : m = MinOf(num - i * u, u)
      OBVIOUS
    <3>2. Share(num, u)[i] = m /\ m \in Int /\ m >= 1 /\ m <= u
      <4>1. Share(num, u)[i] = m
        BY <2>1, <3>1 DEF Share
      <4>2. m \in Int /\ m >= 1
        BY <2>1, <4>1, Shares
      <4>3. PICK p \in Int : p = i * u
        BY <2>1
      <4>4. m <= u
        BY <3>1, <4>3 DEF MinOf
      <4> QED
        BY <4>1, <4>2, <4>4
    <3>3. PICK c : c = Call(h, f[i].st, f[i].block[i], m)
      OBVIOUS
    <3>4. f[i + 1] = [st |-> c.st, block |-> [f[i].block EXCEPT ![i] = c.entry]]
      BY <2>2, <2>4, <3>1, <3>3 DEF Turn
    <3>5. Grows(h, f[i].st, f[i].block[i], m, c.st, c.entry)
      BY <3>2, <3>3
    <3> QED
      BY <2>4, <3>2, <3>4, <3>5
  <2> QED
    BY <2>3, <2>4
<1> QED
  BY <1>3, <1>4 DEF LoopSteps

LeafRun(st, block, num, unit, n, run) ==
  run = [i \in 0 .. n |->
        IF i = 0 THEN [st |-> st, block |-> block]
        ELSE LET acc == run[i - 1]
                 c == ReserveLeaf(acc.st, acc.block[i - 1], MinOf(num - (i - 1) * unit, unit))
             IN  IF ~acc.st.ok THEN acc
                 ELSE [st |-> c.st, block |-> [acc.block EXCEPT ![i - 1] = c.entry]]]

LEMMA LeavesGrow ==
  ASSUME NEW n, NEW st, NEW b, BlockPre(Flat(0), n, st, b),
         NEW num \in Nat, num <= n
  PROVE  BlockGrown(Flat(0), Share(num, 1), n, st, b,
                    ReserveEntries(ReserveLeaf, st, b, num, 1).st,
                    ReserveEntries(ReserveLeaf, st, b, num, 1).block)
<1>1. Turns(num, 1) \in Nat /\ Turns(num, 1) <= n
  BY DEF Turns
<1>2. PICK f : f = CHOOSE g : LeafRun(st, b, num, 1, Turns(num, 1), g)
  OBVIOUS
<1>3. ReserveEntries(ReserveLeaf, st, b, num, 1) = f[Turns(num, 1)]
  BY <1>2 DEF ReserveEntries, LeafRun, Turns
<1>4. \A g : Run(0, st, b, num, 1, Turns(num, 1), g) => LeafRun(st, b, num, 1, Turns(num, 1), g)
  BY DEF Run, LeafRun, Turn, Call
<1>5. \A g : LeafRun(st, b, num, 1, Turns(num, 1), g) => Run(0, st, b, num, 1, Turns(num, 1), g)
  BY DEF Run, LeafRun, Turn, Call
<1>6. Run(0, st, b, num, 1, Turns(num, 1), f)
  BY <1>1, <1>2, <1>4, <1>5, RunExists
<1>7. \A st1, e : \A m \in Int :
        m >= 1 /\ m <= 1 => Grows(0, st1, e, m, Call(0, st1, e, m).st, Call(0, st1, e, m).entry)
  BY LeafGrows DEF Call
<1>8. LoopSteps(0, st, b, num, 1, f)
  BY <1>6, <1>7, RunIsLoop
<1>9. BlockGrown(Flat(0), Share(num, 1), n, st, b, f[Turns(num, 1)].st, f[Turns(num, 1)].block)
  BY <1>1, <1>8, LoopGrows DEF Heights
<1> QED
  BY <1>3, <1>9

-------------------------------------------------------------------------------
(* An index block and the trees under it. *)

LEMMA TreeAbove ==
  ASSUME NEW h \in {0, 1}, NEW d, NEW e, e # 0, NEW num \in Nat, NEW d2, NEW N, NEW ok,
         \A q \in Entries : /\ TreeGrown(h, d, d[e][q], Share(num, Unit(h))[q],
                                         d2, d2[e][q], N, ok)
                            /\ e \notin Nodes(h, d2, d2[e][q]),
         \A q \in Entries : \A r \in Entries \ {q} :
           Nodes(h, d2, d2[e][q]) \intersect Nodes(h, d2, d2[e][r]) = {}
  PROVE  TreeGrown(h + 1, d, e, num, d2, e, N, ok)
<1> DEFINE u == Unit(h)
           K(q) == Share(num, u)[q]
           b(q) == d[e][q]
           c(q) == d2[e][q]
<1>0. u \in Nat \ {0} /\ h + 1 \in Heights /\ h \in Heights /\ Entries \subseteq Nat
  BY Units, SizesAssumption DEF Heights, Entries
<1>1. Nodes(h + 1, d, e) = {e} \union UNION {Nodes(h, d, b(q)) : q \in Entries}
  BY NodesAbove
<1>2. Nodes(h + 1, d2, e) = {e} \union UNION {Nodes(h, d2, c(q)) : q \in Entries}
  BY NodesAbove
<1>3. \A q \in Entries :
        /\ Nodes(h, d, b(q)) \subseteq Nodes(h, d2, c(q))
        /\ Nodes(h, d2, c(q)) \subseteq Nodes(h, d, b(q)) \union N
        /\ Apart(h, d2, c(q))
  BY DEF TreeGrown
<1>4. /\ Nodes(h + 1, d, e) \subseteq Nodes(h + 1, d2, e)
      /\ Nodes(h + 1, d2, e) \subseteq Nodes(h + 1, d, e) \union N
  BY <1>1, <1>2, <1>3
<1>5. Apart(h + 1, d2, e)
  BY <1>3, ApartAbove
<1>6. ASSUME NEW i \in Nat, i < Unit(h + 1)
      PROVE  /\ Leaf(h + 1, d, e, i) # 0 => Leaf(h + 1, d2, e, i) = Leaf(h + 1, d, e, i)
             /\ Leaf(h + 1, d, e, i) = 0 /\ Leaf(h + 1, d2, e, i) # 0
                  => /\ Leaf(h + 1, d2, e, i) \in N
                     /\ d2[Leaf(h + 1, d2, e, i)] = Zeros
             /\ ok /\ i < num => Leaf(h + 1, d2, e, i) # 0
  <2>1. PICK k \in Entries : \E r \in 0 .. Unit(h) - 1 : i = k * Unit(h) + r
    BY <1>6, LeafPlace
  <2>2. PICK r \in 0 .. Unit(h) - 1 : i = k * Unit(h) + r
    BY <2>1
  <2>3. Leaf(h + 1, d, e, i) = Leaf(h, d, b(k), r) /\ Leaf(h + 1, d2, e, i) = Leaf(h, d2, c(k), r)
    BY <2>2, LeafAbove
  <2>4. r \in Nat /\ r < Unit(h)
    BY <1>0
  <2>5. TreeGrown(h, d, b(k), K(k), d2, c(k), N, ok)
    OBVIOUS
  <2>6. i < num => r < K(k)
    <3>1. PICK p \in Int : p = k * u
      BY <1>0
    <3>2. K(k) = MinOf(num - p, u)
      BY <1>0, <3>1 DEF Share
    <3>3. i = p + r
      BY <2>2, <3>1
    <3> HIDE DEF K
    <3> QED
      BY <1>0, <2>4, <3>2, <3>3 DEF MinOf
  <2>7. ok /\ i < num => Leaf(h, d2, c(k), r) # 0
    BY <2>4, <2>5, <2>6 DEF TreeGrown, Full
  <2> HIDE DEF K, b, c
  <2> QED
    BY <2>3, <2>4, <2>5, <2>7 DEF TreeGrown
<1>7. ASSUME ok, NEW m \in Int, m >= num, Trim(h + 1, d, e, m)
      PROVE  Trim(h + 1, d2, e, m)
  <2>1. m > 0 /\ \A k \in Entries : Trim(h, d, b(k), m - k * Unit(h))
    BY <1>7, TrimAbove
  <2>2. ASSUME NEW k \in Entries PROVE Trim(h, d2, c(k), m - k * Unit(h))
    <3>1. PICK p \in Int : p = k * u
      BY <1>0
    <3>2. K(k) = MinOf(num - p, u)
      BY <1>0, <3>1 DEF Share
    <3>3. m - p \in Int /\ m - p >= K(k)
      BY <1>0, <1>7, <3>2 DEF MinOf
    <3>4. TreeGrown(h, d, b(k), K(k), d2, c(k), N, ok) /\ Trim(h, d, b(k), m - p)
      BY <2>1, <3>1
    <3> HIDE DEF K, b, c
    <3>5. Trim(h, d2, c(k), m - p)
      BY <1>7, <3>3, <3>4 DEF TreeGrown
    <3> QED
      BY <3>1, <3>5
  <2> QED
    BY <2>1, <2>2, TrimAbove
<1>8. ok => Full(h + 1, d2, e, num)
  BY <1>6 DEF Full
<1> QED
  BY <1>4, <1>5, <1>6, <1>7, <1>8 DEF TreeGrown

LEMMA IndexThere ==
  ASSUME NEW h \in {0, 1}, NEW st \in States, 0 \in st.map,
         NEW e, e # 0, TreePre(h + 1, st, e), NEW num \in Nat, NEW st2, NEW b2,
         BlockPre(Flat(h), NIndex, st, st.disk[e]),
         BlockGrown(Flat(h), Share(num, Unit(h)), NIndex, st, st.disk[e], st2, b2),
         NEW st3 \in States, st3.map = st2.map, st3.ok <=> st2.ok,
         st2.ok => st3.disk = [st2.disk EXCEPT ![e] = b2],
         ~st2.ok => st3.disk = st2.disk
  PROVE  Grown(h + 1, st, e, num, st3, e)
<1> DEFINE d == st.disk
           b == st.disk[e]
           d2 == st2.disk
           d3 == st3.disk
           c == d3[e]
           N == st2.map \ st.map
           K == Share(num, Unit(h))
<1>0. /\ h \in Heights /\ h + 1 \in Heights /\ Entries = 0 .. NIndex - 1
      /\ Entries \subseteq Words /\ Entries \subseteq Nat
  BY WordsThere, SizesAssumption DEF Heights, Entries
<1>1. e \in Sector /\ e \in st.map /\ e \notin N /\ d \in Disk /\ b \in Block
  BY <1>0, RootIsNode DEF TreePre, States, Disk
<1>2. st2 \in States /\ st.map \subseteq st2.map /\ b2 \in Block /\ d2 \in Disk
  BY DEF BlockGrown, States
<1>3. \A q \in Entries : e \notin Nodes(h, d, b[q])
  <2>1. Apart(h + 1, d, e)
    BY DEF TreePre
  <2> QED
    BY <2>1, ApartAbove
<1>4. d2[e] = b
  <2>1. \A q \in Entries : e \notin Inner(h, d, b[q])
    BY <1>0, <1>3, InnerAreNodes
  <2>2. \A q \in 0 .. NIndex - 1 : e \notin Inner(Flat(h)[q], d, b[q])
    BY <1>0, <2>1 DEF Flat
  <2> QED
    BY <1>1, <2>2 DEF BlockGrown
<1>5. \A s \in Sector : s # e => d3[s] = d2[s]
  BY <1>1, <1>2 DEF Disk
<1>6. ASSUME NEW q \in Entries
      PROVE  /\ b2[q] \in Sector
             /\ TreeGrown(h, d, b[q], K[q], d2, b2[q], N, st2.ok)
             /\ e \notin Nodes(h, d2, b2[q])
             /\ Nodes(h, d2, b2[q]) \subseteq Sector
             /\ \A r \in Entries \ {q} : Nodes(h, d2, b2[q]) \intersect Nodes(h, d2, b2[r]) = {}
  <2>1. Flat(h)[q] = h /\ \A r \in Entries : Flat(h)[r] = h
    BY <1>0 DEF Flat
  <2>2. TreeGrown(h, d, b[q], K[q], d2, b2[q], N, st2.ok) /\ b2[q] \in Sector
    <3>1. \A p \in 0 .. NIndex - 1 :
            /\ b2[p] \in Sector
            /\ TreeGrown(Flat(h)[p], d, b[p], K[p], d2, b2[p], N, st2.ok)
      BY DEF BlockGrown
    <3> HIDE DEF d, d2, b, K, N
    <3> QED
      BY <1>0, <2>1, <3>1
  <2>3. Nodes(h, d2, b2[q]) \subseteq Nodes(h, d, b[q]) \union N
    BY <2>2 DEF TreeGrown
  <2>4. TreePre(h, st, b[q])
    BY <1>0, <2>1 DEF BlockPre
  <2>5. Nodes(h, d2, b2[q]) \subseteq Sector /\ e \notin Nodes(h, d2, b2[q])
    BY <1>1, <1>2, <1>3, <2>3, <2>4 DEF TreePre, States
  <2>6. \A p, r \in 0 .. NIndex - 1 :
          p # r => Nodes(Flat(h)[p], d2, b2[p]) \intersect Nodes(Flat(h)[r], d2, b2[r]) = {}
    BY DEF BlockGrown
  <2>7. \A r \in Entries \ {q} : Nodes(h, d2, b2[q]) \intersect Nodes(h, d2, b2[r]) = {}
    BY <1>0, <2>1, <2>6
  <2> QED
    BY <2>2, <2>5, <2>7
<1>7. ASSUME NEW q \in Entries
      PROVE  /\ TreeGrown(h, d, b[q], K[q], d3, b2[q], N, st3.ok)
             /\ Nodes(h, d3, b2[q]) = Nodes(h, d2, b2[q])
  <2>1. \A s \in Nodes(h, d2, b2[q]) : d3[s] = d2[s]
    BY <1>5, <1>6
  <2>2. Same(h, d2, d3, b2[q])
    BY <1>0, <2>1, SameNodes
  <2>3. TreeGrown(h, d, b[q], K[q], d2, b2[q], N, st2.ok)
    BY <1>6
  <2> HIDE DEF K, d, b, d2, d3, N
  <2>4. TreeGrown(h, d, b[q], K[q], d3, b2[q], N, st3.ok)
    BY <1>0, <2>1, <2>3, TreeStays
  <2> QED
    BY <2>2, <2>4 DEF Same
<1>8. ASSUME NEW q \in Entries
      PROVE  \/ c[q] = b2[q]
             \/ /\ ~st3.ok
                /\ c[q] = b[q]
                /\ b[q] = 0 \/ b2[q] = b[q]
  <2>1. CASE st2.ok
    BY <1>1, <1>2, <2>1 DEF Disk
  <2>2. CASE ~st2.ok
    BY <1>4, <1>6, <2>2 DEF TreeGrown
  <2> QED
    BY <2>1, <2>2
<1>9. ASSUME NEW q \in Entries
      PROVE  /\ TreeGrown(h, d, b[q], K[q], d3, c[q], N, st3.ok)
             /\ Nodes(h, d3, c[q]) \subseteq Nodes(h, d2, b2[q])
             /\ st3.ok => Nodes(h, d3, c[q]) = Nodes(h, d2, b2[q])
  <2>1. CASE c[q] = b2[q]
    BY <1>7, <2>1
  <2>2. CASE c[q] # b2[q]
    <3>1. ~st3.ok /\ c[q] = 0 /\ b[q] = 0
      BY <1>8, <2>2
    <3>2. TreeGrown(h, d, 0, K[q], d3, 0, N, st3.ok)
      BY <1>0, <3>1, NoTree DEF TreeGrown
    <3>3. Nodes(h, d3, c[q]) = {}
      BY <1>0, <3>1, NoTree
    <3>4. TreeGrown(h, d, b[q], K[q], d3, c[q], N, st3.ok)
      BY <3>1, <3>2
    <3> QED
      BY <3>1, <3>3, <3>4
  <2> QED
    BY <2>1, <2>2
<1>10. \A q \in Entries :
         /\ e \notin Nodes(h, d3, c[q])
         /\ \A r \in Entries \ {q} : Nodes(h, d3, c[q]) \intersect Nodes(h, d3, c[r]) = {}
  BY <1>6, <1>9
<1>11. TreeGrown(h + 1, d, e, num, d3, e, N, st3.ok)
  <2>1. \A q \in Entries : /\ TreeGrown(h, st.disk, st.disk[e][q], Share(num, Unit(h))[q],
                                            st3.disk, st3.disk[e][q], N, st3.ok)
                            /\ e \notin Nodes(h, st3.disk, st3.disk[e][q])
    BY <1>9, <1>10
  <2>2. \A q \in Entries : \A r \in Entries \ {q} :
          Nodes(h, st3.disk, st3.disk[e][q]) \intersect Nodes(h, st3.disk, st3.disk[e][r]) = {}
    BY <1>10
  <2> HIDE DEF d, d3, N, b, c, K
  <2> QED
    BY <2>1, <2>2, TreeAbove DEF d, d3
<1>12. ASSUME NEW s \in Sector, s # 0, s \notin N, s \notin Inner(h + 1, d, e)
       PROVE  d3[s] = d[s]
  <2>1. Inner(h + 1, d, e) = {e} \union UNION {Inner(h, d, b[q]) : q \in Entries}
    BY InnerAbove
  <2>2. s # e /\ \A q \in 0 .. NIndex - 1 : s \notin Inner(Flat(h)[q], d, b[q])
    BY <1>0, <1>12, <2>1 DEF Flat
  <2>3. d2[s] = d[s]
    BY <1>12, <2>2 DEF BlockGrown
  <2> QED
    BY <1>5, <2>2, <2>3
<1>13. ASSUME st3.ok PROVE d3[0] = d[0] /\ N \subseteq Nodes(h + 1, d3, e)
  <2>1. d3[0] = d2[0] /\ d2[0] = d[0]
    BY <1>5, <1>13, SizesAssumption DEF BlockGrown, Sector
  <2>2. Nodes(h + 1, d3, e) = {e} \union UNION {Nodes(h, d3, c[q]) : q \in Entries}
    BY NodesAbove
  <2>3. ASSUME NEW s \in N PROVE s \in Nodes(h + 1, d3, e)
    <3>1. PICK q \in 0 .. NIndex - 1 : s \in Nodes(Flat(h)[q], d2, b2[q])
      BY <1>13, <2>3 DEF BlockGrown
    <3>2. q \in Entries /\ s \in Nodes(h, d3, c[q])
      BY <1>0, <1>9, <1>13, <3>1 DEF Flat
    <3> QED
      BY <2>2, <3>2
  <2> QED
    BY <2>1, <2>3
<1>14. st.map \subseteq st3.map
  BY <1>2
<1> QED
  BY <1>1, <1>11, <1>12, <1>13, <1>14 DEF Grown

\* The trees of a block of zeros.
LEMMA NoTrees ==
  ASSUME NEW h \in {0, 1}, NEW st \in States, 0 \in st.map
  PROVE  /\ BlockPre(Flat(h), NIndex, st, Zeros)
         /\ \A s \in Sector : s # 0 /\ s \in st.map /\ st.disk[s] = Zeros
              => TreePre(h + 1, st, s) /\ Nodes(h + 1, st.disk, s) \subseteq {s}
<1>0. /\ h \in Heights /\ NIndex \in Nat \ {0} /\ Entries = 0 .. NIndex - 1
      /\ Entries \subseteq Words /\ \A q \in Entries : Zeros[q] = 0 /\ q \in Nat
      /\ 0 \in Sector
  BY WordsThere, ZerosBlock, SizesAssumption DEF Heights, Entries, Sector
<1>1. TreePre(h, st, 0)
  BY <1>0, NoTree DEF TreePre
<1>2. BlockPre(Flat(h), NIndex, st, Zeros)
  <2>1. \A q \in 0 .. NIndex - 1 : Flat(h)[q] = h /\ Zeros[q] = 0
    BY <1>0 DEF Flat
  <2> QED
    BY <1>0, <1>1, <2>1, NoTree, ZerosBlock DEF BlockPre
<1>3. ASSUME NEW s \in Sector, s # 0, s \in st.map, st.disk[s] = Zeros
      PROVE  TreePre(h + 1, st, s) /\ Nodes(h + 1, st.disk, s) \subseteq {s}
  <2>1. \A q \in Entries : Nodes(h, st.disk, st.disk[s][q]) = {} /\ Apart(h, st.disk, st.disk[s][q])
    BY <1>0, <1>3, NoTree
  <2>2. Nodes(h + 1, st.disk, s) = {s}
    <3>1. Nodes(h + 1, st.disk, s) =
            {s} \union UNION {Nodes(h, st.disk, st.disk[s][k]) : k \in Entries}
      BY <1>3, NodesAbove
    <3>2. UNION {Nodes(h, st.disk, st.disk[s][k]) : k \in Entries} = {}
      BY <2>1
    <3> QED
      BY <3>1, <3>2
  <2>3. Apart(h + 1, st.disk, s)
    BY <2>1, ApartAbove
  <2> QED
    BY <1>3, <2>2, <2>3 DEF TreePre
<1> QED
  BY <1>2, <1>3

\* A new index block: the tree under it has grown since it was allocated.
LEMMA IndexNew ==
  ASSUME NEW h \in {0, 1}, NEW st \in States, 0 \in st.map,
         NEW s \in Sector \ st.map, NEW num \in Nat, num >= 1,
         NEW st1 \in States, st1.map = st.map \union {s},
         st1.disk = [st.disk EXCEPT ![s] = Zeros],
         NEW st3, Grown(h + 1, st1, s, num, st3, s)
  PROVE  Grown(h + 1, st, 0, num, st3, s)
<1> DEFINE d == st.disk
           d1 == st1.disk
           d3 == st3.disk
           N == st3.map \ st.map
           N1 == st3.map \ st1.map
<1>0. h + 1 \in Heights /\ s # 0 /\ 0 \in Sector /\ d \in Disk /\ st3 \in States
      /\ st1.map \subseteq st3.map /\ h \in Heights
  BY SizesAssumption DEF Heights, States, Sector, Grown
<1>1. d1[s] = Zeros /\ \A t \in Sector \ {s} : d1[t] = d[t]
  BY <1>0 DEF Disk
<1>2. N = N1 \union {s} /\ st.map \subseteq st3.map
  BY <1>0
<1>3. Nodes(h + 1, d1, s) \subseteq {s}
  <2>1. 0 \in st1.map /\ s \in st1.map /\ s \in Sector
    OBVIOUS
  <2> QED
    BY <1>0, <1>1, <2>1, NoTrees
<1>4. TreeGrown(h + 1, d1, s, num, d3, s, N1, st3.ok)
  BY DEF Grown
<1>5. \A q \in Entries : d1[s][q] = 0
  BY <1>1, WordsThere, ZerosBlock
<1>6. \A i \in Nat : i < Unit(h + 1) => Leaf(h + 1, d1, s, i) = 0
  <2> SUFFICES ASSUME NEW i \in Nat, i < Unit(h + 1) PROVE Leaf(h + 1, d1, s, i) = 0
    OBVIOUS
  <2>1. PICK k \in Entries : \E r \in 0 .. Unit(h) - 1 : i = k * Unit(h) + r
    BY LeafPlace
  <2>2. PICK r \in 0 .. Unit(h) - 1 : i = k * Unit(h) + r
    BY <2>1
  <2>3. Leaf(h + 1, d1, s, i) = Leaf(h, d1, d1[s][k], r)
    <3> HIDE DEF d1
    <3>1. Leaf(h + 1, d1, s, k * Unit(h) + r) =
            IF s = 0 THEN 0 ELSE Leaf(h, d1, d1[s][k], r)
      BY LeafAbove
    <3> QED
      BY <1>0, <2>2, <3>1
  <2> QED
    BY <1>0, <1>5, <2>3, NoTree
<1>7. \A m \in Int : m >= num => Trim(h + 1, d1, s, m)
  <2> SUFFICES ASSUME NEW m \in Int, m >= num PROVE Trim(h + 1, d1, s, m)
    OBVIOUS
  <2>1. \A x : Trim(h, d1, 0, x)
    BY <1>0, NoTree
  <2>2. \A k \in Entries : Trim(h, d1, d1[s][k], m - k * Unit(h))
    BY <1>5, <2>1
  <2>3. m > 0
    OBVIOUS
  <2> HIDE DEF d1
  <2> QED
    BY <2>2, <2>3, TrimAbove
<1>8. TreeGrown(h + 1, d, 0, num, d3, s, N, st3.ok)
  <2>1. /\ Nodes(h + 1, d, 0) = {}
        /\ \A i : Leaf(h + 1, d, 0, i) = 0
    BY <1>0, NoTree
  <2>2. \A i \in Nat : i < Unit(h + 1) /\ Leaf(h + 1, d3, s, i) # 0
          => Leaf(h + 1, d3, s, i) \in N /\ d3[Leaf(h + 1, d3, s, i)] = Zeros
    BY <1>2, <1>4, <1>6 DEF TreeGrown
  <2>3. Nodes(h + 1, d3, s) \subseteq N
    BY <1>2, <1>3, <1>4 DEF TreeGrown
  <2>4. st3.ok => \A m \in Int : m >= num => Trim(h + 1, d3, s, m)
    BY <1>4, <1>7 DEF TreeGrown
  <2>5. Apart(h + 1, d3, s) /\ (st3.ok => Full(h + 1, d3, s, num))
    BY <1>4 DEF TreeGrown
  <2> HIDE DEF d, d3, N
  <2> QED
    BY <2>1, <2>2, <2>3, <2>4, <2>5 DEF TreeGrown
<1>9. ASSUME NEW t \in Sector, t # 0, t \notin N PROVE d3[t] = d[t]
  <2>1. t \notin Inner(h + 1, d1, s) /\ t # s
    BY <1>0, <1>2, <1>3, <1>9, InnerAreNodes
  <2> QED
    BY <1>1, <1>2, <1>9, <2>1 DEF Grown
<1>10. st3.ok => d3[0] = d[0] /\ N \subseteq Nodes(h + 1, d3, s)
  <2>1. s \in Nodes(h + 1, d3, s)
    BY <1>0, RootIsNode
  <2> QED
    BY <1>0, <1>1, <1>2, <2>1 DEF Grown
<1> QED
  BY <1>0, <1>2, <1>8, <1>9, <1>10 DEF Grown

\* No sector for an index block: those under it fail too.
LEMMA IndexNone ==
  ASSUME NEW h \in {0, 1}, NEW st \in States, 0 \in st.map, Sector \subseteq st.map,
         NEW num \in Nat, num >= 1,
         NEW st1 \in States, st1.map = st.map, st1.disk = [st.disk EXCEPT ![0] = Zeros],
         NEW st2, NEW b2,
         BlockGrown(Flat(h), Share(num, Unit(h)), NIndex, st1, Zeros, st2, b2)
  PROVE  ~st2.ok /\ Grown(h + 1, st, 0, num, st2, 0)
<1> DEFINE N == st2.map \ st1.map
<1>0. /\ h \in Heights /\ h + 1 \in Heights /\ NIndex \in Nat \ {0} /\ 0 \in Nat /\ 0 \in Sector
      /\ Unit(h) \in Nat \ {0} /\ 0 \in 0 .. NIndex - 1 /\ Flat(h)[0] = h
      /\ st2 \in States /\ st2.map \subseteq Sector /\ st.disk \in Disk /\ st1.map \subseteq st2.map
  BY Units, SizesAssumption DEF Heights, Flat, Sector, States, BlockGrown
<1>1. N = {} /\ st2.map = st.map
  BY <1>0
<1>2. \A q \in 0 .. NIndex - 1 : Flat(h)[q] = h /\ Zeros[q] = 0
  <2>1. 0 .. NIndex - 1 \subseteq Words /\ Words \subseteq Nat
    BY WordsThere DEF Entries
  <2> QED
    BY <2>1, ZerosBlock DEF Flat
<1>3. ~st2.ok
  <2> SUFFICES ASSUME st2.ok PROVE FALSE
    OBVIOUS
  <2>1. TreeGrown(h, st1.disk, 0, Share(num, Unit(h))[0], st2.disk, b2[0], N, st2.ok)
    <3>1. TreeGrown(Flat(h)[0], st1.disk, Zeros[0], Share(num, Unit(h))[0], st2.disk, b2[0],
                    N, st2.ok)
      BY <1>0 DEF BlockGrown
    <3>2. Flat(h)[0] = h /\ Zeros[0] = 0
      BY <1>0, <1>2
    <3> HIDE DEF N
    <3> QED
      BY <3>1, <3>2
  <2>2. Share(num, Unit(h))[0] >= 1 /\ Share(num, Unit(h))[0] \in Int
    BY <1>0 DEF Share, MinOf
  <2>3. Leaf(h, st2.disk, b2[0], 0) # 0
    BY <1>0, <2>1, <2>2 DEF TreeGrown, Full
  <2>4. Leaf(h, st1.disk, 0, 0) = 0
    BY <1>0, NoTree
  <2> QED
    BY <1>0, <1>1, <2>1, <2>3, <2>4 DEF TreeGrown
<1>4. \A s \in Sector : s # 0 => st2.disk[s] = st.disk[s]
  <2>1. \A q \in 0 .. NIndex - 1 : Inner(Flat(h)[q], st1.disk, Zeros[q]) = {}
    BY <1>0, <1>2, NoTree
  <2> QED
    BY <1>0, <1>1, <2>1 DEF BlockGrown, Disk
<1>5. TreeGrown(h + 1, st.disk, 0, num, st2.disk, 0, st2.map \ st.map, st2.ok)
  BY <1>0, <1>3, NoTree DEF TreeGrown
<1> QED
  BY <1>0, <1>1, <1>3, <1>4, <1>5 DEF Grown

\* What inode_reserve_indirect has before its loop: the index block there was, a
\* new one, or, if there is none to be had, sector 0 in its place.
IndexState(st, e, sta, ea) ==
  \/ e # 0 /\ sta = st /\ ea = e
  \/ /\ e = 0
     /\ \E s \in Sector \ st.map :
          /\ sta = [map |-> st.map \union {s}, disk |-> [st.disk EXCEPT ![s] = Zeros],
                    ok |-> TRUE]
          /\ ea = s
  \/ /\ e = 0 /\ Sector \subseteq st.map /\ ea = 0
     /\ sta = [map |-> st.map, disk |-> [st.disk EXCEPT ![0] = Zeros], ok |-> TRUE]

LEMMA Stored ==
  ASSUME NEW st \in States, NEW e \in Sector, NEW b \in Block
  PROVE  /\ [st EXCEPT !.disk[e] = b] \in States
         /\ [st EXCEPT !.disk[e] = b].map = st.map
         /\ [st EXCEPT !.disk[e] = b].disk = [st.disk EXCEPT ![e] = b]
         /\ [st EXCEPT !.disk[e] = b].ok <=> st.ok
<1> DEFINE r == [st EXCEPT !.disk[e] = b]
<1>1. st.map \in SUBSET Sector /\ st.disk \in Disk /\ st.ok \in BOOLEAN
  BY DEF States
<1>2. r = [map |-> st.map, disk |-> [st.disk EXCEPT ![e] = b], ok |-> st.ok]
  BY DEF States
<1>3. [st.disk EXCEPT ![e] = b] \in Disk
  BY <1>1 DEF Disk
<1> HIDE DEF r
<1>4. r \in States /\ r.map = st.map /\ r.disk = [st.disk EXCEPT ![e] = b] /\ (r.ok <=> st.ok)
  BY <1>1, <1>2, <1>3 DEF States
<1> QED
  BY <1>4 DEF r

LEMMA IndexGrows ==
  ASSUME NEW h \in {0, 1}, NEW st \in States, 0 \in st.map, NEW e, TreePre(h + 1, st, e),
         NEW num \in Nat, num >= 1, NEW sta, NEW ea, IndexState(st, e, sta, ea),
         NEW st2, NEW b2,
         BlockPre(Flat(h), NIndex, sta, sta.disk[ea])
           => BlockGrown(Flat(h), Share(num, Unit(h)), NIndex, sta, sta.disk[ea], st2, b2),
         NEW st3, st3 = IF st2.ok THEN [st2 EXCEPT !.disk[ea] = b2] ELSE st2
  PROVE  Grown(h + 1, st, e, num, st3, ea)
<1>0. /\ h \in Heights /\ h + 1 \in Heights /\ NIndex \in Nat \ {0}
      /\ Entries = 0 .. NIndex - 1 /\ 0 .. NIndex - 1 \subseteq Words
      /\ \A q \in 0 .. NIndex - 1 : Flat(h)[q] = h
      /\ 0 \in Sector /\ st.disk \in Disk /\ st.map \in SUBSET Sector /\ e \in Sector
  BY WordsThere, SizesAssumption DEF Heights, Entries, Flat, Sector, States, TreePre
<1>1. ASSUME st2 \in States, b2 \in Block, ea \in Sector
      PROVE  /\ st3 \in States /\ st3.map = st2.map
             /\ st3.ok <=> st2.ok
             /\ st2.ok => st3.disk = [st2.disk EXCEPT ![ea] = b2]
             /\ ~st2.ok => st3.disk = st2.disk
  BY <1>1, Stored
<1>2. CASE e # 0 /\ sta = st /\ ea = e
  <2>1. BlockPre(Flat(h), NIndex, st, st.disk[e])
    <3>1. e \in st.map /\ st.disk[e] \in Block
      BY <1>0, <1>2, RootIsNode DEF TreePre, Disk
    <3>2. Nodes(h + 1, st.disk, e) =
            {e} \union UNION {Nodes(h, st.disk, st.disk[e][k]) : k \in Entries}
      BY <1>2, NodesAbove
    <3>3. \A k \in Entries :
            /\ Apart(h, st.disk, st.disk[e][k])
            /\ \A j \in Entries \ {k} :
                 Nodes(h, st.disk, st.disk[e][k]) \intersect Nodes(h, st.disk, st.disk[e][j]) = {}
      BY <1>2, ApartAbove DEF TreePre
    <3>4. ASSUME NEW k \in Entries PROVE TreePre(h, st, st.disk[e][k])
      <4>1. Nodes(h, st.disk, st.disk[e][k]) \subseteq st.map
        BY <3>2 DEF TreePre
      <4>2. st.disk[e][k] \in Sector
        BY <1>0, <4>1, RootIsNode
      <4> QED
        BY <3>3, <4>1, <4>2 DEF TreePre
    <3> QED
      BY <1>0, <3>1, <3>3, <3>4 DEF BlockPre
  <2>2. BlockGrown(Flat(h), Share(num, Unit(h)), NIndex, st, st.disk[e], st2, b2)
    BY <1>2, <2>1
  <2>3. st2 \in States /\ b2 \in Block
    BY <2>2 DEF BlockGrown
  <2> QED
    BY <1>0, <1>1, <1>2, <2>1, <2>2, <2>3, IndexThere
<1>3. ASSUME e = 0, NEW s \in Sector \ st.map, ea = s,
             sta = [map |-> st.map \union {s}, disk |-> [st.disk EXCEPT ![s] = Zeros],
                    ok |-> TRUE]
      PROVE  Grown(h + 1, st, e, num, st3, ea)
  <2>1. /\ sta \in States /\ sta.map = st.map \union {s}
        /\ sta.disk = [st.disk EXCEPT ![s] = Zeros]
        /\ 0 \in sta.map /\ s \in sta.map /\ s # 0 /\ sta.disk[s] = Zeros
    BY <1>0, <1>3, ZerosBlock DEF States, Disk
  <2>2. BlockPre(Flat(h), NIndex, sta, Zeros) /\ TreePre(h + 1, sta, s)
    BY <2>1, NoTrees
  <2>3. BlockGrown(Flat(h), Share(num, Unit(h)), NIndex, sta, sta.disk[s], st2, b2)
    BY <1>3, <2>1, <2>2
  <2>4. st2 \in States /\ b2 \in Block
    BY <2>3 DEF BlockGrown
  <2>5. /\ st3 \in States /\ st3.map = st2.map
        /\ st3.ok <=> st2.ok
        /\ st2.ok => st3.disk = [st2.disk EXCEPT ![s] = b2]
        /\ ~st2.ok => st3.disk = st2.disk
    BY <1>1, <1>3, <2>4
  <2>6. BlockPre(Flat(h), NIndex, sta, sta.disk[s])
    BY <2>1, <2>2
  <2>7. Grown(h + 1, sta, s, num, st3, s)
    BY <2>1, <2>2, <2>3, <2>5, <2>6, IndexThere
  <2>8. Grown(h + 1, st, 0, num, st3, s)
    BY <2>1, <2>7, IndexNew
  <2> QED
    BY <1>3, <2>8
<1>4. CASE /\ e = 0 /\ Sector \subseteq st.map /\ ea = 0
           /\ sta = [map |-> st.map, disk |-> [st.disk EXCEPT ![0] = Zeros], ok |-> TRUE]
  <2>1. /\ sta \in States /\ sta.map = st.map
        /\ sta.disk = [st.disk EXCEPT ![0] = Zeros]
        /\ 0 \in sta.map /\ sta.disk[0] = Zeros
    BY <1>0, <1>4, ZerosBlock DEF States, Disk
  <2>2. BlockPre(Flat(h), NIndex, sta, Zeros)
    BY <2>1, NoTrees
  <2>3. BlockGrown(Flat(h), Share(num, Unit(h)), NIndex, sta, Zeros, st2, b2)
    BY <1>4, <2>1, <2>2
  <2>4. ~st2.ok /\ Grown(h + 1, st, 0, num, st2, 0)
    BY <1>4, <2>1, <2>3, IndexNone
  <2> QED
    BY <1>4, <2>4
<1> QED
  BY <1>2, <1>3, <1>4 DEF IndexState

\* The allocation of ReserveIndex.
IndexEntry(st, e) ==
  IF e # 0 THEN [st |-> st, entry |-> e]
  ELSE LET b == free_map_allocate(st) IN
       [b EXCEPT !.st.ok = TRUE, !.st.disk[b.entry] = Zeros]

LEMMA IndexEntryIs ==
  ASSUME NEW st \in States, st.ok, 0 \in st.map, NEW e
  PROVE  IndexState(st, e, IndexEntry(st, e).st, IndexEntry(st, e).entry)
<1> DEFINE a == IndexEntry(st, e)
<1>1. CASE e # 0
  BY <1>1 DEF IndexEntry, IndexState
<1>2. CASE e = 0 /\ Sector \subseteq st.map /\ free_map_allocate(st) = NoneLeft(st)
  <2>1. a = [NoneLeft(st) EXCEPT !.st.ok = TRUE, !.st.disk[NoneLeft(st).entry] = Zeros]
    BY <1>2 DEF IndexEntry
  <2>2. NoneLeft(st).entry = 0
    BY DEF NoneLeft
  <2>3. a.st = [map |-> st.map, disk |-> [st.disk EXCEPT ![0] = Zeros], ok |-> TRUE]
        /\ a.entry = 0
    BY <2>1, <2>2 DEF NoneLeft
  <2> HIDE DEF a
  <2> QED
    BY <1>2, <2>3 DEF IndexState, a
<1>3. ASSUME e = 0, NEW s \in Sector \ st.map, free_map_allocate(st) = Some(st, s)
      PROVE  IndexState(st, e, a.st, a.entry)
  <2>1. a = [Some(st, s) EXCEPT !.st.ok = TRUE, !.st.disk[Some(st, s).entry] = Zeros]
    BY <1>3 DEF IndexEntry
  <2>2. Some(st, s).entry = s
    BY DEF Some
  <2>3. a.st = [map |-> st.map \union {s}, disk |-> [st.disk EXCEPT ![s] = Zeros], ok |-> TRUE]
        /\ a.entry = s
    BY <2>1, <2>2 DEF Some
  <2> HIDE DEF a
  <2> QED
    BY <1>3, <2>3 DEF IndexState
<1> QED
  BY <1>1, <1>2, <1>3, Allocated

-------------------------------------------------------------------------------
(* The calls for an index block and for an index block of index blocks. *)

LEMMA Level1Grows ==
  ASSUME NEW st, NEW e, NEW num \in Int, num >= 1, num <= NIndex
  PROVE  Grows(1, st, e, num, ReserveLevel1(st, e, num).st, ReserveLevel1(st, e, num).entry)
<1> SUFFICES ASSUME st \in States, 0 \in st.map, st.ok, TreePre(0 + 1, st, e)
             PROVE  Grown(0 + 1, st, e, num, ReserveLevel1(st, e, num).st,
                          ReserveLevel1(st, e, num).entry)
  BY DEF Grows
<1>1. PICK a : a = IndexEntry(st, e)
  OBVIOUS
<1>2. PICK x : x = ReserveEntries(ReserveLeaf, a.st, a.st.disk[a.entry], num, 1)
  OBVIOUS
<1>3. PICK r : r = ReserveLevel1(st, e, num)
  OBVIOUS
<1>4. r = [st |-> IF x.st.ok THEN [x.st EXCEPT !.disk[a.entry] = x.block] ELSE x.st,
           entry |-> a.entry]
  <2>1. r = ReserveIndex(ReserveLeaf, st, e, num, 1)
    BY <1>3 DEF ReserveLevel1
  <2>2. ReserveIndex(ReserveLeaf, st, e, num, 1) =
          LET a1 == IndexEntry(st, e)
              x1 == ReserveEntries(ReserveLeaf, a1.st, a1.st.disk[a1.entry], num, 1)
          IN  [st |-> IF x1.st.ok THEN [x1.st EXCEPT !.disk[a1.entry] = x1.block] ELSE x1.st,
               entry |-> a1.entry]
    BY Zenon DEF ReserveIndex, IndexEntry
  <2> QED
    BY <1>1, <1>2, <2>1, <2>2
<1>5. r.st = IF x.st.ok THEN [x.st EXCEPT !.disk[a.entry] = x.block] ELSE x.st
  BY <1>4
<1>6. r.entry = a.entry
  BY <1>4
<1>7. num \in Nat
  OBVIOUS
<1>8. IndexState(st, e, a.st, a.entry)
  BY <1>1, IndexEntryIs
<1>9. BlockPre(Flat(0), NIndex, a.st, a.st.disk[a.entry])
        => BlockGrown(Flat(0), Share(num, Unit(0)), NIndex, a.st, a.st.disk[a.entry],
                      x.st, x.block)
  <2> SUFFICES ASSUME BlockPre(Flat(0), NIndex, a.st, a.st.disk[a.entry])
               PROVE  BlockGrown(Flat(0), Share(num, 1), NIndex, a.st, a.st.disk[a.entry],
                                 x.st, x.block)
    BY Units
  <2> QED
    BY <1>2, <1>7, LeavesGrow
<1>10. Grown(0 + 1, st, e, num, r.st, a.entry)
  BY <1>5, <1>7, <1>8, <1>9, IndexGrows
<1> QED
  BY <1>3, <1>6, <1>10

BlockRun(st, block, num, unit, n, run) ==
  run = [i \in 0 .. n |->
        IF i = 0 THEN [st |-> st, block |-> block]
        ELSE LET acc == run[i - 1]
                 c == ReserveLevel1(acc.st, acc.block[i - 1], MinOf(num - (i - 1) * unit, unit))
             IN  IF ~acc.st.ok THEN acc
                 ELSE [st |-> c.st, block |-> [acc.block EXCEPT ![i - 1] = c.entry]]]

LEMMA BlocksGrow ==
  ASSUME NEW n, NEW st, NEW b, BlockPre(Flat(1), n, st, b),
         NEW num \in Nat, num <= n * NIndex
  PROVE  BlockGrown(Flat(1), Share(num, NIndex), n, st, b,
                    ReserveEntries(ReserveLevel1, st, b, num, NIndex).st,
                    ReserveEntries(ReserveLevel1, st, b, num, NIndex).block)
<1>0. NIndex \in Nat \ {0} /\ n \in Nat
  BY SizesAssumption DEF BlockPre
<1>1. Turns(num, NIndex) \in Nat /\ Turns(num, NIndex) <= n
  <2>1. Turns(num, NIndex) \in Nat /\ (n < Turns(num, NIndex) <=> n * NIndex < num)
    BY <1>0, SectorsFor DEF Turns
  <2>2. n * NIndex \in Nat
    BY <1>0
  <2> QED
    BY <1>0, <2>1, <2>2
<1>2. PICK f : f = CHOOSE g : BlockRun(st, b, num, NIndex, Turns(num, NIndex), g)
  OBVIOUS
<1>3. ReserveEntries(ReserveLevel1, st, b, num, NIndex) = f[Turns(num, NIndex)]
  BY <1>2 DEF ReserveEntries, BlockRun, Turns
<1>z. 1 # 0
  OBVIOUS
<1>4. \A g : Run(1, st, b, num, NIndex, Turns(num, NIndex), g)
               => BlockRun(st, b, num, NIndex, Turns(num, NIndex), g)
  BY <1>z, Zenon DEF Run, BlockRun, Turn, Call
<1>5. \A g : BlockRun(st, b, num, NIndex, Turns(num, NIndex), g)
               => Run(1, st, b, num, NIndex, Turns(num, NIndex), g)
  <2>0. \A acc, k : Turn(1, acc, k, num, NIndex) =
           LET c == ReserveLevel1(acc.st, acc.block[k], MinOf(num - k * NIndex, NIndex))
             IN  IF ~acc.st.ok THEN acc
                 ELSE [st |-> c.st, block |-> [acc.block EXCEPT ![k] = c.entry]]
    BY <1>z, Zenon DEF Turn, Call
  <2>1. \A g : [i \in 0 .. Turns(num, NIndex) |->
        IF i = 0 THEN [st |-> st, block |-> b]
        ELSE LET acc == g[i - 1]
                 c == ReserveLevel1(acc.st, acc.block[i - 1], MinOf(num - (i - 1) * NIndex, NIndex))
             IN  IF ~acc.st.ok THEN acc
                 ELSE [st |-> c.st, block |-> [acc.block EXCEPT ![i - 1] = c.entry]]]
         = [i \in 0 .. Turns(num, NIndex) |-> IF i = 0 THEN [st |-> st, block |-> b]
                        ELSE Turn(1, g[i - 1], i - 1, num, NIndex)]
    BY <2>0, Zenon
  <2> QED
    BY <2>1, Zenon DEF Run, BlockRun
<1>6. Run(1, st, b, num, NIndex, Turns(num, NIndex), f)
  BY <1>1, <1>2, <1>4, <1>5, RunExists
<1>7. \A st1, e : \A m \in Int :
        m >= 1 /\ m <= NIndex
          => Grows(1, st1, e, m, Call(1, st1, e, m).st, Call(1, st1, e, m).entry)
  BY Level1Grows DEF Call
<1>8. LoopSteps(1, st, b, num, NIndex, f)
  BY <1>0, <1>6, <1>7, RunIsLoop
<1>9. BlockGrown(Flat(1), Share(num, NIndex), n, st, b,
                 f[Turns(num, NIndex)].st, f[Turns(num, NIndex)].block)
  BY <1>0, <1>1, <1>8, LoopGrows DEF Heights
<1> QED
  BY <1>3, <1>9

LEMMA Level2Grows ==
  ASSUME NEW st, NEW e, NEW num \in Int, num >= 1, num <= NIndex * NIndex
  PROVE  Grows(2, st, e, num, ReserveLevel2(st, e, num).st, ReserveLevel2(st, e, num).entry)
<1> SUFFICES ASSUME st \in States, 0 \in st.map, st.ok, TreePre(1 + 1, st, e)
             PROVE  Grown(1 + 1, st, e, num, ReserveLevel2(st, e, num).st,
                          ReserveLevel2(st, e, num).entry)
  BY DEF Grows
<1>1. PICK a : a = IndexEntry(st, e)
  OBVIOUS
<1>2. PICK x : x = ReserveEntries(ReserveLevel1, a.st, a.st.disk[a.entry], num, NIndex)
  OBVIOUS
<1>3. PICK r : r = ReserveLevel2(st, e, num)
  OBVIOUS
<1>4. r = [st |-> IF x.st.ok THEN [x.st EXCEPT !.disk[a.entry] = x.block] ELSE x.st,
           entry |-> a.entry]
  <2>1. r = ReserveIndex(ReserveLevel1, st, e, num, NIndex)
    BY <1>3 DEF ReserveLevel2
  <2>2. ReserveIndex(ReserveLevel1, st, e, num, NIndex) =
          LET a1 == IndexEntry(st, e)
              x1 == ReserveEntries(ReserveLevel1, a1.st, a1.st.disk[a1.entry], num, NIndex)
          IN  [st |-> IF x1.st.ok THEN [x1.st EXCEPT !.disk[a1.entry] = x1.block] ELSE x1.st,
               entry |-> a1.entry]
    BY Zenon DEF ReserveIndex, IndexEntry
  <2> QED
    BY <1>1, <1>2, <2>1, <2>2
<1>5. r.st = IF x.st.ok THEN [x.st EXCEPT !.disk[a.entry] = x.block] ELSE x.st
  BY <1>4
<1>6. r.entry = a.entry
  BY <1>4
<1>7. num \in Nat
  OBVIOUS
<1>8. IndexState(st, e, a.st, a.entry)
  BY <1>1, IndexEntryIs
<1>9. BlockPre(Flat(1), NIndex, a.st, a.st.disk[a.entry])
        => BlockGrown(Flat(1), Share(num, Unit(1)), NIndex, a.st, a.st.disk[a.entry],
                      x.st, x.block)
  <2> SUFFICES ASSUME BlockPre(Flat(1), NIndex, a.st, a.st.disk[a.entry])
               PROVE  BlockGrown(Flat(1), Share(num, NIndex), NIndex, a.st, a.st.disk[a.entry],
                                 x.st, x.block)
    BY Units
  <2> QED
    BY <1>2, <1>7, BlocksGrow
<1>10. Grown(1 + 1, st, e, num, r.st, a.entry)
  BY <1>5, <1>7, <1>8, <1>9, IndexGrows
<1> QED
  BY <1>3, <1>6, <1>10

-------------------------------------------------------------------------------
(* An inode is a block of entries, direct ones first.  inode_reserve grows the  *)
(* trees of the first n blocks of a file.                                       *)

HF == [q \in Nat |-> IF q < NDirect THEN 0 ELSE IF q = Ind THEN 1 ELSE 2]
KF(n) == [q \in Nat |->
            IF q < NDirect THEN MinOf(n - q, 1)
            ELSE IF q = Ind THEN MinOf(n - NDirect, NIndex)
            ELSE MinOf(n - NDirect - NIndex, NIndex * NIndex)]
MostBlocks == NDirect + NIndex + NIndex * NIndex

LEMMA BlockSame ==
  ASSUME NEW H, NEW K, NEW n, NEW st, NEW b, NEW st2, NEW b2,
         BlockGrown(H, K, n, st, b, st2, b2),
         NEW H2, NEW K2, \A q \in 0 .. n - 1 : H2[q] = H[q] /\ K2[q] = K[q]
  PROVE  BlockGrown(H2, K2, n, st, b, st2, b2)
BY DEF BlockGrown

LEMMA BlockUnsure ==
  ASSUME NEW H, NEW K, NEW n, NEW st, NEW b, NEW st2, NEW b2,
         BlockGrown(H, K, n, st, b, st2, b2),
         NEW st3 \in States, st3.map = st2.map, st3.disk = st2.disk, st3.ok => st2.ok
  PROVE  BlockGrown(H, K, n, st, b, st3, b2)
<1> DEFINE N == st2.map \ st.map
<1>1. \A q \in 0 .. n - 1 :
       /\ b2[q] \in Sector
       /\ TreeGrown(H[q], st.disk, b[q], K[q], st3.disk, b2[q], N, st3.ok)
  BY DEF BlockGrown, TreeGrown
<1> QED
  BY <1>1 DEF BlockGrown

LEMMA FileSizes ==
  /\ NDirect \in Nat \ {0} /\ NIndex \in Nat \ {0} /\ NIndex * NIndex \in Nat \ {0}
  /\ Ind = NDirect /\ Dbl = NDirect + 1 /\ Dbl + 1 \in Nat
  /\ \A q \in 0 .. NDirect - 1 : HF[q] = 0
  /\ HF[Ind] = 1 /\ HF[Dbl] = 2
  /\ \A q \in 0 .. Dbl : HF[q] \in Heights
  /\ \A n \in Int : \A q \in 0 .. Dbl : KF(n)[q] \in Int
<1>1. NDirect \in Nat \ {0} /\ NIndex \in Nat \ {0}
  BY SizesAssumption
<1>2. NIndex * NIndex \in Nat \ {0}
  BY <1>1, SMT
<1>3. Ind = NDirect /\ Dbl = NDirect + 1
  BY DEF Ind, Dbl
<1>4. PICK p \in Nat \ {0} : p = NIndex * NIndex
  BY <1>2
<1>5. \A n \in Int : \A q \in 0 .. Dbl : KF(n)[q] \in Int
  BY <1>1, <1>3, <1>4 DEF KF, MinOf
<1>6. /\ \A q \in 0 .. NDirect - 1 : HF[q] = 0
      /\ HF[Ind] = 1 /\ HF[Dbl] = 2
      /\ \A q \in 0 .. Dbl : HF[q] \in Heights
  BY <1>1, <1>3 DEF HF, Heights
<1> QED
  BY <1>1, <1>2, <1>3, <1>5, <1>6

LEMMA ReserveGrows ==
  ASSUME NEW st, NEW data, BlockPre(HF, Dbl + 1, st, data), st.ok, NEW length \in Nat
  PROVE  /\ BlockGrown(HF, KF(bytes_to_sectors(length)), Dbl + 1, st, data,
                       inode_reserve(st, data, length).st,
                       inode_reserve(st, data, length).data)
         /\ inode_reserve(st, data, length).st.ok
              => bytes_to_sectors(length) <= MostBlocks
<1>1. PICK n \in Nat : n = bytes_to_sectors(length)
  BY SectorsFor, SizesAssumption DEF bytes_to_sectors
<1>2. PICK p \in Nat \ {0} : p = NIndex * NIndex
  BY FileSizes
<1>3. PICK n1 \in Nat : n1 = n - MinOf(n, NDirect)
  <2>1. n - MinOf(n, NDirect) \in Nat
    BY FileSizes DEF MinOf
  <2> QED
    BY <2>1
<1>4. PICK n2 \in Nat : n2 = n1 - MinOf(n1, NIndex)
  <2>1. n1 - MinOf(n1, NIndex) \in Nat
    BY FileSizes DEF MinOf
  <2> QED
    BY <2>1
<1>5. PICK n3 \in Nat : n3 = n2 - MinOf(n2, p)
  <2>1. n2 - MinOf(n2, p) \in Nat
    BY DEF MinOf
  <2> QED
    BY <2>1
<1>6. PICK dir : dir = ReserveEntries(ReserveLeaf, st, data, MinOf(n, NDirect), 1)
  OBVIOUS
<1>7. PICK one : one = ReserveLevel1(dir.st, data[Ind], MinOf(n1, NIndex))
  OBVIOUS
<1>8. PICK two : two = ReserveLevel2(one.st, data[Dbl], MinOf(n2, NIndex * NIndex))
  OBVIOUS
<1>9. PICK data1 : data1 = [dir.block EXCEPT ![Ind] = one.entry]
  OBVIOUS
<1>10. PICK R : R = inode_reserve(st, data, length)
  OBVIOUS
<1>11. R = IF ~dir.st.ok \/ n1 = 0 THEN [st |-> dir.st, data |-> dir.block]
           ELSE IF ~one.st.ok \/ n2 = 0 THEN [st |-> one.st, data |-> data1]
           ELSE [st |-> [two.st EXCEPT !.ok = @ /\ n3 = 0],
                 data |-> [data1 EXCEPT ![Dbl] = two.entry]]
  <2>1. inode_reserve(st, data, length) =
         LET nn == bytes_to_sectors(length)
             direct == ReserveEntries(ReserveLeaf, st, data, MinOf(nn, NDirect), 1)
             nn1 == nn - MinOf(nn, NDirect)
             one1 == ReserveLevel1(direct.st, data[Ind], MinOf(nn1, NIndex))
             nn2 == nn1 - MinOf(nn1, NIndex)
             two1 == ReserveLevel2(one1.st, data[Dbl], MinOf(nn2, NIndex * NIndex))
             nn3 == nn2 - MinOf(nn2, NIndex * NIndex)
         IN  IF ~direct.st.ok \/ nn1 = 0 THEN [st |-> direct.st, data |-> direct.block]
             ELSE IF ~one1.st.ok \/ nn2 = 0
             THEN [st |-> one1.st, data |-> [direct.block EXCEPT ![Ind] = one1.entry]]
             ELSE [st |-> [two1.st EXCEPT !.ok = @ /\ nn3 = 0],
                   data |-> [[direct.block EXCEPT ![Ind] = one1.entry]
                               EXCEPT ![Dbl] = two1.entry]]
    BY Zenon DEF inode_reserve
  <2> QED
    BY <1>1, <1>2, <1>3, <1>4, <1>5, <1>6, <1>7, <1>8, <1>9, <1>10, <2>1
<1> DEFINE H == HF
           K == KF(n)
           T == Dbl + 1
<1>12. /\ T \in Nat /\ NDirect \in 0 .. T /\ Ind \in 0 .. T - 1 /\ Dbl \in 0 .. T - 1
       /\ Ind + 1 = Dbl /\ Ind = NDirect /\ Dbl + 1 = T /\ Ind \in 0 .. T /\ Dbl \in 0 .. T
       /\ 0 .. T - 1 = 0 .. Dbl
  BY FileSizes
<1>13. \A q \in 0 .. T - 1 : K[q] \in Int
  BY <1>12, FileSizes
<1>14. /\ n1 = 0 => \A q \in Ind .. T - 1 : K[q] <= 0
       /\ n2 = 0 => \A q \in Dbl .. T - 1 : K[q] <= 0
       /\ n1 # 0 => K[Ind] = MinOf(n1, NIndex) /\ MinOf(n1, NIndex) \in 1 .. NIndex
       /\ n1 # 0 /\ n2 # 0 => K[Dbl] = MinOf(n2, p) /\ MinOf(n2, p) \in 1 .. p
       /\ n1 = 0 => n <= NDirect + NIndex + p
       /\ n2 = 0 => n <= NDirect + NIndex + p
       /\ n3 = 0 => n <= NDirect + NIndex + p
       /\ MinOf(n, NDirect) \in Nat /\ MinOf(n, NDirect) <= NDirect
  BY <1>2, <1>3, <1>4, <1>5, FileSizes DEF KF, MinOf
<1>15. \A q \in 0 .. NDirect - 1 : H[q] = Flat(0)[q] /\ K[q] = Share(MinOf(n, NDirect), 1)[q]
  <2> SUFFICES ASSUME NEW q \in 0 .. NDirect - 1
               PROVE  H[q] = Flat(0)[q] /\ K[q] = Share(MinOf(n, NDirect), 1)[q]
    OBVIOUS
  <2>1. q \in Nat /\ q < NDirect
    BY FileSizes
  <2>2. K[q] = MinOf(n - q, 1) /\ Share(MinOf(n, NDirect), 1)[q] = MinOf(MinOf(n, NDirect) - q, 1)
    BY <2>1, FileSizes DEF KF, Share
  <2> HIDE DEF K, H
  <2>3. MinOf(n - q, 1) = MinOf(MinOf(n, NDirect) - q, 1)
    BY <2>1, FileSizes DEF MinOf
  <2> QED
    BY <2>1, <2>2, <2>3, FileSizes DEF H, Flat
<1> HIDE DEF H, K, T
<1>16. BlockGrown(H, K, Ind, st, data, dir.st, dir.block)
  <2>1. BlockPre(Flat(0), NDirect, st, data)
    <3>1. /\ NDirect \in Nat /\ 0 .. NDirect - 1 \subseteq 0 .. Dbl
          /\ Dbl + 1 - 1 = Dbl /\ 0 .. Dbl + 1 - 1 = 0 .. Dbl
      BY FileSizes
    <3>2. \A q \in 0 .. NDirect - 1 : Flat(0)[q] = HF[q]
      BY <1>15 DEF H
    <3>3. /\ 0 .. Dbl \subseteq Words /\ st \in States /\ 0 \in st.map /\ data \in Block
          /\ \A q \in 0 .. Dbl : HF[q] \in Heights /\ TreePre(HF[q], st, data[q])
          /\ \A q, r \in 0 .. Dbl :
               q # r => Nodes(HF[q], st.disk, data[q]) \intersect Nodes(HF[r], st.disk, data[r]) = {}
      <4>1. PICK t : t = Dbl + 1
        OBVIOUS
      <4>2. BlockPre(HF, t, st, data)
        BY <4>1
      <4>3. t - 1 = Dbl
        BY <4>1, FileSizes
      <4> QED
        BY <4>2, <4>3 DEF BlockPre
    <3> HIDE DEF H, K, T
    <3>4. /\ 0 .. NDirect - 1 \subseteq Words
          /\ \A q \in 0 .. NDirect - 1 : Flat(0)[q] \in Heights /\ TreePre(Flat(0)[q], st, data[q])
      BY <3>1, <3>2, <3>3
    <3>5. \A q, r \in 0 .. NDirect - 1 :
            q # r => Nodes(Flat(0)[q], st.disk, data[q])
                       \intersect Nodes(Flat(0)[r], st.disk, data[r]) = {}
      BY <3>1, <3>2, <3>3
    <3> QED
      BY <3>1, <3>3, <3>4, <3>5 DEF BlockPre
  <2>2. BlockGrown(Flat(0), Share(MinOf(n, NDirect), 1), NDirect, st, data, dir.st, dir.block)
    BY <1>6, <1>14, <2>1, LeavesGrow
  <2>3. BlockGrown(H, K, NDirect, st, data, dir.st, dir.block)
    BY <1>15, <2>2, BlockSame
  <2> QED
    BY <1>12, <2>3
<1>17. BlockPre(H, T, st, data)
  BY DEF H, T
<1>18. CASE ~dir.st.ok \/ n1 = 0
  <2>1. BlockGrown(H, K, T, st, data, dir.st, dir.block)
    <3>1. dir.st.ok => \A q \in Ind .. T - 1 : K[q] <= 0
      BY <1>14, <1>18
    <3> QED
      BY <1>12, <1>13, <1>16, <1>17, <3>1, BlockMore
  <2>2. R = [st |-> dir.st, data |-> dir.block]
    BY <1>11, <1>18
  <2>3. R.st = dir.st /\ R.data = dir.block
    BY <2>2
  <2>4. R.st.ok => n <= MostBlocks
    BY <1>2, <1>14, <1>18, <2>3 DEF MostBlocks
  <2> QED
    BY <1>1, <1>10, <2>1, <2>3, <2>4 DEF H, K, T
<1>19. ASSUME dir.st.ok, n1 # 0
       PROVE  BlockGrown(H, K, Dbl, st, data, one.st, data1)
  <2>1. Ind \in Ind .. T - 1
    BY <1>12
  <2>2. TreePre(H[Ind], dir.st, data[Ind])
    BY <1>12, <1>16, <1>17, <2>1, NotReached
  <2>3. dir.block[Ind] = data[Ind]
    <3>1. Ind \in Words /\ Ind \notin 0 .. Ind - 1
      BY <1>12, <1>17 DEF BlockPre
    <3> QED
      BY <1>16, <3>1 DEF BlockGrown
  <2>4. dir.st \in States /\ 0 \in dir.st.map
    BY <1>16, <1>17 DEF BlockGrown, BlockPre
  <2>5. K[Ind] \in Int /\ K[Ind] >= 1 /\ K[Ind] <= NIndex /\ H[Ind] = 1
    BY <1>12, <1>13, <1>14, <1>19, FileSizes DEF H
  <2>6. one = ReserveLevel1(dir.st, data[Ind], K[Ind])
    BY <1>7, <1>14, <1>19
  <2>7. Grows(1, dir.st, data[Ind], K[Ind], one.st, one.entry)
    BY <2>5, <2>6, Level1Grows
  <2>8. Grown(H[Ind], dir.st, dir.block[Ind], K[Ind], one.st, one.entry)
    BY <1>19, <2>2, <2>3, <2>4, <2>5, <2>7 DEF Grows
  <2>9. BlockGrown(H, K, Ind + 1, st, data, one.st, [dir.block EXCEPT ![Ind] = one.entry])
    BY <1>12, <1>16, <1>17, <1>19, <2>8, BlockStep
  <2> QED
    BY <1>9, <1>12, <2>9
<1>20. CASE dir.st.ok /\ n1 # 0 /\ (~one.st.ok \/ n2 = 0)
  <2>1. BlockGrown(H, K, T, st, data, one.st, data1)
    <3>1. one.st.ok => \A q \in Dbl .. T - 1 : K[q] <= 0
      BY <1>14, <1>20
    <3> QED
      BY <1>12, <1>13, <1>17, <1>19, <1>20, <3>1, BlockMore
  <2>2. R = [st |-> one.st, data |-> data1]
    BY <1>11, <1>20
  <2>3. R.st = one.st /\ R.data = data1
    BY <2>2
  <2>4. R.st.ok => n <= MostBlocks
    BY <1>2, <1>14, <1>20, <2>3 DEF MostBlocks
  <2> QED
    BY <1>1, <1>10, <2>1, <2>3, <2>4 DEF H, K, T
<1>21. CASE dir.st.ok /\ n1 # 0 /\ one.st.ok /\ n2 # 0
  <2>0. BlockGrown(H, K, Dbl, st, data, one.st, data1)
    BY <1>19, <1>21
  <2>1. Dbl \in Dbl .. T - 1
    BY <1>12
  <2>2. TreePre(H[Dbl], one.st, data[Dbl])
    BY <1>12, <1>17, <2>0, <2>1, NotReached
  <2>3. data1[Dbl] = data[Dbl]
    <3>1. Dbl \in Words /\ Dbl \notin 0 .. Dbl - 1
      BY <1>12, <1>17 DEF BlockPre
    <3> QED
      BY <2>0, <3>1 DEF BlockGrown
  <2>4. one.st \in States /\ 0 \in one.st.map
    BY <1>17, <2>0 DEF BlockGrown, BlockPre
  <2>5. K[Dbl] \in Int /\ K[Dbl] >= 1 /\ K[Dbl] <= NIndex * NIndex /\ H[Dbl] = 2
    BY <1>2, <1>12, <1>13, <1>14, <1>21, FileSizes DEF H
  <2>6. two = ReserveLevel2(one.st, data[Dbl], K[Dbl])
    BY <1>2, <1>8, <1>14, <1>21
  <2>7. Grows(2, one.st, data[Dbl], K[Dbl], two.st, two.entry)
    BY <2>5, <2>6, Level2Grows
  <2>8. Grown(H[Dbl], one.st, data1[Dbl], K[Dbl], two.st, two.entry)
    BY <1>21, <2>2, <2>3, <2>4, <2>5, <2>7 DEF Grows
  <2>9. BlockGrown(H, K, Dbl + 1, st, data, two.st, [data1 EXCEPT ![Dbl] = two.entry])
    BY <1>12, <1>17, <1>21, <2>0, <2>8, BlockStep
  <2>10. R = [st |-> [two.st EXCEPT !.ok = @ /\ n3 = 0],
              data |-> [data1 EXCEPT ![Dbl] = two.entry]]
    BY <1>11, <1>21
  <2>11. R.st = [two.st EXCEPT !.ok = @ /\ n3 = 0] /\ R.data = [data1 EXCEPT ![Dbl] = two.entry]
    BY <2>10
  <2>12. two.st \in States
    BY <2>9 DEF BlockGrown
  <2>13. /\ R.st \in States /\ R.st.map = two.st.map /\ R.st.disk = two.st.disk
         /\ R.st.ok => two.st.ok
         /\ R.st.ok => n3 = 0
    <3> DEFINE m == two.st.map
               d == two.st.disk
               o == two.st.ok
    <3>1. two.st = [map |-> m, disk |-> d, ok |-> o]
      BY <2>12, StateIs
    <3>2. PICK x : x = (o /\ n3 = 0)
      OBVIOUS
    <3> HIDE DEF m, d, o
    <3>3. [two.st EXCEPT !.ok = x] = [map |-> m, disk |-> d, ok |-> x]
      BY ONLY <3>1
    <3>4. R.st = [two.st EXCEPT !.ok = x]
      BY <2>11, <3>2 DEF o
    <3>5. R.st = [map |-> m, disk |-> d, ok |-> x]
      BY <3>3, <3>4
    <3>6. m \in SUBSET Sector /\ d \in Disk /\ o \in BOOLEAN
      BY <2>12 DEF m, d, o, States
    <3>7. x \in BOOLEAN
      BY <3>2
    <3>8. R.st.map = m /\ R.st.disk = d /\ R.st.ok = x
      BY <3>5
    <3>9. R.st \in States
      BY <3>5, <3>6, <3>7 DEF States
    <3> QED
      BY <3>2, <3>8, <3>9 DEF m, d, o
  <2>14. BlockGrown(H, K, T, st, data, R.st, R.data)
    <3>1. BlockGrown(H, K, T, st, data, two.st, [data1 EXCEPT ![Dbl] = two.entry])
      BY <1>12, <2>9
    <3>2. BlockGrown(H, K, T, st, data, R.st, [data1 EXCEPT ![Dbl] = two.entry])
      BY <2>13, <3>1, BlockUnsure
    <3> QED
      BY <2>11, <3>2
  <2>15. R.st.ok => n <= MostBlocks
    BY <1>2, <1>14, <2>13 DEF MostBlocks
  <2> QED
    BY <1>1, <1>10, <2>14, <2>15 DEF H, K, T
<1> QED
  BY <1>18, <1>20, <1>21

LEMMA LeafOf ==
  ASSUME NEW h \in {0, 1}, NEW d, NEW e, NEW i \in Nat, i < Unit(h + 1)
  PROVE  \E k \in Entries, r \in Nat :
           /\ r < Unit(h) /\ i = k * Unit(h) + r
           /\ e = 0 => Leaf(h + 1, d, e, i) = 0
           /\ e # 0 => Leaf(h + 1, d, e, i) = Leaf(h, d, d[e][k], r)
<1>1. PICK k \in Entries : \E r \in 0 .. Unit(h) - 1 : i = k * Unit(h) + r
  BY LeafPlace
<1>2. PICK r \in 0 .. Unit(h) - 1 : i = k * Unit(h) + r
  BY <1>1
<1>3. /\ e = 0 => Leaf(h + 1, d, e, i) = 0
      /\ e # 0 => Leaf(h + 1, d, e, k * Unit(h) + r) = Leaf(h, d, d[e][k], r)
  <2>1. CASE e = 0
    <3>1. h + 1 \in Heights
      BY DEF Heights
    <3>2. Leaf(h + 1, d, 0, i) = 0
      BY <3>1, NoTree
    <3> QED
      BY <2>1, <3>2
  <2>2. ASSUME e # 0 PROVE Leaf(h + 1, d, e, k * Unit(h) + r) = Leaf(h, d, d[e][k], r)
    BY <2>2, LeafAbove
  <2> QED
    BY <2>1, <2>2
<1>4. r \in Nat /\ r < Unit(h)
  BY Units DEF Heights
<1> QED
  BY <1>2, <1>3, <1>4

\* Different numbers, different sectors.
LEMMA LeavesApart ==
  ASSUME NEW h \in Heights, NEW d, NEW e, Apart(h, d, e),
         NEW i \in Nat, i < Unit(h), NEW j \in Nat, j < Unit(h), i # j,
         Leaf(h, d, e, i) # 0
  PROVE  Leaf(h, d, e, i) # Leaf(h, d, e, j)
<1> DEFINE L(g, x, k) == Leaf(g, d, x, k)
<1>1. ASSUME NEW g \in {0, 1},
             \A x : Apart(g, d, x) => \A k, l \in Nat :
               k < Unit(g) /\ l < Unit(g) /\ k # l /\ L(g, x, k) # 0 => L(g, x, k) # L(g, x, l),
             NEW x, Apart(g + 1, d, x),
             NEW k \in Nat, k < Unit(g + 1), NEW l \in Nat, l < Unit(g + 1), k # l,
             L(g + 1, x, k) # 0
      PROVE  L(g + 1, x, k) # L(g + 1, x, l)
  <2>1. PICK p \in Entries, r \in Nat :
          r < Unit(g) /\ k = p * Unit(g) + r
          /\ (x = 0 => L(g + 1, x, k) = 0) /\ (x # 0 => L(g + 1, x, k) = L(g, d[x][p], r))
    BY <1>1, LeafOf
  <2>2. PICK q \in Entries, t \in Nat :
          t < Unit(g) /\ l = q * Unit(g) + t
          /\ (x = 0 => L(g + 1, x, l) = 0) /\ (x # 0 => L(g + 1, x, l) = L(g, d[x][q], t))
    BY <1>1, LeafOf
  <2>7. x # 0 /\ L(g + 1, x, k) = L(g, d[x][p], r) /\ L(g + 1, x, l) = L(g, d[x][q], t)
        /\ L(g, d[x][p], r) # 0
    BY <1>1, <2>1, <2>2
  <2>8. r < Unit(g) /\ t < Unit(g) /\ g \in Heights
    BY <2>1, <2>2 DEF Heights
  <2> HIDE DEF L
  <2>9. CASE p = q
    <3>1. r # t
      BY <1>1, <2>1, <2>2, <2>9
    <3>2. Apart(g, d, d[x][p])
      BY <1>1, <2>7, ApartAbove
    <3> QED
      BY <1>1, <2>7, <2>8, <2>9, <3>1, <3>2
  <2>10. CASE p # q
    <3>1. Nodes(g, d, d[x][p]) \intersect Nodes(g, d, d[x][q]) = {}
      BY <1>1, <2>7, <2>10, ApartAbove
    <3>2. L(g, d[x][p], r) \in Nodes(g, d, d[x][p])
      BY <2>7, <2>8, LeafIsNode DEF L
    <3>3. L(g, d[x][q], t) # 0 => L(g, d[x][q], t) \in Nodes(g, d, d[x][q])
      BY <2>8, LeafIsNode DEF L
    <3> QED
      BY <2>7, <3>1, <3>2, <3>3
  <2> QED
    BY <2>9, <2>10
<1> HIDE DEF L
<1>2. \A x : Apart(0, d, x) => \A k, l \in Nat :
        k < Unit(0) /\ l < Unit(0) /\ k # l /\ L(0, x, k) # 0 => L(0, x, k) # L(0, x, l)
  BY Units
<1>3. \A x : Apart(1, d, x) => \A k, l \in Nat :
        k < Unit(1) /\ l < Unit(1) /\ k # l /\ L(1, x, k) # 0 => L(1, x, k) # L(1, x, l)
  <2> SUFFICES ASSUME NEW x, Apart(0 + 1, d, x), NEW k \in Nat, NEW l \in Nat,
                      k < Unit(0 + 1), l < Unit(0 + 1), k # l, L(0 + 1, x, k) # 0
               PROVE  L(0 + 1, x, k) # L(0 + 1, x, l)
    OBVIOUS
  <2> QED
    BY <1>1, <1>2
<1>4. \A x : Apart(2, d, x) => \A k, l \in Nat :
        k < Unit(2) /\ l < Unit(2) /\ k # l /\ L(2, x, k) # 0 => L(2, x, k) # L(2, x, l)
  <2> SUFFICES ASSUME NEW x, Apart(1 + 1, d, x), NEW k \in Nat, NEW l \in Nat,
                      k < Unit(1 + 1), l < Unit(1 + 1), k # l, L(1 + 1, x, k) # 0
               PROVE  L(1 + 1, x, k) # L(1 + 1, x, l)
    OBVIOUS
  <2> QED
    BY <1>1, <1>3
<1>5. h = 0 \/ h = 1 \/ h = 2
  BY DEF Heights
<1>6. L(h, e, i) # L(h, e, j)
  BY <1>2, <1>3, <1>4, <1>5 DEF L
<1> QED
  BY <1>6 DEF L

-------------------------------------------------------------------------------
(* The blocks of a file.  Block i is number i - Base(Root(i)) of the tree of    *)
(* entry Root(i).                                                               *)

Root(i) == IF i < NDirect THEN i ELSE IF i < NDirect + NIndex THEN Ind ELSE Dbl
Base(q) == IF q < NDirect THEN q ELSE IF q = Ind THEN NDirect ELSE NDirect + NIndex

FNodes(d, b) == UNION {Nodes(HF[q], d, b[q]) : q \in 0 .. Dbl}
FInner(d, b) == UNION {Inner(HF[q], d, b[q]) : q \in 0 .. Dbl}
FLeaf(d, b, i) == Leaf(HF[Root(i)], d, b[Root(i)], i - Base(Root(i)))
Reach(d, b, n) == n <= MostBlocks /\ \A i \in Nat : i < n => FLeaf(d, b, i) # 0

\* The trees of one file, in the sectors m.
FileTrees(m, d, b) == BlockPre(HF, Dbl + 1, State(m, d), b)

LEMMA Roots ==
  ASSUME NEW i \in Nat, i < MostBlocks
  PROVE  /\ Root(i) \in 0 .. Dbl /\ HF[Root(i)] \in Heights
         /\ i - Base(Root(i)) \in Nat /\ i - Base(Root(i)) < Unit(HF[Root(i)])
         /\ \A n \in Int : i < n => i - Base(Root(i)) < KF(n)[Root(i)]
<1>1. PICK p \in Nat \ {0} : p = NIndex * NIndex
  BY FileSizes
<1>2. PICK q : q = Root(i)
  OBVIOUS
<1>3. /\ q \in 0 .. Dbl /\ i - Base(q) \in Nat
      /\ \/ q < NDirect /\ q = i
         \/ q = Ind /\ i - NDirect < NIndex /\ i >= NDirect
         \/ q = Dbl /\ i - NDirect - NIndex < p /\ i >= NDirect + NIndex
  BY <1>1, <1>2, FileSizes DEF Root, Base, MostBlocks
<1>4. \/ q < NDirect /\ q = i /\ HF[q] = 0 /\ Base(q) = i
      \/ q = Ind /\ HF[q] = 1 /\ Base(q) = NDirect
      \/ q = Dbl /\ HF[q] = 2 /\ Base(q) = NDirect + NIndex
  BY <1>3, FileSizes DEF Base
<1>5. HF[q] \in Heights
  BY <1>3, FileSizes
<1>6. i - Base(q) < Unit(HF[q])
  BY <1>1, <1>3, <1>4, FileSizes DEF Unit
<1>7. \A n \in Int : i < n => i - Base(q) < KF(n)[q]
  <2> SUFFICES ASSUME NEW n \in Int, i < n PROVE i - Base(q) < KF(n)[q]
    OBVIOUS
  <2>1. q < NDirect => KF(n)[q] = MinOf(n - q, 1)
    BY <1>3, FileSizes DEF KF
  <2>2. q = Ind => KF(n)[q] = MinOf(n - NDirect, NIndex)
    BY <1>3, FileSizes DEF KF
  <2>3. q = Dbl => KF(n)[q] = MinOf(n - NDirect - NIndex, p)
    BY <1>1, <1>3, FileSizes DEF KF
  <2> QED
    BY <1>3, <1>4, <2>1, <2>2, <2>3, FileSizes DEF MinOf
<1> QED
  BY <1>2, <1>3, <1>5, <1>6, <1>7

LEMMA FileTreesAre ==
  ASSUME NEW m, NEW d, NEW b
  PROVE  FileTrees(m, d, b) <=>
           /\ m \subseteq Sector /\ d \in Disk /\ 0 \in m /\ b \in Block
           /\ \A q \in 0 .. Dbl : /\ b[q] \in Sector /\ Apart(HF[q], d, b[q])
                                  /\ Nodes(HF[q], d, b[q]) \subseteq m
           /\ \A q, r \in 0 .. Dbl :
                q # r => Nodes(HF[q], d, b[q]) \intersect Nodes(HF[r], d, b[r]) = {}
<1>1. PICK t : t = Dbl + 1
  OBVIOUS
<1>2. t - 1 = Dbl /\ t \in Nat /\ 0 .. t - 1 \subseteq Words
      /\ \A q \in 0 .. t - 1 : HF[q] \in Heights
  BY <1>1, FileSizes, WordsThere
<1>3. State(m, d).map = m /\ State(m, d).disk = d
      /\ (State(m, d) \in States <=> m \subseteq Sector /\ d \in Disk)
  BY DEF State, States
<1>4. FileTrees(m, d, b) <=> BlockPre(HF, t, State(m, d), b)
  BY <1>1 DEF FileTrees
<1>5. BlockPre(HF, t, State(m, d), b) <=>
           /\ m \subseteq Sector /\ d \in Disk /\ 0 \in m /\ b \in Block
           /\ \A q \in 0 .. t - 1 : TreePre(HF[q], State(m, d), b[q])
           /\ \A q, r \in 0 .. t - 1 :
                q # r => Nodes(HF[q], d, b[q]) \intersect Nodes(HF[r], d, b[r]) = {}
  BY <1>2, <1>3 DEF BlockPre
<1>6. \A q \in 0 .. t - 1 : TreePre(HF[q], State(m, d), b[q]) <=>
        b[q] \in Sector /\ Apart(HF[q], d, b[q]) /\ Nodes(HF[q], d, b[q]) \subseteq m
  BY <1>3 DEF TreePre
<1> QED
  BY <1>2, <1>4, <1>5, <1>6

LEMMA MostBlocksNat == MostBlocks \in Nat
<1>1. PICK p \in Nat : p = NIndex * NIndex
  BY FileSizes
<1>2. NDirect \in Nat /\ NIndex \in Nat
  BY FileSizes
<1> QED
  BY <1>1, <1>2 DEF MostBlocks

LEMMA BaseNumber == \A q \in 0 .. Dbl : Base(q) \in Int /\ \A n \in Int : n - Base(q) \in Int
<1> SUFFICES ASSUME NEW q \in 0 .. Dbl
             PROVE  Base(q) \in Int
  OBVIOUS
<1> QED
  BY FileSizes DEF Base

LEMMA FileSectors ==
  ASSUME NEW m, NEW d, NEW b, FileTrees(m, d, b)
  PROVE  /\ FInner(d, b) \subseteq FNodes(d, b)
         /\ FNodes(d, b) \subseteq m /\ m \subseteq Sector
         /\ 0 \notin FNodes(d, b) /\ 0 \in m /\ d \in Disk /\ b \in Block
<1>1. \A q \in 0 .. Dbl : Inner(HF[q], d, b[q]) \subseteq Nodes(HF[q], d, b[q])
                          /\ 0 \notin Nodes(HF[q], d, b[q])
  BY FileSizes, InnerAreNodes
<1>2. \A q \in 0 .. Dbl : Nodes(HF[q], d, b[q]) \subseteq m
  BY FileTreesAre
<1> QED
  BY <1>1, <1>2, FileTreesAre DEF FNodes, FInner

LEMMA FileLeaf ==
  ASSUME NEW m, NEW d, NEW b, FileTrees(m, d, b),
         NEW i \in Nat, i < MostBlocks, FLeaf(d, b, i) # 0
  PROVE  /\ FLeaf(d, b, i) \in FNodes(d, b)
         /\ FLeaf(d, b, i) \notin FInner(d, b)
         /\ FLeaf(d, b, i) \in Sector
         /\ \A j \in Nat : j < MostBlocks /\ j # i => FLeaf(d, b, j) # FLeaf(d, b, i)
<1> DEFINE q == Root(i)
           r == i - Base(q)
           l == FLeaf(d, b, i)
<1>1. q \in 0 .. Dbl /\ HF[q] \in Heights /\ r \in Nat /\ r < Unit(HF[q])
  BY Roots
<1>2. l = Leaf(HF[q], d, b[q], r) /\ Apart(HF[q], d, b[q])
  BY <1>1, FileTreesAre DEF FLeaf
<1>3. l \in Nodes(HF[q], d, b[q]) /\ l \notin Inner(HF[q], d, b[q])
  <2> HIDE DEF q, r
  <2>1. Leaf(HF[q], d, b[q], r) # 0
    BY <1>2
  <2>2. Leaf(HF[q], d, b[q], r) \in Nodes(HF[q], d, b[q])
    BY <1>1, <2>1, LeafIsNode
  <2>3. Leaf(HF[q], d, b[q], r) \notin Inner(HF[q], d, b[q])
    BY <1>1, <1>2, <2>1, LeafNotInner
  <2> QED
    BY <1>2, <2>2, <2>3
<1> HIDE DEF l
<1>4. \A p \in 0 .. Dbl : p # q => l \notin Nodes(HF[p], d, b[p])
  BY <1>1, <1>3, FileTreesAre
<1>5. \A p \in 0 .. Dbl : Inner(HF[p], d, b[p]) \subseteq Nodes(HF[p], d, b[p])
  BY FileSizes, InnerAreNodes
<1>6. l \in FNodes(d, b) /\ l \notin FInner(d, b)
  BY <1>1, <1>3, <1>4, <1>5 DEF FNodes, FInner
<1>7. ASSUME NEW j \in Nat, j < MostBlocks, j # i PROVE FLeaf(d, b, j) # l
  <2> DEFINE p == Root(j)
             t == j - Base(p)
  <2>1. p \in 0 .. Dbl /\ HF[p] \in Heights /\ t \in Nat /\ t < Unit(HF[p])
    BY <1>7, Roots
  <2>2. FLeaf(d, b, j) = Leaf(HF[p], d, b[p], t)
    BY DEF FLeaf
  <2>3. CASE p = q
    <3>1. t # r
      <4>1. PICK x \in Int : x = Base(q)
        BY <1>1, BaseNumber
      <4> QED
        BY <1>7, <2>3, <4>1
    <3> HIDE DEF p, q, r, t
    <3>2. Leaf(HF[q], d, b[q], r) # Leaf(HF[q], d, b[q], t)
      BY <1>1, <1>2, <2>1, <2>3, <3>1, LeavesApart DEF l
    <3> QED
      BY <1>2, <2>2, <2>3, <3>2
  <2>4. CASE p # q
    <3>1. FLeaf(d, b, j) # 0 => FLeaf(d, b, j) \in Nodes(HF[p], d, b[p])
      <4> HIDE DEF p, t
      <4> QED
        BY <2>1, <2>2, LeafIsNode
    <3>2. l # 0
      BY DEF l
    <3> HIDE DEF p, q
    <3> QED
      BY <1>4, <2>1, <2>4, <3>1, <3>2
  <2> QED
    BY <2>3, <2>4
<1>8. l \in Sector
  BY <1>6, FileSectors
<1> QED
  BY <1>6, <1>7, <1>8 DEF l

\* Nothing has changed under the index blocks of a file.
SameFile(d, d2, b) ==
  /\ \A s : s \in FNodes(d2, b) <=> s \in FNodes(d, b)
  /\ \A s : s \in FInner(d2, b) <=> s \in FInner(d, b)
  /\ \A i \in Nat : i < MostBlocks => FLeaf(d2, b, i) = FLeaf(d, b, i)
  /\ \A n \in Int : Reach(d2, b, n) <=> Reach(d, b, n)

\* There is nothing but the first n blocks and the way to them.
FTrim(d, b, n) == \A q \in 0 .. Dbl : Trim(HF[q], d, b[q], n - Base(q))

LEMMA FileSame ==
  ASSUME NEW m, NEW d, NEW b, FileTrees(m, d, b),
         NEW d2 \in Disk, \A s \in FInner(d, b) : d2[s] = d[s]
  PROVE  /\ SameFile(d, d2, b)
         /\ \A n \in Int : FTrim(d, b, n) => FTrim(d2, b, n)
         /\ \A m2 \in SUBSET Sector : 0 \in m2 /\ FNodes(d, b) \subseteq m2
              => FileTrees(m2, d2, b)
<1>1. ASSUME NEW q \in 0 .. Dbl PROVE Same(HF[q], d, d2, b[q])
  <2>1. Inner(HF[q], d, b[q]) \subseteq FInner(d, b)
    BY DEF FInner
  <2> QED
    BY <2>1, FileSizes, SameTree
<1>2. \A q \in 0 .. Dbl : /\ Nodes(HF[q], d2, b[q]) = Nodes(HF[q], d, b[q])
                          /\ Inner(HF[q], d2, b[q]) = Inner(HF[q], d, b[q])
                          /\ Apart(HF[q], d2, b[q]) <=> Apart(HF[q], d, b[q])
  BY <1>1 DEF Same
<1>3. \A i \in Nat : i < MostBlocks => FLeaf(d2, b, i) = FLeaf(d, b, i)
  <2> SUFFICES ASSUME NEW i \in Nat, i < MostBlocks PROVE FLeaf(d2, b, i) = FLeaf(d, b, i)
    OBVIOUS
  <2>1. PICK q \in 0 .. Dbl : q = Root(i)
    BY Roots
  <2>2. PICK r \in Nat : r = i - Base(Root(i)) /\ r < Unit(HF[q])
    BY <2>1, Roots
  <2>3. Leaf(HF[q], d2, b[q], r) = Leaf(HF[q], d, b[q], r)
    BY <1>1, <2>2 DEF Same
  <2> QED
    BY <2>1, <2>2, <2>3 DEF FLeaf
<1>4. \A n \in Int : Reach(d2, b, n) <=> Reach(d, b, n)
  <2>1. MostBlocks \in Nat
    BY MostBlocksNat
  <2> QED
    BY <1>3, <2>1 DEF Reach
<1>5. SameFile(d, d2, b)
  BY <1>2, <1>3, <1>4 DEF SameFile, FNodes, FInner
<1>6. \A n \in Int : FTrim(d, b, n) => FTrim(d2, b, n)
  BY <1>1, BaseNumber DEF FTrim, Same
<1>7. ASSUME NEW m2 \in SUBSET Sector, 0 \in m2, FNodes(d, b) \subseteq m2
      PROVE  FileTrees(m2, d2, b)
  <2>1. \A q \in 0 .. Dbl : Nodes(HF[q], d, b[q]) \subseteq m2
    BY <1>7 DEF FNodes
  <2>2. /\ b \in Block
        /\ \A q \in 0 .. Dbl : b[q] \in Sector /\ Apart(HF[q], d, b[q])
        /\ \A q, r \in 0 .. Dbl :
              q # r => Nodes(HF[q], d, b[q]) \intersect Nodes(HF[r], d, b[r]) = {}
    BY FileTreesAre
  <2> QED
    BY <1>2, <1>7, <2>1, <2>2, FileTreesAre
<1> QED
  BY <1>5, <1>6, <1>7

\* What a reservation of n blocks does to the file whose inode it is given.
FileGrown(n, m, d, b, m2, d2, b2, ok) ==
  /\ FileTrees(m2, d2, b2) /\ m \subseteq m2
  /\ \A w \in Words : w \notin 0 .. Dbl => b2[w] = b[w]
  /\ \A q \in 0 .. Dbl : b[q] # 0 => b2[q] = b[q]
  /\ \A s \in FNodes(d, b) : s \in FNodes(d2, b2)
  /\ \A s \in FNodes(d2, b2) : s \in FNodes(d, b) \/ s \in m2 \ m
  /\ \A i \in Nat :
       i < MostBlocks =>
         /\ FLeaf(d, b, i) # 0 => FLeaf(d2, b2, i) = FLeaf(d, b, i)
         /\ FLeaf(d, b, i) = 0 /\ FLeaf(d2, b2, i) # 0
              => FLeaf(d2, b2, i) \in m2 \ m /\ d2[FLeaf(d2, b2, i)] = Zeros
  /\ \A s \in Sector : s # 0 /\ s \notin m2 \ m /\ s \notin FInner(d, b) => d2[s] = d[s]
  /\ ok => /\ Reach(d2, b2, n)
           /\ d2[0] = d[0]
           /\ \A s \in m2 \ m : s \in FNodes(d2, b2)
           /\ \A k \in Int : k >= n /\ FTrim(d, b, k) => FTrim(d2, b2, k)

LEMMA ReservedFile ==
  ASSUME NEW m, NEW d, NEW b, FileTrees(m, d, b), NEW length \in Nat,
         NEW r, r = inode_reserve(State(m, d), b, length)
  PROVE  /\ FileGrown(bytes_to_sectors(length), m, d, b,
                      r.st.map, r.st.disk, r.data, r.st.ok)
         /\ r.st \in States
<1>1. PICK n \in Nat : n = bytes_to_sectors(length)
  <2>1. bytes_to_sectors(length) \in Nat
    BY SectorsFor, SizesAssumption DEF bytes_to_sectors
  <2> QED
    BY <2>1
<1>2. PICK st : st = State(m, d)
  OBVIOUS
<1>3. PICK t : t = Dbl + 1
  OBVIOUS
<1>4. t - 1 = Dbl /\ st.map = m /\ st.disk = d /\ st.ok
  BY <1>2, <1>3, FileSizes DEF State
<1>5. /\ BlockGrown(HF, KF(n), t, st, b, r.st, r.data)
      /\ r.st.ok => n <= MostBlocks
  <2>1. BlockPre(HF, Dbl + 1, st, b)
    BY <1>2 DEF FileTrees
  <2>2. r = inode_reserve(st, b, length)
    BY <1>2
  <2> QED
    BY <1>1, <1>3, <1>4, <2>1, <2>2, ReserveGrows
<1> DEFINE m2 == r.st.map
           d2 == r.st.disk
           b2 == r.data
           ok == r.st.ok
           N == m2 \ m
           T(q) == TreeGrown(HF[q], d, b[q], KF(n)[q], d2, b2[q], N, ok)
<1>6. /\ r.st \in States /\ m \subseteq m2 /\ b2 \in Block
      /\ \A w \in Words : w \notin 0 .. Dbl => b2[w] = b[w]
      /\ \A q \in 0 .. Dbl : b2[q] \in Sector /\ T(q)
      /\ \A q, p \in 0 .. Dbl :
           q # p => Nodes(HF[q], d2, b2[q]) \intersect Nodes(HF[p], d2, b2[p]) = {}
      /\ \A s \in Sector :
           s # 0 /\ s \notin N /\ (\A q \in 0 .. Dbl : s \notin Inner(HF[q], d, b[q]))
             => d2[s] = d[s]
      /\ ok => /\ d2[0] = d[0]
               /\ \A s \in N : \E q \in 0 .. Dbl : s \in Nodes(HF[q], d2, b2[q])
  BY <1>4, <1>5 DEF BlockGrown
<1>7. \A q \in 0 .. Dbl : /\ b[q] # 0 => b2[q] = b[q]
                          /\ Apart(HF[q], d2, b2[q])
                          /\ Nodes(HF[q], d, b[q]) \subseteq Nodes(HF[q], d2, b2[q])
                          /\ Nodes(HF[q], d2, b2[q]) \subseteq Nodes(HF[q], d, b[q]) \union N
  BY <1>6 DEF TreeGrown
<1>8. ASSUME NEW i \in Nat, i < MostBlocks
      PROVE  /\ FLeaf(d, b, i) # 0 => FLeaf(d2, b2, i) = FLeaf(d, b, i)
             /\ FLeaf(d, b, i) = 0 /\ FLeaf(d2, b2, i) # 0
                  => FLeaf(d2, b2, i) \in N /\ d2[FLeaf(d2, b2, i)] = Zeros
             /\ ok /\ i < n => FLeaf(d2, b2, i) # 0
  <2>1. PICK q \in 0 .. Dbl : q = Root(i)
    BY <1>8, Roots
  <2>2. PICK k \in Nat : k = i - Base(Root(i)) /\ k < Unit(HF[q]) /\ (i < n => k < KF(n)[q])
    BY <1>8, <2>1, Roots
  <2>3. FLeaf(d, b, i) = Leaf(HF[q], d, b[q], k) /\ FLeaf(d2, b2, i) = Leaf(HF[q], d2, b2[q], k)
    BY <2>1, <2>2 DEF FLeaf
  <2>4. T(q)
    BY <1>6
  <2> HIDE DEF d2, b2, N, ok
  <2>5. ok /\ i < n => Leaf(HF[q], d2, b2[q], k) # 0
    BY <2>2, <2>4 DEF TreeGrown, Full
  <2> QED
    BY <2>2, <2>3, <2>4, <2>5 DEF TreeGrown
<1>9. m2 \in SUBSET Sector /\ d2 \in Disk /\ 0 \in m /\ m \subseteq Sector
  BY <1>6, FileSectors DEF States
<1>10. FileTrees(m2, d2, b2)
  <2>1. \A q \in 0 .. Dbl : Nodes(HF[q], d2, b2[q]) \subseteq m2
    <3>1. \A q \in 0 .. Dbl : Nodes(HF[q], d, b[q]) \subseteq m
      BY FileTreesAre
    <3> QED
      BY <1>6, <1>7, <3>1
  <2> HIDE DEF m2, d2, b2
  <2> QED
    BY <1>6, <1>7, <1>9, <2>1, FileTreesAre
<1>11. /\ \A s \in FNodes(d, b) : s \in FNodes(d2, b2)
       /\ \A s \in FNodes(d2, b2) : s \in FNodes(d, b) \/ s \in N
  BY <1>7 DEF FNodes
<1>12. \A s \in Sector : s # 0 /\ s \notin N /\ s \notin FInner(d, b) => d2[s] = d[s]
  BY <1>6 DEF FInner
<1>13. ASSUME ok
       PROVE  /\ Reach(d2, b2, n)
              /\ d2[0] = d[0]
              /\ \A s \in N : s \in FNodes(d2, b2)
  <2>1. n <= MostBlocks
    BY <1>5, <1>13
  <2>2. MostBlocks \in Nat
    BY MostBlocksNat
  <2>3. Reach(d2, b2, n)
    BY <1>8, <1>13, <2>1, <2>2 DEF Reach
  <2> QED
    BY <1>6, <1>13, <2>3 DEF FNodes
<1>14. ASSUME ok, NEW k \in Int, k >= n, FTrim(d, b, k) PROVE FTrim(d2, b2, k)
  <2> SUFFICES ASSUME NEW q \in 0 .. Dbl PROVE Trim(HF[q], d2, b2[q], k - Base(q))
    BY DEF FTrim
  <2>1. Trim(HF[q], d, b[q], k - Base(q)) /\ k - Base(q) \in Int
    BY <1>14, BaseNumber DEF FTrim
  <2>2. k - Base(q) >= KF(n)[q]
    <3>0. /\ NDirect \in Nat \ {0} /\ NIndex \in Nat \ {0} /\ NIndex * NIndex \in Nat \ {0}
          /\ Ind = NDirect /\ q \in Nat
      BY FileSizes
    <3>1. PICK p \in Nat : p = NIndex * NIndex
      BY <3>0
    <3>2. KF(n)[q] = IF q < NDirect THEN MinOf(n - q, 1)
                     ELSE IF q = Ind THEN MinOf(n - NDirect, NIndex)
                     ELSE MinOf(n - NDirect - NIndex, p)
      BY <3>0, <3>1 DEF KF
    <3> QED
      BY <1>14, <3>0, <3>2 DEF Base, MinOf
  <2>3. T(q)
    BY <1>6
  <2> HIDE DEF d2, b2, N, ok
  <2> QED
    BY <1>14, <2>1, <2>2, <2>3 DEF TreeGrown
<1>15. FileGrown(n, m, d, b, m2, d2, b2, ok)
  <2> HIDE DEF m2, d2, b2, ok
  <2> QED
    BY <1>6, <1>7, <1>8, <1>10, <1>11, <1>12, <1>13, <1>14 DEF FileGrown
<1> QED
  BY <1>1, <1>6, <1>15

\* index_to_sector finds the blocks.
LEMMA SectorOfIndex ==
  ASSUME NEW d, NEW b, NEW i \in Nat, i < MostBlocks, FLeaf(d, b, i) # 0
  PROVE  index_to_sector(d, b, i) = FLeaf(d, b, i)
<1>1. PICK p \in Nat \ {0} : p = NIndex * NIndex
  BY FileSizes
<1>2. NDirect \in Nat \ {0} /\ NIndex \in Nat \ {0} /\ Ind = NDirect /\ Dbl = NDirect + 1
  BY FileSizes
<1>3. CASE i < NDirect
  <2>1. Root(i) = i /\ HF[i] = 0
    BY <1>2, <1>3, FileSizes DEF Root
  <2>2. FLeaf(d, b, i) = b[i]
    BY <2>1 DEF FLeaf, Leaf
  <2>3. ~(i >= NDirect /\ i - NDirect < NIndex) /\ ~(i - NDirect >= NIndex /\ i - NDirect - NIndex < p)
    BY <1>1, <1>2, <1>3
  <2> QED
    BY <1>1, <1>3, <2>2, <2>3 DEF index_to_sector
<1>4. CASE i >= NDirect /\ i - NDirect < NIndex
  <2>1. Root(i) = Ind /\ HF[Ind] = 1 /\ Base(Ind) = NDirect
    BY <1>2, <1>4, FileSizes DEF Root, Base
  <2>2. FLeaf(d, b, i) = Leaf1(d, b[Ind], i - NDirect)
    BY <2>1 DEF FLeaf, Leaf
  <2>3. FLeaf(d, b, i) = d[b[Ind]][i - NDirect]
    BY <2>2 DEF Leaf1
  <2>4. ~(i < NDirect) /\ ~(i - NDirect >= NIndex /\ i - NDirect - NIndex < p)
    BY <1>1, <1>2, <1>4
  <2> QED
    BY <1>1, <1>4, <2>3, <2>4 DEF index_to_sector
<1>5. CASE i >= NDirect /\ i - NDirect >= NIndex
  <2>1. Root(i) = Dbl /\ HF[Dbl] = 2 /\ Base(Dbl) = NDirect + NIndex
    BY <1>2, <1>5, FileSizes DEF Root, Base
  <2>2. PICK k \in Nat : k = i - NDirect - NIndex
    BY <1>2, <1>5
  <2>3. i - Base(Dbl) = k /\ k < p
    BY <1>1, <1>2, <2>1, <2>2 DEF MostBlocks
  <2>4. FLeaf(d, b, i) = Leaf2(d, b[Dbl], k)
    BY <2>1, <2>3 DEF FLeaf, Leaf
  <2>5. FLeaf(d, b, i) = d[d[b[Dbl]][k \div NIndex]][k % NIndex]
    BY <2>4 DEF Leaf2, Leaf1
  <2>6. ~(i < NDirect) /\ ~(i >= NDirect /\ i - NDirect < NIndex)
        /\ i - NDirect >= NIndex /\ i - NDirect - NIndex < NIndex * NIndex
        /\ i - NDirect - NIndex = k
    BY <1>1, <1>2, <1>5, <2>2, <2>3
  <2> QED
    BY <2>5, <2>6 DEF index_to_sector
<1> QED
  BY <1>2, <1>3, <1>4, <1>5

\* What inode_deallocate hands over for an index block.
Released1(d, e, n) == {e} \union {d[e][i] : i \in 0 .. n - 1}
Released2(d, e, n) ==
  {e} \union UNION {Released1(d, d[e][i], MinOf(n - i * NIndex, NIndex)) :
                      i \in 0 .. (n + NIndex - 1) \div NIndex - 1}

LEMMA Released1Is ==
  ASSUME NEW d, NEW e, NEW n \in Int, n >= 1,
         \A i \in Nat : i < n /\ i < NIndex => Leaf1(d, e, i) # 0
  PROVE  /\ \A s \in Released1(d, e, MinOf(n, NIndex)) : s \in Nodes1(d, e)
         /\ Trim1(d, e, n) => \A s \in Nodes1(d, e) : s \in Released1(d, e, MinOf(n, NIndex))
<1>1. NIndex \in Nat \ {0} /\ Entries = 0 .. NIndex - 1
  BY SizesAssumption DEF Entries
<1>2. \A i : i \in 0 .. MinOf(n, NIndex) - 1 <=> i \in Entries /\ i < n
  BY <1>1 DEF MinOf
<1>3. Leaf1(d, e, 0) # 0
  BY <1>1
<1>4. e # 0
  BY <1>3 DEF Leaf1
<1>5. \A i \in Entries : i < n => d[e][i] # 0
  BY <1>1, <1>4 DEF Leaf1
<1>6. Nodes1(d, e) = {e} \union UNION {{d[e][k]} \ {0} : k \in Entries}
  BY <1>4 DEF Nodes1, Nodes0
<1>7. \A s \in Released1(d, e, MinOf(n, NIndex)) : s \in Nodes1(d, e)
  BY <1>2, <1>5, <1>6 DEF Released1
<1>8. ASSUME Trim1(d, e, n), NEW s \in Nodes1(d, e)
      PROVE  s \in Released1(d, e, MinOf(n, NIndex))
  <2>1. \A k \in Entries : n - k <= 0 => d[e][k] = 0
    BY <1>4, <1>8 DEF Trim1, Trim0
  <2>2. ASSUME NEW k \in Entries, s = d[e][k], s # 0
        PROVE  k \in 0 .. MinOf(n, NIndex) - 1
    <3>1. ~(n - k <= 0) /\ k \in Nat
      BY <1>1, <2>1, <2>2
    <3> QED
      BY <1>2, <3>1
  <2> QED
    BY <1>6, <1>8, <2>2 DEF Released1
<1> QED
  BY <1>7, <1>8

LEMMA Released2Is ==
  ASSUME NEW d, NEW e, NEW n \in Int, n >= 1,
         \A i \in Nat : i < n /\ i < NIndex * NIndex => Leaf2(d, e, i) # 0
  PROVE  /\ \A s \in Released2(d, e, MinOf(n, NIndex * NIndex)) : s \in Nodes2(d, e)
         /\ Trim2(d, e, n)
              => \A s \in Nodes2(d, e) : s \in Released2(d, e, MinOf(n, NIndex * NIndex))
<1>1. NIndex \in Nat \ {0} /\ Entries = 0 .. NIndex - 1
  BY SizesAssumption DEF Entries
<1>2. PICK p \in Nat \ {0} : p = NIndex * NIndex
  BY FileSizes
<1>3. PICK m \in Nat \ {0} : m = MinOf(n, NIndex * NIndex) /\ m <= n /\ m <= p /\ (m = n \/ m = p)
  <2>1. MinOf(n, p) \in Nat \ {0} /\ MinOf(n, p) <= n /\ MinOf(n, p) <= p
        /\ (MinOf(n, p) = n \/ MinOf(n, p) = p)
    BY DEF MinOf
  <2> QED
    BY <1>2, <2>1
<1>4. e # 0
  <2>1. Leaf2(d, e, 0) # 0
    BY <1>2
  <2> QED
    BY <2>1 DEF Leaf2
<1>5. PICK c \in Nat : c = (m + NIndex - 1) \div NIndex /\ \A q \in Nat : q < c <=> q * NIndex < m
  BY <1>1, SectorsFor
<1>6. \A k \in Entries : /\ k * NIndex \in Nat /\ k * NIndex + NIndex <= p
  <2> SUFFICES ASSUME NEW k \in Entries PROVE k * NIndex \in Nat /\ k * NIndex + NIndex <= p
    OBVIOUS
  <2>1. k \in Nat /\ k + 1 <= NIndex
    BY <1>1
  <2>2. (k + 1) * NIndex <= NIndex * NIndex
    BY <1>1, <2>1, ProductUp
  <2>3. (k + 1) * NIndex = k * NIndex + NIndex
    BY <1>1, <2>1
  <2> QED
    BY <1>1, <1>2, <2>1, <2>2, <2>3
<1>7. \A q : q \in 0 .. c - 1 <=> q \in Entries /\ q * NIndex < m
  <2>1. ASSUME NEW q \in Nat, q * NIndex < m PROVE q < NIndex
    <3>1. q * NIndex < NIndex * NIndex
      <4>1. PICK x \in Nat : x = q * NIndex
        BY <1>1
      <4> QED
        BY <1>2, <1>3, <2>1, <4>1
    <3>2. ~(NIndex <= q)
      <4> SUFFICES ASSUME NIndex <= q PROVE FALSE
        OBVIOUS
      <4>1. NIndex * NIndex <= q * NIndex
        BY <1>1, ProductUp
      <4>2. PICK x \in Nat : x = q * NIndex
        BY <1>1
      <4> QED
        BY <1>2, <3>1, <4>1, <4>2
    <3> QED
      BY <1>1, <3>2
  <2> QED
    BY <1>1, <1>5, <2>1
<1>8. ASSUME NEW k \in Entries, k * NIndex < m
      PROVE  /\ \A s \in Released1(d, d[e][k], MinOf(m - k * NIndex, NIndex)) :
                  s \in Nodes1(d, d[e][k])
             /\ Trim1(d, d[e][k], n - k * NIndex)
                  => \A s \in Nodes1(d, d[e][k]) :
                       s \in Released1(d, d[e][k], MinOf(m - k * NIndex, NIndex))
  <2>1. PICK x \in Nat : x = k * NIndex /\ x + NIndex <= p /\ x < m
    BY <1>6, <1>8
  <2>2. PICK y \in Int : y = n - k * NIndex /\ y >= 1
    BY <1>3, <2>1
  <2>3. MinOf(m - k * NIndex, NIndex) = MinOf(y, NIndex)
    BY <1>1, <1>3, <2>1, <2>2 DEF MinOf
  <2>4. ASSUME NEW i \in Nat, i < y, i < NIndex PROVE Leaf1(d, d[e][k], i) # 0
    <3>1. x + i \in Nat /\ x + i < n /\ x + i < NIndex * NIndex
      BY <1>1, <1>2, <1>3, <2>1, <2>2, <2>4
    <3>2. (x + i) \div NIndex = k /\ (x + i) % NIndex = i
      <4>1. k \in Nat /\ i \in 0 .. NIndex - 1
        BY <1>1, <2>4
      <4> QED
        BY <1>1, <2>1, <4>1, QuotientIs
    <3>3. Leaf2(d, e, x + i) = Leaf1(d, d[e][k], i)
      BY <1>4, <3>2 DEF Leaf2
    <3> QED
      BY <3>1, <3>3
  <2>5. /\ \A s \in Released1(d, d[e][k], MinOf(y, NIndex)) : s \in Nodes1(d, d[e][k])
        /\ Trim1(d, d[e][k], y)
             => \A s \in Nodes1(d, d[e][k]) : s \in Released1(d, d[e][k], MinOf(y, NIndex))
    BY <2>2, <2>4, Released1Is
  <2> QED
    BY <2>2, <2>3, <2>5
<1>9. Nodes2(d, e) = {e} \union UNION {Nodes1(d, d[e][k]) : k \in Entries}
  BY <1>4 DEF Nodes2
<1>10. Released2(d, e, m) =
         {e} \union UNION {Released1(d, d[e][i], MinOf(m - i * NIndex, NIndex)) : i \in 0 .. c - 1}
  BY <1>5 DEF Released2
<1>11. \A s \in Released2(d, e, m) : s \in Nodes2(d, e)
  BY <1>7, <1>8, <1>9, <1>10
<1>12. ASSUME Trim2(d, e, n), NEW s \in Nodes2(d, e) PROVE s \in Released2(d, e, m)
  <2>1. \A k \in Entries : Trim1(d, d[e][k], n - k * NIndex)
    BY <1>4, <1>12 DEF Trim2
  <2>2. ASSUME NEW k \in Entries, s \in Nodes1(d, d[e][k])
        PROVE  k * NIndex < m
    <3>1. d[e][k] # 0
      BY <2>2 DEF Nodes1
    <3>2. ~(n - k * NIndex <= 0)
      BY <2>1, <3>1 DEF Trim1
    <3>3. PICK x \in Nat : x = k * NIndex /\ x + NIndex <= p
      BY <1>6
    <3> QED
      BY <1>1, <1>3, <3>2, <3>3
  <2> QED
    BY <1>7, <1>8, <1>9, <1>10, <1>12, <2>1, <2>2
<1> QED
  BY <1>3, <1>11, <1>12

\* inode_deallocate hands over blocks of the file, and if there are no others,
\* all of them.
LEMMA Deallocated ==
  ASSUME NEW d, NEW b, NEW n \in Nat, n = bytes_to_sectors(b[Length]), Reach(d, b, n)
  PROVE  /\ \A s \in inode_deallocate(d, b) : s \in FNodes(d, b)
         /\ FTrim(d, b, n) => \A s \in FNodes(d, b) : s \in inode_deallocate(d, b)
<1>1. PICK p \in Nat \ {0} : p = NIndex * NIndex
  BY FileSizes
<1>2. /\ NDirect \in Nat \ {0} /\ NIndex \in Nat \ {0} /\ Ind = NDirect /\ Dbl = NDirect + 1
      /\ 0 .. Dbl = (0 .. NDirect - 1) \union {Ind, Dbl}
      /\ HF[Ind] = 1 /\ HF[Dbl] = 2 /\ \A q \in 0 .. NDirect - 1 : HF[q] = 0
      /\ n <= MostBlocks
  <2>1. NDirect \in Nat \ {0} /\ NIndex \in Nat \ {0} /\ Ind = NDirect /\ Dbl = NDirect + 1
    BY FileSizes
  <2>2. 0 .. Dbl = (0 .. NDirect - 1) \union {Ind, Dbl}
    BY <2>1
  <2>3. HF[Ind] = 1 /\ HF[Dbl] = 2 /\ \A q \in 0 .. NDirect - 1 : HF[q] = 0
    BY FileSizes
  <2>4. n <= MostBlocks
    BY DEF Reach
  <2> QED
    BY <2>1, <2>2, <2>3, <2>4
<1>3. PICK n1 \in Nat : n1 = n - MinOf(n, NDirect)
  <2>1. n - MinOf(n, NDirect) \in Nat
    BY <1>2 DEF MinOf
  <2> QED
    BY <2>1
<1>4. PICK n2 \in Nat : n2 = n1 - MinOf(n1, NIndex)
  <2>1. n1 - MinOf(n1, NIndex) \in Nat
    BY <1>2 DEF MinOf
  <2> QED
    BY <2>1
<1>5. /\ n1 > 0 => n1 = n - NDirect
      /\ n1 = 0 => n <= NDirect
      /\ n2 > 0 => n2 = n - NDirect - NIndex /\ n1 > 0
      /\ n2 = 0 => n <= NDirect + NIndex
      /\ \A q \in Nat : q < MinOf(n, NDirect) <=> q < n /\ q < NDirect
      /\ MinOf(n, NDirect) \in Nat
  BY <1>2, <1>3, <1>4 DEF MinOf
<1> DEFINE A == {b[i] : i \in 0 .. MinOf(n, NDirect) - 1}
           B == IF n1 > 0 THEN Released1(d, b[Ind], MinOf(n1, NIndex)) ELSE {}
           C == IF n2 > 0 THEN Released2(d, b[Dbl], MinOf(n2, NIndex * NIndex)) ELSE {}
<1>6. inode_deallocate(d, b) = A \union B \union C
  <2>1. inode_deallocate(d, b) =
          LET nn == bytes_to_sectors(b[Length])
              nn1 == nn - MinOf(nn, NDirect)
              nn2 == nn1 - MinOf(nn1, NIndex)
          IN  {b[i] : i \in 0 .. MinOf(nn, NDirect) - 1}
              \union (IF nn1 > 0 THEN Released1(d, b[Ind], MinOf(nn1, NIndex)) ELSE {})
              \union (IF nn2 > 0 THEN Released2(d, b[Dbl], MinOf(nn2, NIndex * NIndex)) ELSE {})
    BY Zenon DEF inode_deallocate, Released1, Released2
  <2> QED
    BY <1>3, <1>4, <2>1
<1>7. \A s : s \in FNodes(d, b) <=>
              \/ \E q \in 0 .. NDirect - 1 : s = b[q] /\ s # 0
              \/ s \in Nodes1(d, b[Ind])
              \/ s \in Nodes2(d, b[Dbl])
  <2>1. Nodes(HF[Ind], d, b[Ind]) = Nodes1(d, b[Ind]) /\ Nodes(HF[Dbl], d, b[Dbl]) = Nodes2(d, b[Dbl])
    BY <1>2 DEF Nodes
  <2>2. \A q \in 0 .. NDirect - 1 : Nodes(HF[q], d, b[q]) = {b[q]} \ {0}
    BY <1>2 DEF Nodes, Nodes0
  <2> SUFFICES ASSUME NEW s
               PROVE  s \in FNodes(d, b) <=>
                        \/ \E q \in 0 .. NDirect - 1 : s = b[q] /\ s # 0
                        \/ s \in Nodes1(d, b[Ind])
                        \/ s \in Nodes2(d, b[Dbl])
    OBVIOUS
  <2> DEFINE P(q) == s \in Nodes(HF[q], d, b[q])
  <2>3. s \in FNodes(d, b) <=> \E q \in 0 .. Dbl : P(q)
    BY DEF FNodes
  <2>4. P(Ind) <=> s \in Nodes1(d, b[Ind])
    BY <2>1
  <2>5. P(Dbl) <=> s \in Nodes2(d, b[Dbl])
    BY <2>1
  <2>6. \A q \in 0 .. NDirect - 1 : P(q) <=> s = b[q] /\ s # 0
    BY <2>2
  <2> HIDE DEF P
  <2>7. (\E q \in 0 .. Dbl : P(q)) <=> (\E q \in 0 .. NDirect - 1 : P(q)) \/ P(Ind) \/ P(Dbl)
    BY <1>2
  <2> QED
    BY <2>3, <2>4, <2>5, <2>6, <2>7
<1>8. /\ \A q \in 0 .. NDirect - 1 : q < n => b[q] # 0
      /\ FTrim(d, b, n) => \A q \in 0 .. NDirect - 1 : ~(q < n) => b[q] = 0
  <2>1. ASSUME NEW q \in 0 .. NDirect - 1, q < n PROVE b[q] # 0
    <3>1. q \in Nat /\ Root(q) = q
      BY <1>2 DEF Root
    <3>2. FLeaf(d, b, q) = b[q]
      BY <1>2, <3>1 DEF FLeaf, Leaf
    <3> QED
      BY <2>1, <3>1, <3>2 DEF Reach
  <2>2. ASSUME FTrim(d, b, n), NEW q \in 0 .. NDirect - 1, ~(q < n) PROVE b[q] = 0
    <3>1. q \in 0 .. Dbl /\ Base(q) = q
      BY <1>2 DEF Base
    <3>2. Trim0(d, b[q], n - q)
      BY <1>2, <2>2, <3>1 DEF FTrim, Trim
    <3> QED
      BY <2>2, <3>2 DEF Trim0
  <2> QED
    BY <2>1, <2>2
<1>9. /\ \A s \in A : s \in FNodes(d, b)
      /\ FTrim(d, b, n) => \A q \in 0 .. NDirect - 1 : b[q] # 0 => b[q] \in A
  <2>1. \A q : q \in 0 .. MinOf(n, NDirect) - 1 <=> q \in 0 .. NDirect - 1 /\ q < n
    BY <1>2, <1>5
  <2> QED
    BY <1>7, <1>8, <2>1
<1>10. /\ n1 > 0 => \A i \in Nat : i < n1 /\ i < NIndex => Leaf1(d, b[Ind], i) # 0
       /\ FTrim(d, b, n) => Trim1(d, b[Ind], n - NDirect)
  <2>1. ASSUME n1 > 0, NEW i \in Nat, i < n1, i < NIndex PROVE Leaf1(d, b[Ind], i) # 0
    <3>1. PICK j \in Nat : j = NDirect + i
      BY <1>2
    <3>2. Root(j) = Ind /\ Base(Ind) = NDirect /\ j - NDirect = i /\ j < n
      BY <1>2, <1>5, <2>1, <3>1 DEF Root, Base
    <3>3. FLeaf(d, b, j) = Leaf1(d, b[Ind], i)
      BY <1>2, <3>2 DEF FLeaf, Leaf
    <3> QED
      BY <3>2, <3>3 DEF Reach
  <2>2. Base(Ind) = NDirect
    BY <1>2 DEF Base
  <2> QED
    BY <1>2, <2>1, <2>2 DEF FTrim, Trim
<1>11. /\ n2 > 0 => \A i \in Nat : i < n2 /\ i < NIndex * NIndex => Leaf2(d, b[Dbl], i) # 0
       /\ FTrim(d, b, n) => Trim2(d, b[Dbl], n - NDirect - NIndex)
  <2>1. ASSUME n2 > 0, NEW i \in Nat, i < n2, i < NIndex * NIndex PROVE Leaf2(d, b[Dbl], i) # 0
    <3>1. PICK j \in Nat : j = NDirect + NIndex + i
      BY <1>2
    <3>2. Root(j) = Dbl /\ Base(Dbl) = NDirect + NIndex /\ j - (NDirect + NIndex) = i /\ j < n
      BY <1>2, <1>5, <2>1, <3>1 DEF Root, Base
    <3>3. FLeaf(d, b, j) = Leaf2(d, b[Dbl], i)
      BY <1>2, <3>2 DEF FLeaf, Leaf
    <3> QED
      BY <3>2, <3>3 DEF Reach
  <2>2. Base(Dbl) = NDirect + NIndex /\ n - (NDirect + NIndex) = n - NDirect - NIndex
    BY <1>2 DEF Base
  <2> QED
    BY <1>2, <2>1, <2>2 DEF FTrim, Trim
<1>12. /\ \A s \in B : s \in FNodes(d, b)
       /\ FTrim(d, b, n) => \A s \in Nodes1(d, b[Ind]) : s \in B
  <2>1. CASE n1 > 0
    <3>1. /\ \A s \in Released1(d, b[Ind], MinOf(n1, NIndex)) : s \in Nodes1(d, b[Ind])
          /\ Trim1(d, b[Ind], n1)
               => \A s \in Nodes1(d, b[Ind]) : s \in Released1(d, b[Ind], MinOf(n1, NIndex))
      BY <1>10, <2>1, Released1Is
    <3> QED
      BY <1>5, <1>7, <1>10, <2>1, <3>1
  <2>2. CASE n1 = 0
    <3>1. FTrim(d, b, n) => b[Ind] = 0
      BY <1>2, <1>5, <1>10, <2>2 DEF Trim1
    <3> QED
      BY <2>2, <3>1 DEF Nodes1
  <2> QED
    BY <2>1, <2>2
<1>13. /\ \A s \in C : s \in FNodes(d, b)
       /\ FTrim(d, b, n) => \A s \in Nodes2(d, b[Dbl]) : s \in C
  <2>1. CASE n2 > 0
    <3>1. /\ \A s \in Released2(d, b[Dbl], MinOf(n2, NIndex * NIndex)) : s \in Nodes2(d, b[Dbl])
          /\ Trim2(d, b[Dbl], n2)
               => \A s \in Nodes2(d, b[Dbl]) :
                    s \in Released2(d, b[Dbl], MinOf(n2, NIndex * NIndex))
      BY <1>11, <2>1, Released2Is
    <3> QED
      BY <1>5, <1>7, <1>11, <2>1, <3>1
  <2>2. CASE n2 = 0
    <3>1. FTrim(d, b, n) => b[Dbl] = 0
      BY <1>2, <1>5, <1>11, <2>2 DEF Trim2
    <3> QED
      BY <2>2, <3>1 DEF Nodes2
  <2> QED
    BY <2>1, <2>2
<1> HIDE DEF A, B, C
<1>14. ASSUME FTrim(d, b, n), NEW s \in FNodes(d, b) PROVE s \in inode_deallocate(d, b)
  BY <1>6, <1>7, <1>9, <1>12, <1>13, <1>14
<1> QED
  BY <1>6, <1>9, <1>12, <1>13, <1>14

-------------------------------------------------------------------------------
(* The files of a disk d with the free map m.  L are the files there are, and   *)
(* D[f] is the inode of f.                                                      *)

GoodFile(m, d, b) ==
  /\ FileTrees(m, d, b)
  /\ b[Length] \in Nat /\ Reach(d, b, bytes_to_sectors(b[Length]))

Sound(m, d, L, D) ==
  /\ m \subseteq Sector /\ d \in Disk /\ L \subseteq m /\ 0 \in m
  /\ \A f \in L : GoodFile(m, d, D[f]) /\ \A s \in FNodes(d, D[f]) : s \notin L
  /\ \A f \in L : \A g \in L \ {f} : \A s \in FNodes(d, D[f]) : s \notin FNodes(d, D[g])

\* b is an inode that was on the disk before c: it may lack what was reserved
\* since, but not what its length needs.
OlderThan(d, b, c) ==
  /\ b[Length] = c[Length] /\ \A q \in 0 .. Dbl : b[q] \in {0, c[q]}
  /\ Reach(d, b, bytes_to_sectors(b[Length]))

-------------------------------------------------------------------------------
(* The inductive invariant. *)

Inode == [open_cnt : Nat, removed : BOOLEAN, deny_write_cnt : Nat, data : Block]
WriteCall == [pc : {"idle", "grow", "chunk"}, sector : Sector, offset : Nat, size : Nat,
          value : Value \union {0}]

\* Every variable has its type.
Typed ==
  /\ free_map \in SUBSET Sector /\ disk \in Disk /\ named \in SUBSET Files
  /\ inode \in [Sector -> Inode]
  /\ writer \in WriteCall
  /\ failed \in BOOLEAN /\ panic = FALSE

\* The free map file is always open, the root directory never, and neither
\* changes its length.
SystemFiles ==
  /\ inode[FREE_MAP_SECTOR] = [Closed EXCEPT !.open_cnt = 1, !.data = SystemInode(2, 1)]
  /\ inode[ROOT_DIR_SECTOR] = Closed /\ disk[ROOT_DIR_SECTOR] = SystemInode(3, 1)

\* A file that is removed goes with its last opener.
Openers ==
  /\ \A f \in Sector : inode[f].open_cnt = 0 => inode[f] = Closed
  /\ \A f \in named : ~inode[f].removed
  /\ \A f \in Files : inode[f].open_cnt > 0 /\ f \notin named => inode[f].removed

\* The write under way has its file open, and the blocks of the new length.
Writing ==
  writer.pc # "idle" =>
    /\ writer.sector \in Files /\ inode[writer.sector].open_cnt > 0
    /\ writer.pc = "grow" => Reach(disk, inode[writer.sector].data,
                                   bytes_to_sectors(writer.offset + writer.size))

InodeOf == [f \in Sector |-> Data(f)]
Trees == Sound(free_map, disk, LiveFiles, InodeOf)

\* The inode on the disk is older than the open one.
OnDisk == \A f \in Files : inode[f].open_cnt > 0 => OlderThan(disk, disk[f], inode[f].data)

Inv == Typed /\ SystemFiles /\ Openers /\ Writing /\ Trees /\ OnDisk

-------------------------------------------------------------------------------
(* How soundness survives. *)

LEMMA LengthWord == Length \in Words /\ Length \notin 0 .. Dbl /\ \A q \in 0 .. Dbl : q \in Words
<1>1. Length = NDirect + 2 /\ Dbl = NDirect + 1 /\ NDirect \in Nat
  BY SizesAssumption DEF Length, Dbl
<1> QED
  BY <1>1, WordsThere

LEMMA SectorsNat == \A n \in Nat : bytes_to_sectors(n) \in Nat
BY SectorsFor, SizesAssumption DEF bytes_to_sectors

LEMMA GoodFileSectors ==
  ASSUME NEW m, NEW d, NEW b, GoodFile(m, d, b)
  PROVE  /\ \A s \in FInner(d, b) : s \in FNodes(d, b)
         /\ \A s \in FNodes(d, b) : s \in m /\ s \in Sector /\ s # 0
BY FileSectors DEF GoodFile

\* Files go, and with them some of their sectors.
LEMMA SoundLess ==
  ASSUME NEW m, NEW d, NEW L, NEW D, Sound(m, d, L, D),
         NEW m2 \in SUBSET Sector, NEW L2 \in SUBSET L, L2 \subseteq m2, 0 \in m2,
         \A f \in L2 : \A s \in FNodes(d, D[f]) : s \in m2,
         NEW D2, \A f \in L2 : D2[f] = D[f]
  PROVE  Sound(m2, d, L2, D2)
<1>1. ASSUME NEW f \in L2 PROVE GoodFile(m2, d, D[f])
  <2>1. GoodFile(m, d, D[f])
    BY DEF Sound
  <2>2. FileTrees(m2, d, D[f])
    <3>1. FileTrees(m, d, D[f]) /\ d \in Disk /\ FNodes(d, D[f]) \subseteq m2
      BY <2>1 DEF GoodFile, Sound
    <3> QED
      BY <3>1, FileSame
  <2> QED
    BY <2>1, <2>2 DEF GoodFile
<1> QED
  BY <1>1 DEF Sound

\* Sectors that are not index blocks are written.
LEMMA SoundWritten ==
  ASSUME NEW m, NEW d, NEW L, NEW D, Sound(m, d, L, D),
         NEW d2 \in Disk, \A f \in L : \A s \in FInner(d, D[f]) : d2[s] = d[s]
  PROVE  /\ Sound(m, d2, L, D)
         /\ \A f \in L : SameFile(d, d2, D[f])
<1>1. ASSUME NEW f \in L PROVE GoodFile(m, d2, D[f]) /\ SameFile(d, d2, D[f])
  <2>1. GoodFile(m, d, D[f]) /\ m \in SUBSET Sector /\ 0 \in m
    BY DEF Sound
  <2>2. FileTrees(m, d, D[f]) /\ FNodes(d, D[f]) \subseteq m
    BY <2>1, FileSectors DEF GoodFile
  <2>3. FileTrees(m, d2, D[f]) /\ SameFile(d, d2, D[f])
    BY <2>1, <2>2, FileSame
  <2>4. Reach(d2, D[f], bytes_to_sectors(D[f][Length]))
    BY <2>1, <2>3, SectorsNat DEF SameFile, GoodFile
  <2> QED
    BY <2>1, <2>3, <2>4 DEF GoodFile
<1>2. \A f \in L : \A s : s \in FNodes(d2, D[f]) <=> s \in FNodes(d, D[f])
  BY <1>1 DEF SameFile
<1> QED
  BY <1>1, <1>2 DEF Sound

\* What a reservation for one file does not touch.
Kept(d, d2, S) == \A s \in S : d2[s] = d[s]

LEMMA OthersKept ==
  ASSUME NEW m, NEW d, NEW L, NEW D, Sound(m, d, L, D),
         NEW f \in L, NEW n, NEW m2, NEW d2, NEW b2, NEW ok,
         FileGrown(n, m, d, D[f], m2, d2, b2, ok)
  PROVE  /\ \A g \in L \ {f} : Kept(d, d2, FNodes(d, D[g]))
         /\ Kept(d, d2, L \ {0})
<1>1. GoodFile(m, d, D[f]) /\ m \subseteq Sector /\ L \subseteq m
  BY DEF Sound
<1>2. ASSUME NEW g \in L \ {f}, NEW s \in FNodes(d, D[g]) PROVE d2[s] = d[s]
  <2>1. GoodFile(m, d, D[g]) /\ s \notin FNodes(d, D[f])
    BY <1>2 DEF Sound
  <2>2. s \in m /\ s \in Sector /\ s # 0 /\ s \notin FInner(d, D[f])
    BY <1>1, <1>2, <2>1, GoodFileSectors
  <2> QED
    BY <2>2 DEF FileGrown
<1>3. ASSUME NEW g \in L \ {0} PROVE d2[g] = d[g]
  <2>1. g \notin FNodes(d, D[f])
    BY <1>3 DEF Sound
  <2>2. g \in m /\ g \in Sector /\ g # 0 /\ g \notin FInner(d, D[f])
    BY <1>1, <1>3, <2>1, GoodFileSectors
  <2> QED
    BY <2>2 DEF FileGrown
<1> QED
  BY <1>2, <1>3 DEF Kept

LEMMA SoundGrown ==
  ASSUME NEW m, NEW d, NEW L, NEW D, Sound(m, d, L, D),
         NEW f \in L, NEW n, NEW m2, NEW d2, NEW b2, NEW ok,
         FileGrown(n, m, d, D[f], m2, d2, b2, ok),
         NEW D2, D2[f] = b2, \A g \in L \ {f} : D2[g] = D[g]
  PROVE  /\ Sound(m2, d2, L, D2)
         /\ \A g \in L \ {f} : SameFile(d, d2, D[g])
<1>0. \A g \in L \ {f} : \A s \in FNodes(d, D[g]) : d2[s] = d[s]
  <2>1. \A g \in L \ {f} : Kept(d, d2, FNodes(d, D[g]))
    BY OthersKept
  <2> QED
    BY <2>1 DEF Kept
<1>1. GoodFile(m, d, D[f]) /\ m \subseteq Sector /\ L \subseteq m /\ 0 \in m
  BY DEF Sound
<1>2. FileTrees(m2, d2, b2) /\ m \subseteq m2
  BY DEF FileGrown
<1>3. m2 \in SUBSET Sector /\ d2 \in Disk
  BY <1>2, FileSectors
<1>4. GoodFile(m2, d2, b2)
  <2>1. b2[Length] = D[f][Length]
    BY LengthWord DEF FileGrown
  <2>2. Reach(d2, b2, bytes_to_sectors(b2[Length]))
    <3>1. PICK k \in Nat : k = bytes_to_sectors(D[f][Length])
      BY <1>1, SectorsNat DEF GoodFile
    <3>2. Reach(d, D[f], k) /\ MostBlocks \in Nat
      BY <1>1, <3>1, MostBlocksNat DEF GoodFile
    <3>3. Reach(d2, b2, k)
      BY <3>2 DEF Reach, FileGrown
    <3> QED
      BY <2>1, <3>1, <3>3
  <2> QED
    BY <1>1, <1>2, <2>1, <2>2 DEF GoodFile
<1>5. ASSUME NEW g \in L \ {f}
      PROVE  GoodFile(m2, d2, D[g]) /\ SameFile(d, d2, D[g])
  <2>1. GoodFile(m, d, D[g])
    BY <1>5 DEF Sound
  <2>2. \A s \in FInner(d, D[g]) : d2[s] = d[s]
    <3>1. \A s \in FNodes(d, D[g]) : d2[s] = d[s]
      BY <1>0, <1>5
    <3> QED
      BY <2>1, <3>1, GoodFileSectors
  <2>3. FNodes(d, D[g]) \subseteq m2 /\ FileTrees(m, d, D[g]) /\ 0 \in m2
    BY <1>1, <1>2, <2>1, GoodFileSectors DEF GoodFile
  <2>4. FileTrees(m2, d2, D[g]) /\ SameFile(d, d2, D[g])
    BY <1>3, <2>2, <2>3, FileSame
  <2>5. Reach(d2, D[g], bytes_to_sectors(D[g][Length]))
    BY <2>1, <2>4, SectorsNat DEF SameFile, GoodFile
  <2> QED
    BY <2>1, <2>4, <2>5 DEF GoodFile
<1>6. \A s \in FNodes(d2, b2) : s \in FNodes(d, D[f]) \/ s \notin m
  BY DEF FileGrown
<1>7. \A g \in L \ {f} : \A s : s \in FNodes(d2, D2[g]) <=> s \in FNodes(d, D[g])
  BY <1>5 DEF SameFile
<1>8. \A g \in L \ {f} : \A s \in FNodes(d, D[g]) : s \in m
  BY GoodFileSectors DEF Sound
<1>9. \A g \in L : GoodFile(m2, d2, D2[g])
  BY <1>4, <1>5
<1>10. \A g \in L : \A s \in FNodes(d2, D2[g]) : s \notin L
  <2>1. \A g \in L : \A s \in FNodes(d, D[g]) : s \notin L
    BY DEF Sound
  <2> QED
    BY <1>1, <1>6, <1>7, <2>1
<1>11. \A g \in L : \A k \in L \ {g} : \A s \in FNodes(d2, D2[g]) : s \notin FNodes(d2, D2[k])
  <2>1. \A g \in L : \A k \in L \ {g} : \A s \in FNodes(d, D[g]) : s \notin FNodes(d, D[k])
    BY DEF Sound
  <2> SUFFICES ASSUME NEW g \in L, NEW k \in L \ {g}, NEW s \in FNodes(d2, D2[g]),
                      s \in FNodes(d2, D2[k])
               PROVE  FALSE
    OBVIOUS
  <2>2. CASE g = f
    BY <1>6, <1>7, <1>8, <2>1, <2>2
  <2>3. CASE k = f
    BY <1>6, <1>7, <1>8, <2>1, <2>3
  <2>4. CASE g # f /\ k # f
    BY <1>7, <2>1, <2>4
  <2> QED
    BY <2>2, <2>3, <2>4
<1>12. L \subseteq m2 /\ 0 \in m2
  BY <1>1, <1>2
<1> QED
  BY <1>3, <1>5, <1>9, <1>10, <1>11, <1>12 DEF Sound

\* The inode of a file that has no blocks.
LEMMA EmptyFile ==
  ASSUME NEW m \in SUBSET Sector, NEW d \in Disk, 0 \in m,
         NEW k \in Nat, NEW b, b = [Zeros EXCEPT ![Length] = k]
  PROVE  /\ FileTrees(m, d, b) /\ b[Length] = k
         /\ \A s : s \notin FNodes(d, b) /\ s \notin FInner(d, b)
         /\ \A i \in Nat : i < MostBlocks => FLeaf(d, b, i) = 0
         /\ \A n \in Int : FTrim(d, b, n)
<1>1. /\ \A q \in 0 .. Dbl : b[q] = 0 /\ HF[q] \in Heights
      /\ b \in Block /\ b[Length] = k /\ 0 \in Sector
  <2>1. b \in Block
    <3>1. k \in Word
      BY DEF Word
    <3> QED
      BY <3>1, ZerosBlock DEF Block
  <2>2. b[Length] = k /\ \A w \in Words \ {Length} : b[w] = 0
    BY ZerosBlock, LengthWord DEF Block
  <2>3. \A q \in 0 .. Dbl : q \in Words \ {Length}
    BY LengthWord
  <2> QED
    BY <2>1, <2>2, <2>3, FileSizes
<1>2. \A q \in 0 .. Dbl : /\ Nodes(HF[q], d, b[q]) = {} /\ Inner(HF[q], d, b[q]) = {}
                          /\ Apart(HF[q], d, b[q])
                          /\ \A i : Leaf(HF[q], d, b[q], i) = 0
                          /\ \A n : Trim(HF[q], d, b[q], n)
  BY <1>1, NoTree
<1>3. FileTrees(m, d, b)
  <2>1. \A q \in 0 .. Dbl : b[q] \in Sector
    BY <1>1
  <2> QED
    BY <1>1, <1>2, <2>1, FileTreesAre
<1>4. \A s : s \notin FNodes(d, b) /\ s \notin FInner(d, b)
  BY <1>2 DEF FNodes, FInner
<1>5. \A i \in Nat : i < MostBlocks => FLeaf(d, b, i) = 0
  <2> SUFFICES ASSUME NEW i \in Nat, i < MostBlocks PROVE FLeaf(d, b, i) = 0
    OBVIOUS
  <2>1. Root(i) \in 0 .. Dbl
    BY Roots
  <2> QED
    BY <1>2, <2>1 DEF FLeaf
<1>6. \A n \in Int : FTrim(d, b, n)
  BY <1>2 DEF FTrim
<1> QED
  BY <1>1, <1>3, <1>4, <1>5, <1>6

\* A new file f takes none of the sectors m that are in use.
LEMMA NewKept ==
  ASSUME NEW m \in SUBSET Sector, NEW d \in Disk, 0 \in m, NEW f \in Sector \ m,
         NEW k \in Nat, NEW b, b = [Zeros EXCEPT ![Length] = k],
         NEW n, NEW m2, NEW d2, NEW b2, NEW ok, FileGrown(n, m \union {f}, d, b, m2, d2, b2, ok),
         NEW d3 \in Disk, Kept(d2, d3, Sector \ {f})
  PROVE  Kept(d, d3, m \ {0})
<1>2. \A s : s \notin FInner(d, b)
  BY EmptyFile
<1>3. \A s \in Sector : s # 0 /\ s \notin m2 \ (m \union {f}) /\ s \notin FInner(d, b)
                         => d2[s] = d[s]
  BY DEF FileGrown
<1> QED
  BY <1>2, <1>3 DEF Kept

LEMMA SoundKept ==
  ASSUME NEW m, NEW d, NEW L, NEW D, Sound(m, d, L, D),
         NEW d2 \in Disk, Kept(d, d2, m \ {0})
  PROVE  /\ Sound(m, d2, L, D)
         /\ \A f \in L : SameFile(d, d2, D[f])
<1>1. \A f \in L : \A s \in FInner(d, D[f]) : d2[s] = d[s]
  BY GoodFileSectors DEF Sound, Kept
<1> QED
  BY <1>1, SoundWritten

LEMMA SoundNew ==
  ASSUME NEW m, NEW d, NEW L, NEW D, Sound(m, d, L, D), NEW f \in Sector \ m,
         NEW k \in Nat, NEW b, b = [Zeros EXCEPT ![Length] = k],
         NEW n, n = bytes_to_sectors(k), NEW m2, NEW d2, NEW b2,
         FileGrown(n, m \union {f}, d, b, m2, d2, b2, TRUE), NEW d3 \in Disk, Kept(d2, d3, Sector \ {f}),
         NEW D2, D2[f] = b2, Kept(D, D2, L)
  PROVE  Sound(m2, d3, L \union {f}, D2)
<1>0. (\A s \in Sector \ {f} : d3[s] = d2[s]) /\ \A g \in L : D2[g] = D[g]
  BY DEF Kept
<1>1. b = [Zeros EXCEPT ![Length] = k]
  OBVIOUS
<1>2. n \in Nat
  BY SectorsNat
<1>3. FileGrown(n, m \union {f}, d, b, m2, d2, b2, TRUE)
  OBVIOUS
<1>4. m \in SUBSET Sector /\ d \in Disk /\ 0 \in m /\ L \subseteq m /\ f \notin L /\ f # 0
  BY DEF Sound
<1>5. \A s : s \notin FNodes(d, b)
  BY <1>1, <1>4, EmptyFile
<1>6. b[Length] = k
  BY <1>1, <1>4, EmptyFile
<1>7. FileTrees(m2, d2, b2) /\ m \union {f} \subseteq m2
  BY <1>3 DEF FileGrown
<1>8. m2 \in SUBSET Sector /\ 0 \in m2
  BY <1>7, FileSectors
<1>9. \A s \in FNodes(d2, b2) : s \in Sector /\ s \notin m /\ s # f /\ s # 0
  BY <1>3, <1>4, <1>5, <1>7, <1>8 DEF FileGrown
<1>10. GoodFile(m2, d3, b2) /\ \A s : s \in FNodes(d3, b2) <=> s \in FNodes(d2, b2)
  <2>1. \A s \in FInner(d2, b2) : d3[s] = d2[s]
    BY <1>0, <1>7, <1>9, FileSectors
  <2>2. FileTrees(m2, d3, b2) /\ SameFile(d2, d3, b2)
    <3>1. FNodes(d2, b2) \subseteq m2
      BY <1>7, FileSectors
    <3> QED
      BY <1>7, <1>8, <2>1, <3>1, FileSame
  <2>3. b2[Length] = k
    BY <1>3, <1>6, LengthWord DEF FileGrown
  <2>4. Reach(d2, b2, n)
    BY <1>3 DEF FileGrown
  <2>5. Reach(d3, b2, n)
    BY <1>2, <2>2, <2>4 DEF SameFile
  <2> QED
    BY <1>2, <2>2, <2>3, <2>5 DEF GoodFile, SameFile
<1>11. Kept(d, d3, m \ {0})
  BY <1>1, <1>3, <1>4, NewKept
<1>12. Sound(m, d3, L, D) /\ \A g \in L : SameFile(d, d3, D[g])
  BY <1>11, SoundKept
<1>13. \A g \in L : \A s \in FNodes(d3, D[g]) : s \in m
  BY <1>12, GoodFileSectors DEF Sound
<1>14. Sound(m2, d3, L, D2)
  <2>1. L \in SUBSET L /\ L \subseteq m2 /\ \A g \in L : \A s \in FNodes(d3, D[g]) : s \in m2
    BY <1>4, <1>7, <1>13
  <2> QED
    BY <1>0, <1>8, <1>12, <2>1, SoundLess
<1>15. \A g \in L : \A s \in FNodes(d3, D2[g]) : s \in m
  BY <1>0, <1>13
<1>16. \A s \in FNodes(d3, D2[f]) : s \notin m /\ s # f
  BY <1>9, <1>10
<1>17. \A g \in L \union {f} : GoodFile(m2, d3, D2[g]) /\ \A s \in FNodes(d3, D2[g]) : s \notin L \union {f}
  <2>1. \A g \in L : GoodFile(m2, d3, D2[g]) /\ \A s \in FNodes(d3, D2[g]) : s \notin L
    BY <1>14 DEF Sound
  <2>2. \A g \in L : \A s \in FNodes(d3, D2[g]) : s # f
    BY <1>15
  <2>3. GoodFile(m2, d3, D2[f])
    BY <1>10
  <2>4. \A s \in FNodes(d3, D2[f]) : s \notin L \union {f}
    BY <1>4, <1>16
  <2> QED
    BY <2>1, <2>2, <2>3, <2>4
<1>18. \A g \in L \union {f} : \A h \in (L \union {f}) \ {g} :
         \A s \in FNodes(d3, D2[g]) : s \notin FNodes(d3, D2[h])
  <2>1. \A g \in L : \A h \in L \ {g} : \A s \in FNodes(d3, D2[g]) : s \notin FNodes(d3, D2[h])
    BY <1>14 DEF Sound
  <2> QED
    BY <1>15, <1>16, <2>1
<1>19. L \union {f} \subseteq m2
  BY <1>4, <1>7
<1> QED
  BY <1>8, <1>17, <1>18, <1>19 DEF Sound

\* A file is what is on the disk of it.
LEMMA OlderFile ==
  ASSUME NEW m, NEW d, NEW c, GoodFile(m, d, c), NEW b \in Block, OlderThan(d, b, c)
  PROVE  /\ GoodFile(m, d, b)
         /\ \A s \in FNodes(d, b) : s \in FNodes(d, c)
<1>1. FileTrees(m, d, c) /\ c[Length] \in Nat /\ 0 \in Sector
  BY SizesAssumption DEF GoodFile, Sector
<1>2. \A q \in 0 .. Dbl : /\ b[q] = 0 \/ b[q] = c[q]
                          /\ HF[q] \in Heights
  BY FileSizes DEF OlderThan
<1>3. \A q \in 0 .. Dbl : /\ Nodes(HF[q], d, 0) = {} /\ Apart(HF[q], d, 0)
  BY <1>2, NoTree
<1>4. /\ m \subseteq Sector /\ d \in Disk /\ 0 \in m
      /\ \A q \in 0 .. Dbl : /\ c[q] \in Sector /\ Apart(HF[q], d, c[q])
                             /\ Nodes(HF[q], d, c[q]) \subseteq m
      /\ \A q, r \in 0 .. Dbl :
           q # r => Nodes(HF[q], d, c[q]) \intersect Nodes(HF[r], d, c[r]) = {}
  BY <1>1, FileTreesAre
<1>5. \A q \in 0 .. Dbl : /\ b[q] \in Sector /\ Apart(HF[q], d, b[q])
                          /\ Nodes(HF[q], d, b[q]) \subseteq Nodes(HF[q], d, c[q])
  BY <1>1, <1>2, <1>3, <1>4
<1>6. FileTrees(m, d, b)
  <2>1. \A q \in 0 .. Dbl : Nodes(HF[q], d, b[q]) \subseteq m
    BY <1>4, <1>5
  <2>2. \A q, r \in 0 .. Dbl :
          q # r => Nodes(HF[q], d, b[q]) \intersect Nodes(HF[r], d, b[r]) = {}
    BY <1>4, <1>5
  <2> QED
    BY <1>4, <1>5, <2>1, <2>2, FileTreesAre
<1>7. \A s \in FNodes(d, b) : s \in FNodes(d, c)
  BY <1>5 DEF FNodes
<1> QED
  BY <1>1, <1>6, <1>7 DEF GoodFile, OlderThan

LEMMA SoundOlder ==
  ASSUME NEW m, NEW d, NEW L, NEW D, Sound(m, d, L, D),
         NEW f \in L, NEW b \in Block, OlderThan(d, b, D[f]),
         NEW D2, D2[f] = b, \A g \in L \ {f} : D2[g] = D[g]
  PROVE  Sound(m, d, L, D2)
<1>1. GoodFile(m, d, D[f])
  BY DEF Sound
<1>2. GoodFile(m, d, b) /\ \A s \in FNodes(d, b) : s \in FNodes(d, D[f])
  BY <1>1, OlderFile
<1>3. \A g \in L : \A s \in FNodes(d, D2[g]) : s \in FNodes(d, D[g])
  BY <1>2
<1>4. \A g \in L : GoodFile(m, d, D2[g])
  BY <1>2 DEF Sound
<1> QED
  BY <1>3, <1>4 DEF Sound

-------------------------------------------------------------------------------
(* Nothing is lost: every marked sector belongs to a file, and a file has no    *)
(* more blocks than it needs.                                                   *)

\* The sectors m are those of the files L, and a file f has N[f] blocks.
Exact(m, d, L, D, N) ==
  /\ \A s \in m : s \in L \/ \E f \in L : s \in FNodes(d, D[f])
  /\ \A f \in L : N[f] \in Nat /\ FTrim(d, D[f], N[f])

\* Two inodes with the same entries have the same blocks.
SameBlocks(d, b, b2) ==
  /\ \A s : s \in FNodes(d, b2) <=> s \in FNodes(d, b)
  /\ \A s : s \in FInner(d, b2) <=> s \in FInner(d, b)
  /\ \A i \in Nat : i < MostBlocks => FLeaf(d, b2, i) = FLeaf(d, b, i)
  /\ \A n \in Int : Reach(d, b2, n) <=> Reach(d, b, n)
  /\ \A n \in Int : FTrim(d, b2, n) <=> FTrim(d, b, n)

LEMMA EntriesAlike ==
  ASSUME NEW d, NEW b, NEW b2, \A q \in 0 .. Dbl : b2[q] = b[q]
  PROVE  SameBlocks(d, b, b2)
<1>1. \A i \in Nat : i < MostBlocks => FLeaf(d, b2, i) = FLeaf(d, b, i)
  <2> SUFFICES ASSUME NEW i \in Nat, i < MostBlocks PROVE FLeaf(d, b2, i) = FLeaf(d, b, i)
    OBVIOUS
  <2>1. Root(i) \in 0 .. Dbl
    BY Roots
  <2> QED
    BY <2>1 DEF FLeaf
<1>2. \A n \in Int : Reach(d, b2, n) <=> Reach(d, b, n)
  BY <1>1, MostBlocksNat DEF Reach
<1>3. /\ \A s : s \in FNodes(d, b2) <=> s \in FNodes(d, b)
      /\ \A s : s \in FInner(d, b2) <=> s \in FInner(d, b)
  BY DEF FNodes, FInner
<1>4. \A n \in Int : FTrim(d, b2, n) <=> FTrim(d, b, n)
  BY DEF FTrim
<1> QED
  BY <1>1, <1>2, <1>3, <1>4 DEF SameBlocks

\* More blocks are no less than enough.
LEMMA TrimMore ==
  ASSUME NEW d, NEW b, NEW n \in Int, NEW k \in Int, n <= k, FTrim(d, b, n)
  PROVE  FTrim(d, b, k)
<1>1. ASSUME NEW e, NEW i \in Int, NEW j \in Int, i <= j, Trim0(d, e, i)
      PROVE  Trim0(d, e, j)
  BY <1>1 DEF Trim0
<1>2. ASSUME NEW e, NEW i \in Int, NEW j \in Int, i <= j, Trim1(d, e, i)
      PROVE  Trim1(d, e, j)
  <2>1. j <= 0 => e = 0
    BY <1>2 DEF Trim1
  <2>2. ASSUME e # 0, NEW l \in Entries PROVE Trim0(d, d[e][l], j - l)
    <3>1. Trim0(d, d[e][l], i - l)
      BY <1>2, <2>2 DEF Trim1
    <3>2. l \in Int /\ i - l \in Int /\ j - l \in Int /\ i - l <= j - l
      BY <1>2 DEF Entries
    <3> QED
      BY <1>1, <3>1, <3>2
  <2> QED
    BY <2>1, <2>2 DEF Trim1
<1>3. ASSUME NEW e, NEW i \in Int, NEW j \in Int, i <= j, Trim2(d, e, i)
      PROVE  Trim2(d, e, j)
  <2>1. j <= 0 => e = 0
    BY <1>3 DEF Trim2
  <2>2. ASSUME e # 0, NEW l \in Entries PROVE Trim1(d, d[e][l], j - l * NIndex)
    <3>1. Trim1(d, d[e][l], i - l * NIndex)
      BY <1>3, <2>2 DEF Trim2
    <3>2. PICK p \in Int : p = l * NIndex
      BY FileSizes DEF Entries
    <3>3. i - p \in Int /\ j - p \in Int /\ i - p <= j - p
      BY <1>3
    <3>4. Trim1(d, d[e][l], i - p)
      BY <3>1, <3>2
    <3>5. Trim1(d, d[e][l], j - p)
      BY <1>2, <3>3, <3>4
    <3> QED
      BY <3>2, <3>5
  <2> QED
    BY <2>1, <2>2 DEF Trim2
<1>4. ASSUME NEW q \in 0 .. Dbl PROVE Trim(HF[q], d, b[q], k - Base(q))
  <2>1. PICK x \in Int : x = Base(q)
    BY BaseNumber
  <2>2. Trim(HF[q], d, b[q], n - x)
    BY <2>1 DEF FTrim
  <2>3. n - x \in Int /\ k - x \in Int /\ n - x <= k - x
    OBVIOUS
  <2>4. Trim(HF[q], d, b[q], k - x)
    <3>1. CASE HF[q] = 0
      <4>1. Trim0(d, b[q], n - x)
        BY <2>2, <3>1 DEF Trim
      <4>2. Trim0(d, b[q], k - x)
        BY <1>1, <2>3, <4>1
      <4> QED
        BY <3>1, <4>2 DEF Trim
    <3>2. CASE HF[q] = 1
      <4>1. Trim1(d, b[q], n - x)
        BY <2>2, <3>2 DEF Trim
      <4>2. Trim1(d, b[q], k - x)
        BY <1>2, <2>3, <4>1
      <4> QED
        BY <3>2, <4>2 DEF Trim
    <3>3. CASE HF[q] # 0 /\ HF[q] # 1
      <4>1. Trim2(d, b[q], n - x)
        BY <2>2, <3>3 DEF Trim
      <4>2. Trim2(d, b[q], k - x)
        BY <1>3, <2>3, <4>1
      <4> QED
        BY <3>3, <4>2 DEF Trim
    <3> QED
      BY <3>1, <3>2, <3>3
  <2> QED
    BY <2>1, <2>4
<1> QED
  BY <1>4 DEF FTrim

\* Nothing changes that matters.
LEMMA ExactSame ==
  ASSUME NEW m, NEW d, NEW L, NEW D, NEW N, Sound(m, d, L, D), Exact(m, d, L, D, N),
         NEW d2 \in Disk, \A f \in L : Kept(d, d2, FInner(d, D[f])),
         NEW D2, Kept(D, D2, L), NEW N2, Kept(N, N2, L)
  PROVE  Exact(m, d2, L, D2, N2)
<1>1. ASSUME NEW f \in L
      PROVE  /\ \A s : s \in FNodes(d2, D[f]) <=> s \in FNodes(d, D[f])
             /\ N[f] \in Nat /\ FTrim(d2, D[f], N[f])
             /\ D2[f] = D[f] /\ N2[f] = N[f]
  <2>1. FileTrees(m, d, D[f]) /\ \A s \in FInner(d, D[f]) : d2[s] = d[s]
    BY DEF Sound, GoodFile, Kept
  <2>2. SameFile(d, d2, D[f]) /\ \A n \in Int : FTrim(d, D[f], n) => FTrim(d2, D[f], n)
    BY <2>1, FileSame
  <2>3. N[f] \in Nat /\ FTrim(d, D[f], N[f])
    BY DEF Exact
  <2>4. D2[f] = D[f] /\ N2[f] = N[f]
    BY DEF Kept
  <2> QED
    BY <2>2, <2>3, <2>4 DEF SameFile
<1> QED
  BY <1>1 DEF Exact

\* A file goes with all its sectors.
LEMMA ExactLess ==
  ASSUME NEW m, NEW d, NEW L, NEW D, NEW N, Exact(m, d, L, D, N), NEW f \in L,
         NEW L2, \A g : g \in L2 <=> g \in L /\ g # f,
         NEW m2, \A s \in m2 : s \in m /\ s # f /\ s \notin FNodes(d, D[f]),
         NEW D2, Kept(D, D2, L2), NEW N2, Kept(N, N2, L2)
  PROVE  Exact(m2, d, L2, D2, N2)
<1>1. \A g \in L2 : D2[g] = D[g] /\ N2[g] = N[g]
  BY DEF Kept
<1>2. ASSUME NEW s \in m2, s \notin L2
      PROVE  \E g \in L2 : s \in FNodes(d, D2[g])
  <2>1. s \in m /\ s \notin L
    BY <1>2
  <2>2. PICK g \in L : s \in FNodes(d, D[g])
    BY <2>1 DEF Exact
  <2>3. g # f
    BY <2>2
  <2> QED
    BY <1>1, <2>2, <2>3
<1> QED
  BY <1>1, <1>2 DEF Exact

\* An inode gives way to one with the same entries.
LEMMA ExactEntries ==
  ASSUME NEW m, NEW d, NEW L, NEW D, NEW N, Exact(m, d, L, D, N), NEW f \in L,
         NEW D2, \A q \in 0 .. Dbl : D2[f][q] = D[f][q],
         Kept(D, D2, L \ {f}), NEW N2, Kept(N, N2, L)
  PROVE  Exact(m, d, L, D2, N2)
<1>1. SameBlocks(d, D[f], D2[f])
  BY EntriesAlike
<1>2. \A g \in L : N2[g] = N[g] /\ N[g] \in Nat
  BY DEF Kept, Exact
<1>3. \A g \in L \ {f} : D2[g] = D[g]
  BY DEF Kept
<1>4. \A g \in L : \A s : s \in FNodes(d, D2[g]) <=> s \in FNodes(d, D[g])
  BY <1>1, <1>3 DEF SameBlocks
<1>5. \A g \in L : FTrim(d, D2[g], N2[g])
  BY <1>1, <1>2, <1>3 DEF SameBlocks, Exact
<1> QED
  BY <1>2, <1>4, <1>5 DEF Exact

\* A file grows.
LEMMA ExactGrown ==
  ASSUME NEW m, NEW d, NEW L, NEW D, NEW N, Sound(m, d, L, D), Exact(m, d, L, D, N),
         NEW f \in L, NEW n \in Nat, N[f] <= n, NEW m2, NEW d2 \in Disk, NEW b2,
         FileGrown(n, m, d, D[f], m2, d2, b2, TRUE),
         NEW D2, D2[f] = b2, Kept(D, D2, L \ {f}), NEW N2, N2[f] = n, Kept(N, N2, L \ {f})
  PROVE  Exact(m2, d2, L, D2, N2)
<1>1. \A g \in L \ {f} : D2[g] = D[g] /\ N2[g] = N[g]
  BY DEF Kept
<1>2. ASSUME NEW g \in L \ {f}
      PROVE  /\ \A s : s \in FNodes(d2, D2[g]) <=> s \in FNodes(d, D[g])
             /\ N2[g] \in Nat /\ FTrim(d2, D2[g], N2[g])
  <2>1. Kept(d, d2, FNodes(d, D[g]))
    BY OthersKept
  <2>2. FileTrees(m, d, D[g])
    BY DEF Sound, GoodFile
  <2>3. \A s \in FInner(d, D[g]) : d2[s] = d[s]
    BY <2>1, <2>2, FileSectors DEF Kept
  <2>4. SameFile(d, d2, D[g]) /\ \A k \in Int : FTrim(d, D[g], k) => FTrim(d2, D[g], k)
    BY <2>2, <2>3, FileSame
  <2>5. N[g] \in Nat /\ FTrim(d, D[g], N[g])
    BY DEF Exact
  <2> QED
    BY <1>1, <2>4, <2>5 DEF SameFile
<1>3. /\ \A s \in FNodes(d, D[f]) : s \in FNodes(d2, b2)
      /\ \A s \in m2 \ m : s \in FNodes(d2, b2)
      /\ \A k \in Int : k >= n /\ FTrim(d, D[f], k) => FTrim(d2, b2, k)
  BY DEF FileGrown
<1>4. FTrim(d2, b2, n)
  <2>1. N[f] \in Nat /\ FTrim(d, D[f], N[f])
    BY DEF Exact
  <2>2. FTrim(d, D[f], n)
    BY <2>1, TrimMore
  <2> QED
    BY <1>3, <2>2
<1>5. ASSUME NEW s \in m2, s \notin L
      PROVE  \E g \in L : s \in FNodes(d2, D2[g])
  <2>1. CASE s \notin m
    BY <1>3, <2>1
  <2>2. CASE s \in m
    <3>1. PICK g \in L : s \in FNodes(d, D[g])
      BY <1>5, <2>2 DEF Exact
    <3>2. CASE g = f
      BY <1>3, <3>1, <3>2
    <3>3. CASE g # f
      BY <1>2, <3>1, <3>3
    <3> QED
      BY <3>2, <3>3
  <2> QED
    BY <2>1, <2>2
<1> QED
  BY <1>2, <1>4, <1>5 DEF Exact

\* A new file f.
LEMMA ExactNew ==
  ASSUME NEW m, NEW d, NEW L, NEW D, NEW N, Sound(m, d, L, D), Exact(m, d, L, D, N),
         NEW f \in Sector \ m, NEW k \in Nat, NEW b, b = [Zeros EXCEPT ![Length] = k],
         NEW n \in Nat, NEW m2, NEW d2, NEW b2,
         FileGrown(n, m \union {f}, d, b, m2, d2, b2, TRUE),
         NEW d3 \in Disk, Kept(d2, d3, Sector \ {f}),
         NEW D2, D2[f] = b2, Kept(D, D2, L), NEW N2, N2[f] = n, Kept(N, N2, L)
  PROVE  Exact(m2, d3, L \union {f}, D2, N2)
<1>1. m \in SUBSET Sector /\ d \in Disk /\ 0 \in m /\ L \subseteq m /\ f \notin L
  BY DEF Sound
<1>2. Kept(d, d3, m \ {0})
  BY <1>1, NewKept
<1>3. \A g \in L : Kept(d, d3, FInner(d, D[g]))
  <2>1. \A g \in L : \A s \in FInner(d, D[g]) : s \in m \ {0}
    BY GoodFileSectors DEF Sound
  <2> QED
    BY <1>2, <2>1 DEF Kept
<1>4. Exact(m, d3, L, D2, N2)
  BY <1>3, ExactSame
<1>5. /\ FileTrees(m2, d2, b2) /\ m \union {f} \subseteq m2
      /\ \A s \in m2 \ (m \union {f}) : s \in FNodes(d2, b2)
      /\ \A s \in FNodes(d2, b2) : s \in FNodes(d, b) \/ s \in m2 \ (m \union {f})
      /\ \A j \in Int : j >= n /\ FTrim(d, b, j) => FTrim(d2, b2, j)
  BY DEF FileGrown
<1>6. (\A s : s \notin FNodes(d, b)) /\ \A j \in Int : FTrim(d, b, j)
  <2>1. /\ \A s : s \notin FNodes(d, b) /\ s \notin FInner(d, b)
        /\ \A j \in Int : FTrim(d, b, j)
    BY <1>1, EmptyFile
  <2> QED
    BY <2>1
<1>7. FTrim(d2, b2, n)
  <2>1. n \in Int /\ n >= n
    OBVIOUS
  <2> QED
    BY <1>5, <1>6, <2>1
<1>8. \A s \in FInner(d2, b2) : d3[s] = d2[s]
  <2>1. \A s \in FInner(d2, b2) : s \in FNodes(d2, b2) /\ s \in Sector
    BY <1>5, FileSectors
  <2>2. f \notin FNodes(d2, b2)
    BY <1>5, <1>6
  <2> QED
    BY <2>1, <2>2 DEF Kept
<1>9. FTrim(d3, b2, n) /\ \A s : s \in FNodes(d3, b2) <=> s \in FNodes(d2, b2)
  <2>1. SameFile(d2, d3, b2) /\ \A j \in Int : FTrim(d2, b2, j) => FTrim(d3, b2, j)
    BY <1>5, <1>8, FileSame
  <2> QED
    BY <1>7, <2>1 DEF SameFile
<1>10. \A g \in L \union {f} : N2[g] \in Nat /\ FTrim(d3, D2[g], N2[g])
  BY <1>4, <1>9 DEF Exact
<1>11. \A s \in m2 : s \in L \union {f} \/ \E g \in L \union {f} : s \in FNodes(d3, D2[g])
  <2>1. \A s \in m : s \in L \/ \E g \in L : s \in FNodes(d3, D2[g])
    BY <1>4 DEF Exact
  <2>2. \A s \in m2 : s \in m \/ s = f \/ s \in FNodes(d3, D2[f])
    BY <1>5, <1>9
  <2> QED
    BY <2>1, <2>2
<1> QED
  BY <1>10, <1>11 DEF Exact

\* What holds as long as no call has failed.  A file that grows needs the blocks
\* of its new length already.
Growing(f) == writer.pc = "grow" /\ writer.sector = f
Needs == [f \in Sector |-> bytes_to_sectors(IF Growing(f) THEN writer.offset + writer.size
                                            ELSE InodeOf[f][Length])]

\* The inode of an open file is on the disk, but for the length of one that
\* grows.
Entered ==
  \A f \in Files : inode[f].open_cnt > 0 /\ ~Growing(f)
    => \A q \in 0 .. Dbl : inode[f].data[q] = disk[f][q]

Exactly == ~failed => Exact(free_map, disk, LiveFiles, InodeOf, Needs) /\ Entered

-------------------------------------------------------------------------------
(* The invariant holds at the start. *)

LEMMA SystemInodeIs ==
  ASSUME NEW x \in Sector, x # 0
  PROVE  /\ SystemInode(x, 1) \in Block /\ SystemInode(x, 1)[Length] = 1
         /\ SystemInode(x, 1)[0] = x /\ \A q \in 1 .. Dbl : SystemInode(x, 1)[q] = 0
<1>1. /\ Length \in Words /\ 0 \in Words /\ Length # 0 /\ x \in Word /\ 1 \in Word
      /\ \A q \in 1 .. Dbl : q \in Words /\ q # 0 /\ q # Length
  <2>1. Length = NDirect + 2 /\ NDirect \in Nat /\ Dbl = NDirect + 1
    BY SizesAssumption DEF Length, Dbl
  <2>2. 0 \in 0 .. Dbl /\ \A q \in 1 .. Dbl : q \in 0 .. Dbl /\ q # 0
    BY <2>1
  <2>3. \A q \in 0 .. Dbl : q # Length
    BY LengthWord
  <2> QED
    BY <2>1, <2>2, <2>3, LengthWord DEF Word, Sector
<1>2. Zeros \in Block /\ \A w \in Words : Zeros[w] = 0
  BY ZerosBlock
<1> QED
  BY <1>1, <1>2 DEF SystemInode, Block

LEMMA OneBlock ==
  ASSUME NEW m \in SUBSET Sector, NEW d \in Disk, 0 \in m, NEW x \in m, x # 0,
         NEW b, b = SystemInode(x, 1)
  PROVE  /\ GoodFile(m, d, b)
         /\ \A s : s \in FNodes(d, b) <=> s = x
         /\ FTrim(d, b, bytes_to_sectors(1))
         /\ FLeaf(d, b, 0) = x
         /\ bytes_to_sectors(1) = 1
<1>1. bytes_to_sectors(1) = 1
  <2>1. NBytes \in Nat \ {0} /\ 1 + NBytes - 1 = 1 * NBytes + 0 /\ 0 \in 0 .. NBytes - 1
    BY SizesAssumption
  <2>2. (1 * NBytes + 0) \div NBytes = 1
    BY <2>1, QuotientIs
  <2> QED
    BY <2>1, <2>2 DEF bytes_to_sectors
<1>2. b \in Block /\ b[Length] = 1 /\ b[0] = x /\ \A q \in 1 .. Dbl : b[q] = 0
  BY SystemInodeIs
<1>3. /\ 0 \in 0 .. Dbl /\ HF[0] = 0 /\ \A q \in 0 .. Dbl : q = 0 \/ q \in 1 .. Dbl
      /\ \A q \in 0 .. Dbl : HF[q] \in Heights
      /\ 0 < NDirect /\ 0 \in Sector
  BY FileSizes, SizesAssumption DEF Sector
<1>4. \A q \in 1 .. Dbl : /\ q \in 0 .. Dbl
                          /\ Nodes(HF[q], d, b[q]) = {} /\ Inner(HF[q], d, b[q]) = {}
                          /\ Apart(HF[q], d, b[q])
                          /\ \A n : Trim(HF[q], d, b[q], n)
  <2>1. \A q \in 1 .. Dbl : q \in 0 .. Dbl
    BY <1>3, FileSizes
  <2> QED
    BY <1>2, <1>3, <2>1, NoTree
<1>5. Nodes(HF[0], d, b[0]) = {x} /\ Apart(HF[0], d, b[0]) /\ b[0] # 0
  BY <1>2, <1>3 DEF Nodes, Nodes0, Apart
<1>6. FileTrees(m, d, b)
  <2>1. \A q \in 0 .. Dbl : /\ b[q] \in Sector /\ Apart(HF[q], d, b[q])
                            /\ Nodes(HF[q], d, b[q]) \subseteq m
    BY <1>2, <1>3, <1>4, <1>5
  <2>2. \A q, r \in 0 .. Dbl :
          q # r => Nodes(HF[q], d, b[q]) \intersect Nodes(HF[r], d, b[r]) = {}
    BY <1>3, <1>4
  <2> QED
    BY <1>2, <2>1, <2>2, FileTreesAre
<1>7. Root(0) = 0 /\ Base(0) = 0
  BY <1>3 DEF Root, Base
<1>8. FLeaf(d, b, 0) = x
  BY <1>2, <1>3, <1>7 DEF FLeaf, Leaf
<1>9. Reach(d, b, 1)
  <2>1. 1 <= MostBlocks
    <3>1. PICK p \in Nat \ {0} : p = NIndex * NIndex
      BY FileSizes
    <3>2. NDirect \in Nat \ {0} /\ NIndex \in Nat \ {0}
      BY FileSizes
    <3>3. MostBlocks = NDirect + NIndex + p
      BY <3>1 DEF MostBlocks
    <3> QED
      BY <3>1, <3>2, <3>3
  <2> QED
    BY <1>8, <2>1 DEF Reach
<1>10. \A s : s \in FNodes(d, b) <=> s = x
  BY <1>3, <1>4, <1>5 DEF FNodes
<1>11. FTrim(d, b, 1)
  <2>1. Trim(HF[0], d, b[0], 1 - Base(0))
    BY <1>3, <1>7 DEF Trim, Trim0
  <2> QED
    BY <1>3, <1>4, <2>1 DEF FTrim
<1> QED
  BY <1>1, <1>2, <1>6, <1>8, <1>9, <1>10, <1>11 DEF GoodFile

LEMMA SystemSectors == {0, 1, 2, 3} \subseteq Sector /\ FREE_MAP_SECTOR = 0 /\ ROOT_DIR_SECTOR = 1
BY SizesAssumption DEF Sector, FREE_MAP_SECTOR, ROOT_DIR_SECTOR

LEMMA ClosedIs ==
  /\ Closed \in Inode /\ Closed.open_cnt = 0 /\ Closed.removed = FALSE
  /\ Closed.deny_write_cnt = 0 /\ Closed.data = Zeros
BY ZerosBlock DEF Closed, Inode

LEMMA InitInv == Init => Inv
<1> SUFFICES ASSUME Init PROVE Inv
  OBVIOUS
<1>0. /\ {0, 1, 2, 3} \subseteq Sector /\ FREE_MAP_SECTOR = 0 /\ ROOT_DIR_SECTOR = 1
      /\ Files = Sector \ {0, 1}
  BY SystemSectors DEF Files
<1>1. /\ SystemInode(2, 1) \in Block /\ SystemInode(3, 1) \in Block
  BY <1>0, SystemInodeIs
<1> DEFINE i0 == [Closed EXCEPT !.open_cnt = 1, !.data = SystemInode(2, 1)]
<1>2. i0 \in Inode /\ i0.open_cnt = 1 /\ i0.data = SystemInode(2, 1) /\ i0.removed = FALSE
  BY <1>1, ClosedIs DEF Closed, Inode
<1>3. /\ inode[0] = i0 /\ \A s \in Sector \ {0} : inode[s] = Closed
      /\ inode \in [Sector -> Inode]
  BY <1>0, <1>2, ClosedIs DEF Init
<1>4. /\ disk[0] = SystemInode(2, 1) /\ disk[1] = SystemInode(3, 1) /\ disk \in Disk
  BY <1>0, <1>1, ZerosBlock DEF Init, Disk
<1>5. Typed
  <2>1. writer \in WriteCall
    BY <1>0 DEF Init, Idle, WriteCall
  <2>2. /\ free_map \in SUBSET Sector /\ named \in SUBSET Files
        /\ failed \in BOOLEAN /\ panic = FALSE
    BY <1>0 DEF Init
  <2> QED
    BY <1>3, <1>4, <2>1, <2>2 DEF Typed
<1>6. SystemFiles
  BY <1>0, <1>3, <1>4 DEF SystemFiles
<1>7. Openers
  BY <1>0, <1>2, <1>3, ClosedIs DEF Openers, Init
<1>8. Writing
  BY DEF Writing, Init, Idle
<1>9. \A f \in Files : inode[f].open_cnt = 0
  BY <1>0, <1>3, ClosedIs
<1>10. LiveFiles = {0, 1}
  BY <1>0, <1>9 DEF LiveFiles, Live, Init
<1>11. InodeOf[0] = SystemInode(2, 1) /\ InodeOf[1] = SystemInode(3, 1)
  <2>1. InodeOf[0] = Data(0) /\ InodeOf[1] = Data(1)
    BY <1>0 DEF InodeOf
  <2>2. inode[0].open_cnt > 0 /\ inode[0].data = SystemInode(2, 1) /\ inode[1].open_cnt = 0
    BY <1>0, <1>2, <1>3, ClosedIs
  <2>3. Data(0) = SystemInode(2, 1)
    BY <2>2 DEF Data
  <2>4. ~(inode[1].open_cnt > 0)
    BY <2>2
  <2>5. Data(1) = SystemInode(3, 1)
    BY <1>4, <2>4 DEF Data
  <2> QED
    BY <2>1, <2>3, <2>5
<1>12. Trees
  <2>1. free_map = {0, 1, 2, 3} /\ free_map \in SUBSET Sector
    BY <1>0 DEF Init
  <2>2. GoodFile(free_map, disk, InodeOf[0]) /\ \A s : s \in FNodes(disk, InodeOf[0]) <=> s = 2
    BY <1>4, <1>11, <2>1, OneBlock
  <2>3. GoodFile(free_map, disk, InodeOf[1]) /\ \A s : s \in FNodes(disk, InodeOf[1]) <=> s = 3
    BY <1>4, <1>11, <2>1, OneBlock
  <2> QED
    BY <1>4, <1>10, <2>1, <2>2, <2>3 DEF Trees, Sound
<1>13. OnDisk
  BY <1>9 DEF OnDisk
<1> QED
  BY <1>5, <1>6, <1>7, <1>8, <1>12, <1>13 DEF Inv

-------------------------------------------------------------------------------
(* Steps that open, deny, close or remove. *)

LEMMA LiveAre ==
  ASSUME Typed
  PROVE  /\ Files = Sector \ {0, 1} /\ {0, 1} \subseteq LiveFiles
         /\ LiveFiles \subseteq Sector
         /\ \A f \in Files : f \in LiveFiles <=> f \in named \/ inode[f].open_cnt > 0
         /\ \A f \in Sector : /\ inode[f] \in Inode /\ InodeOf[f] \in Block
                              /\ inode[f].open_cnt \in Nat /\ disk[f] \in Block
                              /\ inode[f].open_cnt > 0 => InodeOf[f] = inode[f].data
                              /\ inode[f].open_cnt = 0 => InodeOf[f] = disk[f]
<1>1. Files = Sector \ {0, 1} /\ {0, 1} \subseteq Sector
  BY SystemSectors DEF Files
<1>2. \A f \in Sector : /\ inode[f] \in Inode /\ disk[f] \in Block
                        /\ inode[f].open_cnt \in Nat /\ inode[f].data \in Block
  BY DEF Typed, Inode, Disk
<1>3. \A f \in Sector : /\ inode[f].open_cnt > 0 => InodeOf[f] = inode[f].data
                        /\ inode[f].open_cnt = 0 => InodeOf[f] = disk[f]
  BY <1>2 DEF InodeOf, Data
<1>4. \A f \in Sector : InodeOf[f] \in Block
  BY <1>2, <1>3
<1> QED
  BY <1>1, <1>2, <1>3, <1>4, SystemSectors DEF LiveFiles, Live

\* What the trees say of one file.
LEMMA FileIs ==
  ASSUME Inv, NEW f \in LiveFiles
  PROVE  /\ f \in free_map
         /\ GoodFile(free_map, disk, InodeOf[f])
         /\ FileTrees(free_map, disk, InodeOf[f])
         /\ InodeOf[f][Length] \in Nat
         /\ bytes_to_sectors(InodeOf[f][Length]) \in Nat
         /\ Reach(disk, InodeOf[f], bytes_to_sectors(InodeOf[f][Length]))
         /\ \A s \in FNodes(disk, InodeOf[f]) :
              s \in free_map /\ s \in Sector /\ s # 0 /\ s \notin LiveFiles
<1>1. GoodFile(free_map, disk, InodeOf[f]) /\ f \in free_map
      /\ \A s \in FNodes(disk, InodeOf[f]) : s \notin LiveFiles
  BY DEF Inv, Trees, Sound
<1> QED
  BY <1>1, GoodFileSectors, SectorsNat DEF GoodFile

LEMMA NeedsAre ==
  ASSUME Inv, NEW f \in LiveFiles
  PROVE  /\ Needs[f] \in Nat
         /\ Growing(f) => Needs[f] = bytes_to_sectors(writer.offset + writer.size)
         /\ ~Growing(f) => Needs[f] = bytes_to_sectors(InodeOf[f][Length])
<1>1. f \in Sector
  BY LiveAre DEF Inv
<1>2. writer.offset + writer.size \in Nat
  BY DEF Inv, Typed, WriteCall
<1>3. InodeOf[f][Length] \in Nat
  BY FileIs
<1> QED
  BY <1>1, <1>2, <1>3, SectorsNat DEF Needs

\* Some fields of an open inode change, and no block.
LEMMA InodeChanges ==
  ASSUME Inv, NEW f \in Files, f \in LiveFiles,
         NEW i \in Inode, i.open_cnt > 0, i.data = InodeOf[f],
         inode' = [inode EXCEPT ![f] = i],
         named' \in SUBSET Files, \A g \in Files \ {f} : g \in named' <=> g \in named,
         i.removed <=> f \notin named',
         UNCHANGED << free_map, disk, writer, failed, panic >>
  PROVE  Inv' /\ (Exactly => Exactly')
<1>1. Typed
  BY DEF Inv
<1>2. /\ inode' \in [Sector -> Inode] /\ inode'[f] = i
      /\ \A g \in Sector \ {f} : inode'[g] = inode[g]
      /\ f \in Sector /\ i.open_cnt \in Nat
  BY <1>1 DEF Typed, Files, Inode
<1>3. Typed'
  BY <1>1, <1>2 DEF Typed
<1>4. SystemFiles'
  BY <1>1, <1>2, LiveAre DEF Inv, SystemFiles, FREE_MAP_SECTOR, ROOT_DIR_SECTOR
<1>5. Openers'
  <2>1. \A g \in Sector : inode'[g].open_cnt = 0 => inode'[g] = Closed
    BY <1>2 DEF Inv, Openers
  <2>2. \A g \in named' : ~inode'[g].removed
    BY <1>1, <1>2, LiveAre DEF Inv, Openers
  <2>3. \A g \in Files : inode'[g].open_cnt > 0 /\ g \notin named' => inode'[g].removed
    BY <1>1, <1>2, LiveAre DEF Inv, Openers
  <2> QED
    BY <2>1, <2>2, <2>3 DEF Openers
<1>6. Writing'
  <2>1. CASE writer.pc = "idle"
    BY <2>1 DEF Writing
  <2>2. CASE writer.pc # "idle"
    <3>1. /\ writer.sector \in Files /\ inode[writer.sector].open_cnt > 0
          /\ writer.pc = "grow" => Reach(disk, inode[writer.sector].data,
                                         bytes_to_sectors(writer.offset + writer.size))
      BY <2>2 DEF Inv, Writing
    <3>2. inode'[writer.sector].open_cnt > 0
          /\ inode'[writer.sector].data = inode[writer.sector].data
      <4>1. CASE writer.sector = f
        <5>1. InodeOf[f] = inode[f].data
          BY <1>1, <1>2, <3>1, <4>1, LiveAre
        <5> QED
          BY <1>2, <4>1, <5>1
      <4>2. CASE writer.sector # f
        BY <1>1, <1>2, <3>1, <4>2, LiveAre
      <4> QED
        BY <4>1, <4>2
    <3> QED
      BY <3>1, <3>2 DEF Writing
  <2> QED
    BY <2>1, <2>2
<1>7. LiveFiles' \subseteq LiveFiles
  BY <1>1, <1>2, <1>3, LiveAre DEF LiveFiles, Live
<1>8. \A g \in Sector : (InodeOf')[g] = InodeOf[g]
  <2>1. (InodeOf')[f] = i.data
    BY <1>2, <1>3 DEF InodeOf, Data
  <2>2. \A g \in Sector \ {f} : (InodeOf')[g] = InodeOf[g]
    BY <1>2 DEF InodeOf, Data
  <2> QED
    BY <2>1, <2>2
<1>9. Trees'
  <2>1. Sound(free_map, disk, LiveFiles, InodeOf)
    BY DEF Inv, Trees
  <2>2. /\ LiveFiles \subseteq free_map /\ 0 \in free_map /\ free_map \in SUBSET Sector
        /\ LiveFiles \subseteq Sector
        /\ \A g \in LiveFiles : \A s \in FNodes(disk, InodeOf[g]) : s \in free_map
    BY <1>1, <2>1, LiveAre, FileIs DEF Sound
  <2>3. Sound(free_map, disk, LiveFiles', InodeOf')
    BY <1>7, <1>8, <2>1, <2>2, SoundLess
  <2> QED
    BY <2>3 DEF Trees
<1>10. OnDisk'
  <2>1. \A g \in Files \ {f} : inode'[g].open_cnt > 0 => OlderThan(disk, disk[g], inode'[g].data)
    BY <1>1, <1>2, LiveAre DEF Inv, OnDisk
  <2>2. OlderThan(disk, disk[f], i.data)
    <3>1. CASE inode[f].open_cnt > 0
      BY <1>1, <1>2, <3>1, LiveAre DEF Inv, OnDisk
    <3>2. CASE inode[f].open_cnt = 0
      <4>1. InodeOf[f] = disk[f] /\ Reach(disk, InodeOf[f], bytes_to_sectors(InodeOf[f][Length]))
        BY <1>1, <1>2, <3>2, LiveAre, FileIs
      <4> QED
        BY <4>1 DEF OlderThan
    <3> QED
      BY <1>1, <1>2, <3>1, <3>2, LiveAre
  <2> QED
    BY <1>2, <2>1, <2>2 DEF OnDisk
<1>11. ASSUME Exactly, ~failed PROVE Exact(free_map, disk, LiveFiles', InodeOf', Needs') /\ Entered'
  <2>1. LiveFiles' = LiveFiles
    <3>1. \A g \in Files : g \in LiveFiles => g \in LiveFiles'
      BY <1>1, <1>2, <1>3, LiveAre DEF LiveFiles, Live
    <3>2. \A g \in LiveFiles : g \in LiveFiles'
      BY <3>1 DEF LiveFiles
    <3> QED
      BY <1>7, <3>2
  <2>2. Kept(InodeOf, InodeOf', LiveFiles) /\ Kept(Needs, Needs', LiveFiles)
    <3>1. \A g \in Sector : (InodeOf')[g] = InodeOf[g] /\ (Needs')[g] = Needs[g]
      BY <1>8 DEF Needs, Growing
    <3> QED
      BY <1>1, <3>1, LiveAre DEF Kept
  <2>3. /\ Sound(free_map, disk, LiveFiles, InodeOf)
        /\ Exact(free_map, disk, LiveFiles, InodeOf, Needs) /\ disk \in Disk
        /\ \A g \in LiveFiles : Kept(disk, disk, FInner(disk, InodeOf[g]))
    BY <1>1, <1>11 DEF Inv, Trees, Exactly, Typed, Kept
  <2>4. Exact(free_map, disk, LiveFiles, InodeOf', Needs')
    BY <2>2, <2>3, ExactSame
  <2>5. Entered'
    <3> SUFFICES ASSUME NEW g \in Files, inode'[g].open_cnt > 0, ~Growing(g), NEW q \in 0 .. Dbl
                 PROVE  inode'[g].data[q] = disk[g][q]
      BY DEF Entered, Growing
    <3>1. g \in Sector
      BY DEF Files
    <3>2. CASE g # f
      BY <1>2, <1>11, <3>1, <3>2 DEF Exactly, Entered
    <3>3. CASE g = f /\ inode[f].open_cnt > 0
      BY <1>1, <1>2, <1>11, <3>3, LiveAre DEF Exactly, Entered
    <3>4. CASE g = f /\ inode[f].open_cnt = 0
      BY <1>1, <1>2, <3>4, LiveAre
    <3> QED
      BY <1>1, <3>1, <3>2, <3>3, <3>4, LiveAre
  <2> QED
    BY <2>1, <2>4, <2>5
<1>12. Exactly => Exactly'
  BY <1>11 DEF Exactly
<1> QED
  BY <1>3, <1>4, <1>5, <1>6, <1>9, <1>10, <1>12 DEF Inv

LEMMA OpenersSet ==
  ASSUME NEW i \in Inode, NEW n \in Nat, NEW k, k = [i EXCEPT !.open_cnt = n]
  PROVE  k \in Inode /\ k.open_cnt = n /\ k.removed = i.removed
         /\ k.deny_write_cnt = i.deny_write_cnt /\ k.data = i.data
BY DEF Inode, Closed

LEMMA DeniersSet ==
  ASSUME NEW i \in Inode, NEW n \in Nat, NEW k, k = [i EXCEPT !.deny_write_cnt = n]
  PROVE  k \in Inode /\ k.open_cnt = i.open_cnt /\ k.removed = i.removed
         /\ k.deny_write_cnt = n /\ k.data = i.data
BY DEF Inode, Closed

LEMMA RemovedSet ==
  ASSUME NEW i \in Inode, NEW k, k = [i EXCEPT !.removed = TRUE]
  PROVE  k \in Inode /\ k.open_cnt = i.open_cnt /\ k.removed = TRUE
         /\ k.deny_write_cnt = i.deny_write_cnt /\ k.data = i.data
BY DEF Inode, Closed

LEMMA DataSet ==
  ASSUME NEW i \in Inode, NEW b \in Block, NEW k, k = [i EXCEPT !.data = b]
  PROVE  k \in Inode /\ k.open_cnt = i.open_cnt /\ k.removed = i.removed
         /\ k.deny_write_cnt = i.deny_write_cnt /\ k.data = b
BY DEF Inode, Closed

LEMMA OpenedSet ==
  ASSUME NEW b \in Block, NEW k, k = [Closed EXCEPT !.open_cnt = 1, !.data = b]
  PROVE  k \in Inode /\ k.open_cnt = 1 /\ k.removed = FALSE
         /\ k.deny_write_cnt = 0 /\ k.data = b
BY DEF Inode, Closed

LEMMA OpenInv ==
  ASSUME Inv, NEW f \in Files, inode_open(f)
  PROVE  Inv' /\ (Exactly => Exactly')
<1>1. Typed /\ f \in named /\ f \in Sector
  BY DEF Inv, inode_open, Files
<1>2. f \in LiveFiles /\ inode[f] \in Inode /\ disk[f] \in Block
  BY <1>1, LiveAre
<1>3. inode[f].open_cnt \in Nat /\ ~inode[f].removed
  BY <1>1, <1>2 DEF Inode, Inv, Openers
<1>4. named' = named /\ named \in SUBSET Files
      /\ UNCHANGED << free_map, disk, writer, failed, panic >>
  BY <1>1 DEF inode_open, Typed
<1>5. CASE inode[f].open_cnt > 0
  <2> DEFINE i == [inode[f] EXCEPT !.open_cnt = @ + 1]
  <2>1. PICK n \in Nat : n = inode[f].open_cnt + 1 /\ n > 0
    BY <1>3
  <2>2. i = [inode[f] EXCEPT !.open_cnt = n]
    BY <2>1
  <2>3. inode' = [inode EXCEPT ![f] = i]
    BY <1>5 DEF inode_open
  <2>4. i \in Inode /\ i.open_cnt > 0 /\ i.data = inode[f].data /\ ~i.removed
    BY <1>2, <1>3, <2>1, <2>2, OpenersSet
  <2>5. i.data = InodeOf[f]
    BY <1>1, <1>5, <2>4, LiveAre
  <2> HIDE DEF i
  <2> QED
    BY <1>1, <1>2, <1>4, <2>3, <2>4, <2>5, InodeChanges
<1>6. CASE ~(inode[f].open_cnt > 0)
  <2>2. PICK i : i = [Closed EXCEPT !.open_cnt = 1, !.data = disk[f]]
    OBVIOUS
  <2>3. inode' = [inode EXCEPT ![f] = i]
    BY <1>6, <2>2 DEF inode_open
  <2>4. i \in Inode /\ i.open_cnt > 0 /\ i.data = disk[f] /\ ~i.removed
    <3>1. /\ i \in Inode /\ i.open_cnt = 1 /\ i.removed = FALSE
          /\ i.deny_write_cnt = 0 /\ i.data = disk[f]
      BY <1>2, <2>2, OpenedSet
    <3> QED
      BY <3>1
  <2>5. i.data = InodeOf[f]
    BY <1>1, <1>3, <1>6, <2>4, LiveAre
  <2> QED
    BY <1>1, <1>2, <1>4, <2>3, <2>4, <2>5, InodeChanges
<1> QED
  BY <1>5, <1>6

LEMMA DenyInv ==
  ASSUME Inv, NEW f \in Files, inode_deny_write(f)
  PROVE  Inv' /\ (Exactly => Exactly')
<1>1. Typed /\ f \in Sector
  BY DEF Inv, Files
<1>2. inode[f] \in Inode
  BY <1>1, LiveAre
<1>3. inode[f].open_cnt \in Nat /\ inode[f].deny_write_cnt \in Nat
  BY <1>2 DEF Inode
<1>4. inode[f].open_cnt > 0
  BY <1>3 DEF inode_deny_write
<1>5. f \in LiveFiles /\ (inode[f].removed <=> f \notin named)
      /\ inode[f].data = InodeOf[f] /\ inode[f].removed \in BOOLEAN
  BY <1>1, <1>2, <1>4, LiveAre DEF Inv, Openers, Inode
<1>6. named' = named /\ named \in SUBSET Files
      /\ UNCHANGED << free_map, disk, writer, failed, panic >>
  BY <1>1 DEF inode_deny_write, Typed
<1> DEFINE i == [inode[f] EXCEPT !.deny_write_cnt = @ + 1]
<1>7. PICK n \in Nat : n = inode[f].deny_write_cnt + 1
  BY <1>3
<1>8. i = [inode[f] EXCEPT !.deny_write_cnt = n]
  BY <1>7
<1>9. inode' = [inode EXCEPT ![f] = i]
  BY DEF inode_deny_write
<1>10. i \in Inode /\ i.open_cnt > 0 /\ i.data = InodeOf[f] /\ (i.removed <=> f \notin named')
  BY <1>2, <1>4, <1>5, <1>6, <1>8, DeniersSet
<1> HIDE DEF i
<1> QED
  BY <1>5, <1>6, <1>9, <1>10, InodeChanges

\* A step that leaves no inode of f open.
LEMMA InodeClosed ==
  ASSUME Inv, NEW f \in Files, Typed', inode'[f] = Closed,
         \A g \in Sector \ {f} : inode'[g] = inode[g],
         writer.pc # "idle" => writer.sector # f,
         \A g \in Files \ {f} : g \in named' <=> g \in named,
         UNCHANGED << disk, writer >>
  PROVE  /\ SystemFiles' /\ Openers' /\ Writing' /\ OnDisk'
         /\ \A g \in Files \ {f} : g \in LiveFiles' <=> g \in LiveFiles
         /\ f \in LiveFiles' <=> f \in named'
         /\ \A g \in Sector \ {f} : (InodeOf')[g] = InodeOf[g]
         /\ (InodeOf')[f] = disk[f]
         /\ \A g \in {0, 1} : g \in LiveFiles' /\ g \in LiveFiles
         /\ \A g \in LiveFiles' : g \in Sector
<1>1. Typed /\ f \in Sector /\ f # 0 /\ f # 1
  BY LiveAre DEF Inv, Files, FREE_MAP_SECTOR, ROOT_DIR_SECTOR
<1>2. /\ Closed.open_cnt = 0 /\ ~Closed.removed /\ named \in SUBSET Files
      /\ named' \in SUBSET Files
  BY <1>1, ClosedIs DEF Typed
<1>3. SystemFiles'
  BY <1>1, SystemSectors DEF Inv, SystemFiles, FREE_MAP_SECTOR, ROOT_DIR_SECTOR
<1>4. Openers'
  <2>1. \A g \in Sector : inode'[g].open_cnt = 0 => inode'[g] = Closed
    BY DEF Inv, Openers
  <2>2. \A g \in named' : ~inode'[g].removed
    <3>1. \A g \in Files : g \in Sector
      BY DEF Files
    <3> QED
      BY <1>2, <3>1 DEF Inv, Openers
  <2>3. \A g \in Files : inode'[g].open_cnt > 0 /\ g \notin named' => inode'[g].removed
    <3>1. ~(inode'[f].open_cnt > 0)
      BY <1>2
    <3>2. \A g \in Files : g \in Sector
      BY DEF Files
    <3> QED
      BY <3>1, <3>2 DEF Inv, Openers
  <2> QED
    BY <2>1, <2>2, <2>3 DEF Openers
<1>5. Writing'
  <2>1. CASE writer.pc = "idle"
    BY <2>1 DEF Writing
  <2>2. CASE writer.pc # "idle"
    <3>1. writer.sector \in Sector \ {f}
      BY <2>2 DEF Inv, Writing, Files
    <3> QED
      BY <2>2, <3>1 DEF Inv, Writing
  <2> QED
    BY <2>1, <2>2
<1>6. OnDisk'
  <2>1. ~(inode'[f].open_cnt > 0)
    BY <1>2
  <2>2. \A g \in Files : g \in Sector
    BY DEF Files
  <2> QED
    BY <2>1, <2>2 DEF Inv, OnDisk
<1>7. ~(inode'[f].open_cnt > 0)
  BY <1>2
<1>8. \A g \in Files \ {f} : g \in LiveFiles' <=> g \in LiveFiles
  BY <1>1 DEF LiveFiles, Live, Files, FREE_MAP_SECTOR, ROOT_DIR_SECTOR
<1>9. f \in LiveFiles' <=> f \in named'
  BY <1>1, <1>7 DEF LiveFiles, Live, FREE_MAP_SECTOR, ROOT_DIR_SECTOR
<1>10. \A g \in Sector \ {f} : (InodeOf')[g] = InodeOf[g]
  BY DEF InodeOf, Data
<1>11. (InodeOf')[f] = disk[f]
  BY <1>1, <1>7 DEF InodeOf, Data
<1>12. \A g \in {0, 1} : g \in LiveFiles' /\ g \in LiveFiles
  BY DEF LiveFiles, FREE_MAP_SECTOR, ROOT_DIR_SECTOR
<1>13. \A g \in LiveFiles' : g \in Sector
  BY SystemSectors DEF LiveFiles, Files, FREE_MAP_SECTOR, ROOT_DIR_SECTOR
<1> QED
  BY <1>3, <1>4, <1>5, <1>6, <1>8, <1>9, <1>10, <1>11, <1>12, <1>13

\* A file that nobody has open any more and that has no name gives its sectors
\* back.
LEMMA FileGone ==
  ASSUME Inv, NEW f \in Files, f \in LiveFiles,
         inode' \in [Sector -> Inode], inode'[f] = Closed,
         \A g \in Sector \ {f} : inode'[g] = inode[g],
         writer.pc # "idle" => writer.sector # f,
         named' \in SUBSET Files, f \notin named',
         \A g \in Files \ {f} : g \in named' <=> g \in named,
         NEW b, b = InodeOf[f], free_map_release({f} \union inode_deallocate(disk, b)),
         UNCHANGED << disk, writer, failed >>
  PROVE  Inv' /\ (Exactly => Exactly')
<1>1. Typed /\ f \in Sector /\ f # 0
  BY LiveAre DEF Inv, Files, FREE_MAP_SECTOR
<1>2. /\ f \in free_map
      /\ \A s \in FNodes(disk, b) : s \in free_map /\ s # 0 /\ s \notin LiveFiles
      /\ bytes_to_sectors(b[Length]) \in Nat /\ Reach(disk, b, bytes_to_sectors(b[Length]))
  BY FileIs
<1>3. \A s \in inode_deallocate(disk, b) : s \in FNodes(disk, b)
  BY <1>2, Deallocated
<1>4. PICK R : R = {f} \union inode_deallocate(disk, b)
  OBVIOUS
<1>5. /\ \A s \in R : s = f \/ s \in FNodes(disk, b)
      /\ R \subseteq free_map /\ free_map' = free_map \ R /\ panic' = panic
      /\ panic = FALSE
  BY <1>1, <1>2, <1>3, <1>4 DEF free_map_release, Typed
<1>6. Typed'
  BY <1>1, <1>5 DEF Typed
<1>7. /\ SystemFiles' /\ Openers' /\ Writing' /\ OnDisk'
      /\ \A g \in Files \ {f} : g \in LiveFiles' <=> g \in LiveFiles
      /\ f \in LiveFiles' <=> f \in named'
      /\ \A g \in Sector \ {f} : (InodeOf')[g] = InodeOf[g]
      /\ \A g \in {0, 1} : g \in LiveFiles' /\ g \in LiveFiles
      /\ \A g \in LiveFiles' : g \in Sector
  BY <1>6, InodeClosed
<1>8. LiveFiles' \subseteq LiveFiles /\ f \notin LiveFiles'
  BY <1>1, <1>7, LiveAre
<1>9. Sound(free_map, disk, LiveFiles, InodeOf)
  BY DEF Inv, Trees
<1>10. \A g \in LiveFiles' : \A s \in FNodes(disk, InodeOf[g]) : s \in free_map'
  <2> SUFFICES ASSUME NEW g \in LiveFiles', NEW s \in FNodes(disk, InodeOf[g])
               PROVE  s \in free_map'
    OBVIOUS
  <2>1. g \in LiveFiles /\ g # f
    BY <1>8
  <2>2. s \in free_map /\ s \notin LiveFiles
    BY <2>1, FileIs
  <2>3. s \notin FNodes(disk, b)
    BY <1>9, <2>1 DEF Sound
  <2> QED
    BY <1>5, <2>2, <2>3
<1>11. LiveFiles' \subseteq free_map'
  BY <1>2, <1>5, <1>8, <1>9 DEF Sound
<1>12. 0 \in free_map' /\ free_map' \in SUBSET Sector
  BY <1>7, <1>6, <1>11 DEF Typed
<1>13. Trees'
  <2>1. \A g \in LiveFiles' : (InodeOf')[g] = InodeOf[g]
    BY <1>7, <1>8
  <2>2. Sound(free_map', disk, LiveFiles', InodeOf')
    BY <1>8, <1>9, <1>10, <1>11, <1>12, <2>1, SoundLess
  <2> QED
    BY <2>2 DEF Trees
<1>14. ASSUME Exactly, ~failed
       PROVE  Exact(free_map', disk, LiveFiles', InodeOf', Needs') /\ Entered'
  <2>1. Exact(free_map, disk, LiveFiles, InodeOf, Needs)
    BY <1>14 DEF Exactly
  <2>2. FTrim(disk, b, bytes_to_sectors(b[Length]))
    <3>1. ~Growing(f)
      BY DEF Growing
    <3>2. FTrim(disk, b, Needs[f]) /\ Needs[f] = bytes_to_sectors(b[Length])
      BY <2>1, <3>1, NeedsAre DEF Exact
    <3> QED
      BY <3>2
  <2>3. \A s \in FNodes(disk, b) : s \in inode_deallocate(disk, b)
    BY <1>2, <2>2, Deallocated
  <2>4. \A s \in free_map' : s \in free_map /\ s # f /\ s \notin FNodes(disk, InodeOf[f])
    BY <1>4, <1>5, <2>3
  <2>5. \A g : g \in LiveFiles' <=> g \in LiveFiles /\ g # f
    BY <1>1, <1>7, <1>8, LiveAre
  <2>6. Kept(InodeOf, InodeOf', LiveFiles') /\ Kept(Needs, Needs', LiveFiles')
    <3>1. \A g \in Sector \ {f} : (InodeOf')[g] = InodeOf[g] /\ (Needs')[g] = Needs[g]
      BY <1>7 DEF Needs, Growing
    <3> QED
      BY <1>7, <2>5, <3>1 DEF Kept
  <2>7. Exact(free_map', disk, LiveFiles', InodeOf', Needs')
    BY <2>1, <2>4, <2>5, <2>6, ExactLess
  <2>8. Entered'
    <3>1. ~(inode'[f].open_cnt > 0)
      BY ClosedIs
    <3>2. \A g \in Files : g \in Sector
      BY DEF Files
    <3> QED
      BY <1>14, <3>1, <3>2 DEF Exactly, Entered, Growing
  <2> QED
    BY <2>7, <2>8
<1>15. Exactly => Exactly'
  BY <1>14 DEF Exactly
<1> QED
  BY <1>6, <1>7, <1>13, <1>15 DEF Inv

LEMMA RemoveInv ==
  ASSUME Inv, NEW f \in Files, inode_remove(f)
  PROVE  Inv' /\ (Exactly => Exactly')
<1>1. Typed /\ f \in named /\ f \in Sector
  BY DEF Inv, inode_remove, Files
<1>2. f \in LiveFiles /\ inode[f] \in Inode
  BY <1>1, LiveAre
<1>3. inode[f].open_cnt \in Nat
  BY <1>2 DEF Inode
<1>4. /\ named' \in SUBSET Files /\ f \notin named'
      /\ \A g \in Files \ {f} : g \in named' <=> g \in named
      /\ UNCHANGED << disk, writer, failed >> /\ writer.pc = "idle"
  BY <1>1 DEF inode_remove, Typed, Locked
<1>5. CASE inode[f].open_cnt > 0
  <2>1. PICK i : i = [inode[f] EXCEPT !.removed = TRUE]
    OBVIOUS
  <2>2. inode' = [inode EXCEPT ![f] = i] /\ UNCHANGED << free_map, panic >>
    BY <1>5, <2>1 DEF inode_remove
  <2>3. i \in Inode /\ i.open_cnt = inode[f].open_cnt /\ i.data = inode[f].data /\ i.removed = TRUE
    BY <1>2, <2>1, RemovedSet
  <2>4. i \in Inode /\ i.open_cnt > 0 /\ i.data = InodeOf[f] /\ (i.removed <=> f \notin named')
    BY <1>1, <1>4, <1>5, <2>3, LiveAre
  <2> QED
    BY <1>2, <1>4, <2>2, <2>4, InodeChanges
<1>6. CASE ~(inode[f].open_cnt > 0)
  <2>1. PICK b : b = disk[f]
    OBVIOUS
  <2>2. free_map_release({f} \union inode_deallocate(disk, b)) /\ inode' = inode
    BY <1>6, <2>1 DEF inode_remove
  <2>3. inode[f].open_cnt = 0
    BY <1>3, <1>6
  <2>4. b = InodeOf[f] /\ inode[f] = Closed
    BY <1>1, <2>1, <2>3, LiveAre DEF Inv, Openers
  <2>5. inode' \in [Sector -> Inode] /\ inode'[f] = Closed
        /\ \A g \in Sector \ {f} : inode'[g] = inode[g]
    BY <1>1, <2>2, <2>4 DEF Typed
  <2> QED
    BY <1>2, <1>4, <2>2, <2>4, <2>5, FileGone
<1> QED
  BY <1>5, <1>6

LEMMA CloseInv ==
  ASSUME Inv, NEW f \in Files, NEW denying \in BOOLEAN, inode_close(f, denying)
  PROVE  Inv' /\ (Exactly => Exactly')
<1>1. Typed /\ f \in Sector
  BY DEF Inv, Files
<1>2. inode[f] \in Inode
  BY <1>1, LiveAre
<1>3. inode[f].open_cnt \in Nat /\ inode[f].deny_write_cnt \in Nat /\ inode[f].removed \in BOOLEAN
      /\ inode[f].data \in Block
  BY <1>2 DEF Inode
<1>4. inode[f].open_cnt > 0 /\ (inode[f].open_cnt = 1 => ~(writer.pc # "idle" /\ writer.sector = f))
  BY <1>3 DEF inode_close, Users
<1>5. f \in LiveFiles /\ inode[f].data = InodeOf[f]
  BY <1>1, <1>4, LiveAre
<1>6. /\ UNCHANGED << disk, named, writer, failed >>
      /\ named' \in SUBSET Files /\ panic = FALSE
      /\ (inode[f].removed <=> f \notin named)
  BY <1>1, <1>4 DEF Inv, Openers, Typed, inode_close
<1>7. CASE inode[f].open_cnt # 1
  <2>1. PICK n \in Nat : n = inode[f].open_cnt - 1 /\ n > 0
    BY <1>3, <1>4, <1>7
  <2>2. PICK l \in Nat : l = IF denying THEN inode[f].deny_write_cnt - 1
                                         ELSE inode[f].deny_write_cnt
    <3>1. (IF denying THEN inode[f].deny_write_cnt - 1 ELSE inode[f].deny_write_cnt) \in Nat
      BY <1>3 DEF inode_close
    <3> QED
      BY <3>1
  <2>3. PICK i : i = [inode[f] EXCEPT !.open_cnt = n, !.deny_write_cnt = l]
    OBVIOUS
  <2>4. AfterClose(inode[f], denying) = i
    BY <2>1, <2>2, <2>3 DEF AfterClose
  <2>5. inode' = [inode EXCEPT ![f] = i]
    BY <1>7, <2>4 DEF inode_close
  <2>6. UNCHANGED << free_map, panic >>
    BY <1>7 DEF inode_close, LetGo
  <2>7. i \in Inode /\ i.open_cnt = n /\ i.removed = inode[f].removed /\ i.data = inode[f].data
    BY <1>2, <2>3 DEF Inode
  <2>8. i.open_cnt > 0 /\ i.data = InodeOf[f] /\ (i.removed <=> f \notin named')
    BY <1>5, <1>6, <2>1, <2>7
  <2> QED
    BY <1>5, <1>6, <2>5, <2>6, <2>7, <2>8, InodeChanges
<1>8. CASE inode[f].open_cnt = 1
  <2>1. inode' = [inode EXCEPT ![f] = Closed]
    BY <1>8 DEF inode_close
  <2>2. /\ inode' \in [Sector -> Inode] /\ inode'[f] = Closed
        /\ \A g \in Sector \ {f} : inode'[g] = inode[g]
    BY <1>1, <2>1, ClosedIs DEF Typed
  <2>3. writer.pc # "idle" => writer.sector # f
    BY <1>4, <1>8
  <2>4. CASE inode[f].removed
    <3>1. PICK b : b = inode[f].data
      OBVIOUS
    <3>2. free_map_release({f} \union inode_deallocate(disk, b))
      BY <1>8, <2>4, <3>1 DEF inode_close, LetGo
    <3>3. b = InodeOf[f] /\ f \notin named'
      BY <1>5, <1>6, <2>4, <3>1
    <3>4. \A g \in Files \ {f} : g \in named' <=> g \in named
      BY <1>6
    <3> QED
      BY <1>5, <1>6, <2>2, <2>3, <3>2, <3>3, <3>4, FileGone
  <2>5. CASE ~inode[f].removed
    <3>1. UNCHANGED << free_map, panic >>
      BY <2>5 DEF inode_close, LetGo
    <3>2. Typed'
      BY <1>1, <1>6, <2>2, <3>1 DEF Typed
    <3>3. \A g \in Files \ {f} : g \in named' <=> g \in named
      BY <1>6
    <3>4. /\ SystemFiles' /\ Openers' /\ Writing' /\ OnDisk'
          /\ \A g \in Files \ {f} : g \in LiveFiles' <=> g \in LiveFiles
          /\ f \in LiveFiles' <=> f \in named'
          /\ \A g \in Sector \ {f} : (InodeOf')[g] = InodeOf[g]
          /\ (InodeOf')[f] = disk[f]
          /\ \A g \in {0, 1} : g \in LiveFiles' /\ g \in LiveFiles
          /\ \A g \in LiveFiles' : g \in Sector
      BY <1>6, <2>2, <2>3, <3>2, <3>3, InodeClosed
    <3>5. f \in named'
      BY <1>6, <2>5
    <3>6. \A g : g \in LiveFiles' <=> g \in LiveFiles
      BY <1>1, <1>5, <3>4, <3>5, LiveAre
    <3>7. Sound(free_map, disk, LiveFiles, InodeOf)
      BY DEF Inv, Trees
    <3>8. Sound(free_map, disk, LiveFiles, InodeOf')
      <4>1. OlderThan(disk, disk[f], InodeOf[f]) /\ disk[f] \in Block
        BY <1>1, <1>4, <1>5, LiveAre DEF Inv, OnDisk
      <4>2. \A g \in LiveFiles \ {f} : (InodeOf')[g] = InodeOf[g]
        BY <1>1, <3>4, LiveAre
      <4> QED
        BY <1>5, <3>4, <3>7, <4>1, <4>2, SoundOlder
    <3>9. LiveFiles' = LiveFiles
      BY <3>6
    <3>10. Trees'
      BY <3>1, <3>8, <3>9, <1>6 DEF Trees
    <3>11. ASSUME Exactly, ~failed
           PROVE  Exact(free_map, disk, LiveFiles, InodeOf', Needs') /\ Entered'
      <4>1. Exact(free_map, disk, LiveFiles, InodeOf, Needs)
        BY <3>11 DEF Exactly
      <4>2. ~Growing(f)
        BY <2>3 DEF Growing
      <4>3. \A q \in 0 .. Dbl : (InodeOf')[f][q] = InodeOf[f][q]
        BY <1>4, <1>5, <3>4, <3>11, <4>2 DEF Exactly, Entered
      <4>4. Kept(InodeOf, InodeOf', LiveFiles \ {f})
        BY <1>1, <3>4, LiveAre DEF Kept
      <4>5. (InodeOf')[f][Length] = InodeOf[f][Length]
        BY <1>4, <1>5, <3>4 DEF Inv, OnDisk, OlderThan
      <4>6. Kept(Needs, Needs', LiveFiles)
        <5>1. \A g \in Sector : (InodeOf')[g][Length] = InodeOf[g][Length]
          BY <3>4, <4>5
        <5>2. \A g \in Sector : (Needs')[g] = Needs[g]
          BY <1>6, <5>1 DEF Needs, Growing
        <5> QED
          BY <1>1, <5>2, LiveAre DEF Kept
      <4>7. Exact(free_map, disk, LiveFiles, InodeOf', Needs')
        BY <1>5, <4>1, <4>3, <4>4, <4>6, ExactEntries
      <4>8. Entered'
        <5>1. ~(inode'[f].open_cnt > 0)
          BY <2>2, ClosedIs
        <5>2. \A g \in Files : g \in Sector
          BY DEF Files
        <5> QED
          BY <1>6, <2>2, <3>11, <5>1, <5>2 DEF Exactly, Entered, Growing
      <4> QED
        BY <4>7, <4>8
    <3>12. Exactly => Exactly'
      BY <1>6, <3>1, <3>9, <3>11 DEF Exactly
    <3> QED
      BY <3>2, <3>4, <3>10, <3>12 DEF Inv
  <2> QED
    BY <1>3, <2>4, <2>5
<1> QED
  BY <1>7, <1>8

-------------------------------------------------------------------------------
(* What is in a file.  Byte o is word WordOf(o) of block BlockOf(o); a file    *)
(* may have blocks past its length, from reservations that failed, and a block *)
(* of its own has words past it.                                               *)

BlockOf(o) == o \div NBytes
WordOf(o) == o % NBytes
Used(d, b, o) == BlockOf(o) < MostBlocks /\ FLeaf(d, b, BlockOf(o)) # 0
ByteAt(d, b, o) == d[FLeaf(d, b, BlockOf(o))][WordOf(o)]

\* Byte p - 1 of the file is element p of its contents.
ContentOf(d, b) == [p \in 1 .. b[Length] |->
                      d[byte_to_sector(d, b, p - 1)][(p - 1) % NBytes]]

\* Two files with the same bytes.
Alike(d, b, d2, b2) ==
  /\ b2[Length] = b[Length]
  /\ \A o \in Nat : o < b[Length] => ByteAt(d2, b2, o) = ByteAt(d, b, o)
SameContent(d, b, d2, b2) == ContentOf(d2, b2) = ContentOf(d, b)

\* What a file has past its length is zero.
Clean(d, b) == \A o \in Nat : o >= b[Length] /\ Used(d, b, o) => ByteAt(d, b, o) = 0

\* A byte below the length is in one of the blocks of the file.
LEMMA BlockOfByte ==
  ASSUME NEW o \in Nat, NEW l \in Nat, o < l
  PROVE  o \div NBytes \in Nat /\ o \div NBytes < bytes_to_sectors(l)
<1>1. PICK u \in Nat \ {0} : u = NBytes
  BY SizesAssumption
<1>2. o \div u \in Nat /\ o % u \in 0 .. u - 1 /\ o = ((o \div u) * u) + (o % u)
  BY Quotient
<1>3. PICK q \in Nat, r \in Nat : q = o \div u /\ o = (q * u) + r
  BY <1>2
<1>4. PICK p \in Int : p = q * u
  BY <1>3
<1>5. q * u < l
  BY <1>3, <1>4
<1>6. q < (l + u - 1) \div u
  BY <1>5, SectorsFor
<1> QED
  BY <1>1, <1>3, <1>6 DEF bytes_to_sectors

LEMMA BytePlace ==
  ASSUME NEW o \in Nat
  PROVE  /\ BlockOf(o) \in Nat /\ WordOf(o) \in Words
         /\ WordOf(o) \in Nat /\ WordOf(o) < NBytes
         /\ \E q \in Int : q = BlockOf(o) * NBytes /\ o = q + WordOf(o)
<1>1. PICK u \in Nat \ {0} : u = NBytes
  BY SizesAssumption
<1>2. o \div u \in Nat /\ o % u \in 0 .. u - 1 /\ o = ((o \div u) * u) + (o % u)
  BY Quotient
<1>3. PICK i \in Nat, w \in Nat : i = o \div u /\ w = o % u /\ w < u /\ o = (i * u) + w
  BY <1>2
<1>4. PICK q \in Int : q = i * u
  BY <1>3
<1>5. w \in Words
  BY <1>1, <1>3, WordsThere
<1> QED
  BY <1>1, <1>3, <1>4, <1>5 DEF BlockOf, WordOf

\* A word of a block is one byte.
LEMMA BytesApart ==
  ASSUME NEW o \in Nat, NEW p \in Nat, BlockOf(o) = BlockOf(p)
  PROVE  o - p = WordOf(o) - WordOf(p)
<1>1. PICK q \in Int : q = BlockOf(o) * NBytes /\ o = q + WordOf(o)
  BY BytePlace
<1>2. PICK r \in Int : r = BlockOf(p) * NBytes /\ p = r + WordOf(p)
  BY BytePlace
<1>3. q = r /\ WordOf(o) \in Nat /\ WordOf(p) \in Nat
  BY <1>1, <1>2, BytePlace
<1> QED
  BY <1>1, <1>2, <1>3

\* What the length asks for is there.
LEMMA BytesUsed ==
  ASSUME NEW d, NEW b, NEW l \in Nat, Reach(d, b, bytes_to_sectors(l)),
         NEW o \in Nat, o < l
  PROVE  Used(d, b, o)
<1>1. PICK i : i = BlockOf(o)
  OBVIOUS
<1>2. i \in Nat /\ i < bytes_to_sectors(l)
  BY <1>1, BlockOfByte DEF BlockOf
<1>3. PICK n \in Nat : n = bytes_to_sectors(l)
  BY SectorsNat
<1>4. n <= MostBlocks /\ FLeaf(d, b, i) # 0 /\ MostBlocks \in Nat
  BY <1>2, <1>3, MostBlocksNat DEF Reach
<1> QED
  BY <1>1, <1>2, <1>3, <1>4 DEF Used

LEMMA ContentIs ==
  ASSUME NEW m, NEW d, NEW b, GoodFile(m, d, b)
  PROVE  \A c : c = ContentOf(d, b) => c = [p \in 1 .. b[Length] |-> ByteAt(d, b, p - 1)]
<1>1. b[Length] \in Nat /\ Reach(d, b, bytes_to_sectors(b[Length]))
  BY DEF GoodFile
<1>2. ASSUME NEW p \in 1 .. b[Length]
      PROVE  d[byte_to_sector(d, b, p - 1)][(p - 1) % NBytes] = ByteAt(d, b, p - 1)
  <2>1. PICK o \in Nat : o = p - 1 /\ o < b[Length]
    BY <1>1
  <2>2. Used(d, b, o)
    BY <1>1, <2>1, BytesUsed
  <2>3. BlockOf(o) \in Nat /\ BlockOf(o) < MostBlocks /\ FLeaf(d, b, BlockOf(o)) # 0
    BY <2>2, BytePlace DEF Used
  <2>4. PICK i \in Nat : i = BlockOf(o) /\ i = o \div NBytes
    BY <2>3 DEF BlockOf
  <2>5. index_to_sector(d, b, i) = FLeaf(d, b, i)
    <3>1. PICK s : s = index_to_sector(d, b, i)
      OBVIOUS
    <3>2. i < MostBlocks /\ FLeaf(d, b, i) # 0
      BY <2>3, <2>4
    <3> QED
      BY <3>2, SectorOfIndex
  <2>6. byte_to_sector(d, b, o) = FLeaf(d, b, BlockOf(o))
    BY <1>1, <2>1, <2>4, <2>5 DEF byte_to_sector
  <2> QED
    BY <2>1, <2>6 DEF ByteAt, WordOf
<1> QED
  BY <1>2 DEF ContentOf

LEMMA AlikeContent ==
  ASSUME NEW m, NEW d, NEW b, GoodFile(m, d, b),
         NEW m2, NEW d2, NEW b2, GoodFile(m2, d2, b2), Alike(d, b, d2, b2)
  PROVE  SameContent(d, b, d2, b2)
<1>1. PICK c : c = ContentOf(d, b)
  OBVIOUS
<1>2. PICK c2 : c2 = ContentOf(d2, b2)
  OBVIOUS
<1>3. c = [p \in 1 .. b[Length] |-> ByteAt(d, b, p - 1)]
  BY <1>1, ContentIs
<1>4. c2 = [p \in 1 .. b2[Length] |-> ByteAt(d2, b2, p - 1)]
  BY <1>2, ContentIs
<1>5. b[Length] \in Nat /\ b2[Length] = b[Length]
  BY DEF GoodFile, Alike
<1>6. ASSUME NEW p \in 1 .. b[Length] PROVE ByteAt(d2, b2, p - 1) = ByteAt(d, b, p - 1)
  <2>1. p - 1 \in Nat /\ p - 1 < b[Length]
    BY <1>5
  <2> QED
    BY <2>1 DEF Alike
<1>7. c2 = c
  BY <1>3, <1>4, <1>5, <1>6
<1> QED
  BY <1>1, <1>2, <1>7 DEF SameContent

\* A file stays as it is where its sectors do.
LEMMA KeptBytes ==
  ASSUME NEW m, NEW d, NEW b, GoodFile(m, d, b),
         NEW d2 \in Disk, Kept(d, d2, FNodes(d, b))
  PROVE  /\ Alike(d, b, d2, b)
         /\ Clean(d, b) => Clean(d2, b)
<1>1. FileTrees(m, d, b) /\ b[Length] \in Nat /\ Reach(d, b, bytes_to_sectors(b[Length]))
  BY DEF GoodFile
<1>2. \A s \in FInner(d, b) : d2[s] = d[s]
  BY GoodFileSectors DEF Kept
<1>3. SameFile(d, d2, b)
  BY <1>1, <1>2, FileSame
<1>4. ASSUME NEW o \in Nat, Used(d, b, o) \/ Used(d2, b, o)
      PROVE  Used(d, b, o) /\ ByteAt(d2, b, o) = ByteAt(d, b, o)
  <2>1. PICK i \in Nat : i = BlockOf(o)
    BY BytePlace
  <2>2. i < MostBlocks
    BY <1>4, <2>1 DEF Used
  <2>3. FLeaf(d2, b, i) = FLeaf(d, b, i)
    BY <1>3, <2>2 DEF SameFile
  <2>4. FLeaf(d, b, i) # 0
    BY <1>4, <2>1, <2>3 DEF Used
  <2>5. FLeaf(d, b, i) \in FNodes(d, b)
    BY <1>1, <2>2, <2>4, FileLeaf
  <2> QED
    BY <2>1, <2>2, <2>3, <2>4, <2>5 DEF Used, ByteAt, Kept
<1>5. Alike(d, b, d2, b)
  <2>1. ASSUME NEW o \in Nat, o < b[Length] PROVE ByteAt(d2, b, o) = ByteAt(d, b, o)
    <3>1. Used(d, b, o)
      BY <1>1, <2>1, BytesUsed
    <3> QED
      BY <1>4, <3>1
  <2> QED
    BY <2>1 DEF Alike
<1>6. Clean(d, b) => Clean(d2, b)
  BY <1>4 DEF Clean
<1> QED
  BY <1>5, <1>6

\* What is lost with the entries that were not written yet is past the length.
LEMMA OlderBytes ==
  ASSUME NEW m, NEW d, NEW c, GoodFile(m, d, c), NEW b \in Block, OlderThan(d, b, c)
  PROVE  /\ GoodFile(m, d, b) /\ Alike(d, c, d, b)
         /\ Clean(d, c) => Clean(d, b)
<1>1. GoodFile(m, d, b) /\ b[Length] = c[Length] /\ b[Length] \in Nat
      /\ Reach(d, b, bytes_to_sectors(b[Length]))
  BY OlderFile DEF OlderThan, GoodFile
<1>2. ASSUME NEW o \in Nat, Used(d, b, o)
      PROVE  Used(d, c, o) /\ ByteAt(d, b, o) = ByteAt(d, c, o)
  <2>1. PICK i \in Nat : i = BlockOf(o)
    BY BytePlace
  <2>2. i < MostBlocks /\ FLeaf(d, b, i) # 0
    BY <1>2, <2>1 DEF Used
  <2>3. PICK q : q = Root(i)
    OBVIOUS
  <2>4. PICK r : r = i - Base(q)
    OBVIOUS
  <2>5. q \in 0 .. Dbl /\ HF[q] \in Heights /\ r \in Nat /\ r < Unit(HF[q])
    BY <2>2, <2>3, <2>4, Roots
  <2>6. Leaf(HF[q], d, 0, r) = 0
    BY <2>5, NoTree
  <2>7. FLeaf(d, b, i) = Leaf(HF[q], d, b[q], r) /\ FLeaf(d, c, i) = Leaf(HF[q], d, c[q], r)
    BY <2>3, <2>4 DEF FLeaf
  <2>8. b[q] = c[q]
    BY <2>2, <2>5, <2>6, <2>7 DEF OlderThan
  <2>9. FLeaf(d, c, i) = FLeaf(d, b, i)
    BY <2>7, <2>8
  <2> QED
    BY <2>1, <2>2, <2>9 DEF Used, ByteAt
<1>3. ASSUME NEW o \in Nat, o < c[Length] PROVE ByteAt(d, b, o) = ByteAt(d, c, o)
  <2>1. Used(d, b, o)
    BY <1>1, <1>3, BytesUsed
  <2> QED
    BY <1>2, <2>1
<1> QED
  BY <1>1, <1>2, <1>3 DEF Alike, Clean

\* A reservation changes no byte, and what it adds is zero.
LEMMA GrownBytes ==
  ASSUME NEW m, NEW d, NEW b, GoodFile(m, d, b),
         NEW n, NEW m2, NEW d2, NEW b2, NEW ok, FileGrown(n, m, d, b, m2, d2, b2, ok)
  PROVE  /\ Alike(d, b, d2, b2)
         /\ Clean(d, b) => Clean(d2, b2)
<1>1. FileTrees(m, d, b) /\ b[Length] \in Nat /\ Reach(d, b, bytes_to_sectors(b[Length]))
  BY DEF GoodFile
<1>2. b2[Length] = b[Length]
  BY LengthWord DEF FileGrown
<1>3. ASSUME NEW o \in Nat, Used(d, b, o) PROVE ByteAt(d2, b2, o) = ByteAt(d, b, o)
  <2>1. PICK i \in Nat : i = BlockOf(o)
    BY BytePlace
  <2>2. i < MostBlocks /\ FLeaf(d, b, i) # 0
    BY <1>3, <2>1 DEF Used
  <2>3. PICK s : s = FLeaf(d, b, i)
    OBVIOUS
  <2>4. s \in FNodes(d, b) /\ s \notin FInner(d, b) /\ s \in Sector /\ s # 0
    BY <1>1, <2>2, <2>3, FileLeaf
  <2>5. s \in m
    BY <2>4, GoodFileSectors
  <2>6. d2[s] = d[s]
    BY <2>4, <2>5 DEF FileGrown
  <2>7. FLeaf(d2, b2, i) = s
    BY <2>2, <2>3 DEF FileGrown
  <2> QED
    BY <2>1, <2>3, <2>6, <2>7 DEF ByteAt
<1>4. ASSUME NEW o \in Nat, Used(d2, b2, o), ~Used(d, b, o) PROVE ByteAt(d2, b2, o) = 0
  <2>1. PICK i \in Nat : i = BlockOf(o)
    BY BytePlace
  <2>2. i < MostBlocks /\ FLeaf(d2, b2, i) # 0 /\ FLeaf(d, b, i) = 0
    BY <1>4, <2>1 DEF Used
  <2>3. d2[FLeaf(d2, b2, i)] = Zeros
    BY <2>2 DEF FileGrown
  <2> QED
    BY <2>1, <2>3, BytePlace, ZerosBlock DEF ByteAt
<1>5. ASSUME NEW o \in Nat, o < b[Length] PROVE ByteAt(d2, b2, o) = ByteAt(d, b, o)
  <2>1. Used(d, b, o)
    BY <1>1, <1>5, BytesUsed
  <2> QED
    BY <1>3, <2>1
<1>6. Clean(d, b) => Clean(d2, b2)
  BY <1>2, <1>3, <1>4 DEF Clean
<1> QED
  BY <1>2, <1>5, <1>6 DEF Alike

\* A file of k bytes with nothing but zeros.
NewFile(d, b, k) ==
  b[Length] = k /\ \A o \in Nat : Used(d, b, o) => ByteAt(d, b, o) = 0

\* A new file reads as zeros.
LEMMA NewBytes ==
  ASSUME NEW m \in SUBSET Sector, NEW d \in Disk, 0 \in m,
         NEW k \in Nat, NEW b, b = [Zeros EXCEPT ![Length] = k],
         NEW n, NEW m2, NEW d2, NEW b2, NEW ok, FileGrown(n, m, d, b, m2, d2, b2, ok),
         NEW f \in m, NEW d3 \in Disk, Kept(d2, d3, Sector \ {f})
  PROVE  NewFile(d3, b2, k)
<1>1. /\ FileTrees(m, d, b) /\ b[Length] = k
      /\ \A s : s \notin FNodes(d, b)
      /\ \A i \in Nat : i < MostBlocks => FLeaf(d, b, i) = 0
  BY EmptyFile
<1>2. FileTrees(m2, d2, b2) /\ b2[Length] = k
  BY <1>1, LengthWord DEF FileGrown
<1>3. \A s \in FNodes(d2, b2) : s \in Sector /\ s # f
  <2>1. \A s \in FNodes(d2, b2) : s \in FNodes(d, b) \/ s \in m2 \ m
    BY DEF FileGrown
  <2>2. FNodes(d2, b2) \subseteq m2 /\ m2 \subseteq Sector
    BY <1>2, FileSectors
  <2> QED
    BY <1>1, <2>1, <2>2
<1>4. \A s \in FInner(d2, b2) : d3[s] = d2[s]
  BY <1>2, <1>3, FileSectors DEF Kept
<1>5. SameFile(d2, d3, b2)
  BY <1>2, <1>4, FileSame
<1>6. ASSUME NEW o \in Nat, Used(d3, b2, o) PROVE ByteAt(d3, b2, o) = 0
  <2>1. PICK i \in Nat : i = BlockOf(o)
    BY BytePlace
  <2>2. i < MostBlocks /\ FLeaf(d3, b2, i) # 0
    BY <1>6, <2>1 DEF Used
  <2>3. FLeaf(d3, b2, i) = FLeaf(d2, b2, i)
    BY <1>5, <2>2 DEF SameFile
  <2>4. PICK s : s = FLeaf(d2, b2, i)
    OBVIOUS
  <2>5. d2[s] = Zeros /\ s \in m2 \ m
    BY <1>1, <2>2, <2>3, <2>4 DEF FileGrown
  <2>6. s \in FNodes(d2, b2)
    BY <1>2, <2>2, <2>3, <2>4, FileLeaf
  <2>7. d3[s] = d2[s]
    BY <1>3, <2>6 DEF Kept
  <2> QED
    BY <2>1, <2>3, <2>4, <2>5, <2>7, BytePlace, ZerosBlock DEF ByteAt
<1> QED
  BY <1>2, <1>6 DEF NewFile

\* With the new length, the bytes up to it read as zeros.
LEMMA LengthBytes ==
  ASSUME NEW m, NEW d, NEW c, GoodFile(m, d, c), Clean(d, c),
         NEW b \in Block, \A q \in 0 .. Dbl : b[q] = c[q],
         b[Length] \in Nat, b[Length] >= c[Length],
         Reach(d, c, bytes_to_sectors(b[Length]))
  PROVE  /\ \A o \in Nat : o < c[Length] => ByteAt(d, b, o) = ByteAt(d, c, o)
         /\ \A o \in Nat : o >= c[Length] /\ o < b[Length] => ByteAt(d, b, o) = 0
         /\ Clean(d, b)
<1>1. c[Length] \in Nat
  BY DEF GoodFile
<1>2. ASSUME NEW o \in Nat, Used(d, b, o) \/ Used(d, c, o) \/ o < b[Length]
      PROVE  Used(d, c, o) /\ ByteAt(d, b, o) = ByteAt(d, c, o)
  <2>1. PICK i \in Nat : i = BlockOf(o)
    BY BytePlace
  <2>2. i < MostBlocks
    BY <1>2, <2>1, BytesUsed DEF Used
  <2>3. FLeaf(d, b, i) = FLeaf(d, c, i)
    BY <2>2, Roots DEF FLeaf
  <2>4. Used(d, c, o)
    BY <1>2, <2>1, <2>3, BytesUsed DEF Used
  <2> QED
    BY <2>1, <2>3, <2>4 DEF ByteAt
<1>3. \A o \in Nat : o < c[Length] => o < b[Length]
  BY <1>1
<1>4. \A o \in Nat : o >= b[Length] => o >= c[Length]
  BY <1>1
<1> QED
  BY <1>2, <1>3, <1>4 DEF Clean

\* The disk after k words of sector s have got the value v, and the bytes of a
\* file after k of them have.
SectorWritten(d, d2, s, x, k, v) ==
  /\ \A w \in Words : d2[s][w] = IF w \in x .. x + k - 1 THEN v ELSE d[s][w]
  /\ \A t \in Sector \ {s} : d2[t] = d[t]
FileWritten(d, d2, b, o, k, v) ==
  \A p \in Nat : p < b[Length] =>
    ByteAt(d2, b, p) = IF p \in o .. o + k - 1 THEN v ELSE ByteAt(d, b, p)

\* One sector of a write of v: k bytes from byte o on, and no other.
LEMMA WrittenBytes ==
  ASSUME NEW m, NEW d, NEW b, GoodFile(m, d, b),
         NEW o \in Nat, NEW k \in Nat, k > 0, o + k <= b[Length],
         WordOf(o) + k <= NBytes,
         NEW s, s = FLeaf(d, b, BlockOf(o)), NEW v, NEW d2 \in Disk,
         SectorWritten(d, d2, s, WordOf(o), k, v)
  PROVE  /\ FileWritten(d, d2, b, o, k, v)
         /\ Clean(d, b) => Clean(d2, b)
<1>1. FileTrees(m, d, b) /\ b[Length] \in Nat /\ Reach(d, b, bytes_to_sectors(b[Length]))
  BY DEF GoodFile
<1>2. PICK i \in Nat : i = BlockOf(o) /\ i < MostBlocks /\ FLeaf(d, b, i) = s /\ s # 0
  <2>1. o < b[Length]
    BY <1>1
  <2>2. Used(d, b, o)
    BY <1>1, <2>1, BytesUsed
  <2> QED
    BY <2>2, BytePlace DEF Used
<1>3. /\ s \notin FInner(d, b)
      /\ \A j \in Nat : j < MostBlocks /\ j # i => FLeaf(d, b, j) # s
  BY <1>1, <1>2, FileLeaf
<1>4. \A t \in FInner(d, b) : d2[t] = d[t]
  <2>1. \A t \in FInner(d, b) : t \in Sector
    BY GoodFileSectors
  <2> QED
    BY <1>3, <2>1 DEF SectorWritten
<1>5. SameFile(d, d2, b)
  BY <1>1, <1>4, FileSame
<1>6. ASSUME NEW p \in Nat, Used(d, b, p) \/ Used(d2, b, p)
      PROVE  /\ Used(d, b, p)
             /\ ByteAt(d2, b, p) = IF p \in o .. o + k - 1 THEN v ELSE ByteAt(d, b, p)
  <2>1. PICK j \in Nat : j = BlockOf(p)
    BY BytePlace
  <2>2. j < MostBlocks
    BY <1>6, <2>1 DEF Used
  <2>3. PICK t : t = FLeaf(d, b, j)
    OBVIOUS
  <2>4. FLeaf(d2, b, j) = t
    BY <1>5, <2>2, <2>3 DEF SameFile
  <2>5. t # 0 /\ Used(d, b, p)
    BY <1>6, <2>1, <2>3, <2>4 DEF Used
  <2>6. t \in Sector
    BY <1>1, <2>2, <2>3, <2>5, FileLeaf
  <2>7. PICK w \in Words : w = WordOf(p) /\ w \in Nat /\ w < NBytes
    BY BytePlace
  <2>8. ByteAt(d2, b, p) = d2[t][w] /\ ByteAt(d, b, p) = d[t][w]
    BY <2>1, <2>3, <2>4, <2>7 DEF ByteAt
  <2>9. PICK x \in Nat : x = WordOf(o) /\ x < NBytes
    BY BytePlace
  <2>10. CASE j = i
    <3>1. p - o = w - x
      <4>1. BlockOf(p) = BlockOf(o)
        BY <1>2, <2>1, <2>10
      <4>2. p - o = WordOf(p) - WordOf(o)
        BY <4>1, BytesApart
      <4> QED
        BY <2>7, <2>9, <4>2
    <3>2. p \in o .. o + k - 1 <=> w \in x .. x + k - 1
      BY <2>7, <2>9, <3>1
    <3>3. t = s
      BY <1>2, <2>3, <2>10
    <3>4. d2[s][w] = IF w \in x .. x + k - 1 THEN v ELSE d[s][w]
      BY <2>7, <2>9 DEF SectorWritten
    <3> QED
      BY <2>5, <2>8, <3>2, <3>3, <3>4
  <2>11. CASE j # i
    <3>1. d2[t] = d[t]
      BY <1>3, <2>2, <2>3, <2>6, <2>11 DEF SectorWritten
    <3>2. p \notin o .. o + k - 1
      <4> SUFFICES ASSUME p \in o .. o + k - 1 PROVE FALSE
        OBVIOUS
      <4>1. PICK u \in Nat \ {0} : u = NBytes
        BY SizesAssumption
      <4>2. PICK e \in Int : e = i * u /\ o = e + x
        BY <1>2, <2>9, <4>1, BytePlace
      <4>3. PICK z \in 0 .. u - 1 : p = e + z
        <5>1. p - e \in 0 .. u - 1 /\ p = e + (p - e)
          BY <2>9, <4>1, <4>2
        <5> QED
          BY <5>1
      <4>4. ((i * u) + z) \div u = i
        BY QuotientIs
      <4>5. BlockOf(p) = i
        BY <4>1, <4>2, <4>3, <4>4 DEF BlockOf
      <4> QED
        BY <2>1, <2>11, <4>5
    <3> QED
      BY <2>5, <2>8, <3>1, <3>2
  <2> QED
    BY <2>10, <2>11
<1>7. ASSUME NEW p \in Nat, p < b[Length]
      PROVE  ByteAt(d2, b, p) = IF p \in o .. o + k - 1 THEN v ELSE ByteAt(d, b, p)
  <2>1. Used(d, b, p)
    BY <1>1, <1>7, BytesUsed
  <2> QED
    BY <1>6, <2>1
<1>8. ASSUME Clean(d, b), NEW p \in Nat, p >= b[Length], Used(d2, b, p)
      PROVE  ByteAt(d2, b, p) = 0
  <2>1. p \notin o .. o + k - 1
    BY <1>1, <1>8
  <2>2. Used(d, b, p) /\ ByteAt(d2, b, p) = ByteAt(d, b, p)
    BY <1>6, <1>8, <2>1
  <2> QED
    BY <1>8, <2>2 DEF Clean
<1> QED
  BY <1>7, <1>8 DEF FileWritten, Clean

-------------------------------------------------------------------------------
(* Steps that write. *)

LEMMA OlderKept ==
  ASSUME NEW m, NEW d, NEW c, GoodFile(m, d, c), NEW b \in Block, OlderThan(d, b, c),
         NEW d2 \in Disk, \A s \in FInner(d, c) : d2[s] = d[s]
  PROVE  OlderThan(d2, b, c)
<1>1. GoodFile(m, d, b)
  BY OlderFile
<1>2. FileTrees(m, d, b) /\ b[Length] \in Nat
  BY <1>1 DEF GoodFile
<1>3. \A s \in FInner(d, b) : s \in FInner(d, c)
  <2>1. \A q \in 0 .. Dbl : b[q] = 0 \/ b[q] = c[q]
    BY DEF OlderThan
  <2>2. \A q \in 0 .. Dbl : Inner(HF[q], d, 0) = {}
    <3>1. 0 \in Sector /\ \A q \in 0 .. Dbl : HF[q] \in Heights
      BY FileSizes, SystemSectors
    <3> QED
      BY <3>1, NoTree
  <2> QED
    BY <2>1, <2>2 DEF FInner
<1>4. \A s \in FInner(d, b) : d2[s] = d[s]
  BY <1>3
<1>5. SameFile(d, d2, b)
  BY <1>2, <1>4, FileSame
<1>6. Reach(d2, b, bytes_to_sectors(b[Length]))
  BY <1>2, <1>5, SectorsNat DEF SameFile, OlderThan
<1> QED
  BY <1>6 DEF OlderThan

\* The disk changes, but not in the inodes and index blocks of the files there
\* are.
LEMMA SameFiles ==
  ASSUME Inv, disk' \in Disk, free_map' \in SUBSET Sector, free_map \subseteq free_map',
         Kept(disk, disk', LiveFiles \ {0}),
         \A f \in LiveFiles : Kept(disk, disk', FInner(disk, InodeOf[f])),
         inode' = inode
  PROVE  /\ SystemFiles' /\ OnDisk'
         /\ Sound(free_map', disk', LiveFiles, InodeOf')
         /\ \A f \in LiveFiles : (InodeOf')[f] = InodeOf[f]
<1>1. Typed
  BY DEF Inv
<1>2. \A f \in LiveFiles \ {0} : disk'[f] = disk[f]
  BY DEF Kept
<1>3. 1 \in LiveFiles \ {0} /\ 0 \in LiveFiles /\ LiveFiles \subseteq Sector
  BY <1>1, LiveAre
<1>4. SystemFiles'
  BY <1>2, <1>3 DEF Inv, SystemFiles, FREE_MAP_SECTOR, ROOT_DIR_SECTOR
<1>5. \A f \in LiveFiles : \A s \in FInner(disk, InodeOf[f]) : disk'[s] = disk[s]
  BY DEF Kept
<1>6. \A f \in LiveFiles : (InodeOf')[f] = InodeOf[f]
  <2>1. inode[0].open_cnt > 0
    BY SystemSectors, ClosedIs DEF Inv, SystemFiles, FREE_MAP_SECTOR, Closed
  <2> QED
    BY <1>2, <1>3, <2>1 DEF InodeOf, Data
<1>7. Sound(free_map, disk, LiveFiles, InodeOf)
  BY DEF Inv, Trees
<1>8. Sound(free_map, disk', LiveFiles, InodeOf)
  BY <1>5, <1>7, SoundWritten
<1>9. Sound(free_map', disk', LiveFiles, InodeOf')
  <2>1. /\ LiveFiles \subseteq free_map' /\ 0 \in free_map'
        /\ \A f \in LiveFiles : \A s \in FNodes(disk', InodeOf[f]) : s \in free_map'
    BY <1>8, GoodFileSectors DEF Sound
  <2> QED
    BY <1>6, <1>8, <2>1, SoundLess
<1>10. OnDisk'
  <2> SUFFICES ASSUME NEW f \in Files, inode[f].open_cnt > 0
               PROVE  OlderThan(disk', disk'[f], inode[f].data)
    BY DEF OnDisk
  <2>1. f \in LiveFiles /\ f # 0 /\ InodeOf[f] = inode[f].data /\ disk[f] \in Block
    BY <1>1, LiveAre
  <2>2. GoodFile(free_map, disk, InodeOf[f]) /\ OlderThan(disk, disk[f], InodeOf[f])
    BY <2>1, FileIs DEF Inv, OnDisk
  <2>3. OlderThan(disk', disk[f], InodeOf[f])
    BY <1>5, <2>1, <2>2, OlderKept
  <2> QED
    BY <1>2, <2>1, <2>3
<1> QED
  BY <1>4, <1>6, <1>9, <1>10

\* Only the writer moves.
LEMMA WriterMoves ==
  ASSUME Inv, writer' \in WriteCall, Writing',
         writer' = writer \/ (writer.pc # "grow" /\ writer'.pc # "grow"),
         UNCHANGED << free_map, disk, named, inode, failed, panic >>
  PROVE  Inv' /\ (Exactly => Exactly')
<1>1. Typed' /\ SystemFiles' /\ Openers'
  BY DEF Inv, Typed, SystemFiles, Openers
<1>2. LiveFiles' = LiveFiles /\ InodeOf' = InodeOf
  BY DEF LiveFiles, Live, InodeOf, Data
<1>3. Trees' /\ OnDisk'
  BY <1>2 DEF Inv, Trees, OnDisk
<1>4. \A f : Growing(f) <=> (Growing(f))'
  BY DEF Growing
<1>5. Exactly => Exactly'
  <2>1. Needs' = Needs
    <3>1. ASSUME NEW f \in Sector PROVE (Needs')[f] = Needs[f]
      BY <1>2, <1>4 DEF Needs, Growing
    <3> QED
      BY <3>1 DEF Needs
  <2>2. Entered => Entered'
    BY <1>4 DEF Entered
  <2> QED
    BY <1>2, <2>1, <2>2 DEF Exactly
<1> QED
  BY <1>1, <1>3, <1>5 DEF Inv

\* A block of a file below its length is neither an inode nor an index block.
LEMMA BlockOfFile ==
  ASSUME Inv, NEW f \in LiveFiles, NEW b, b = InodeOf[f],
         NEW i \in Nat, i < bytes_to_sectors(b[Length]),
         NEW s, s = index_to_sector(disk, b, i)
  PROVE  /\ s = FLeaf(disk, b, i) /\ i < MostBlocks /\ s # 0
         /\ s \in FNodes(disk, b) /\ s \in Sector /\ s \in free_map
         /\ s \notin LiveFiles /\ \A g \in LiveFiles : s \notin FInner(disk, InodeOf[g])
<1>1. PICK n \in Nat : n = bytes_to_sectors(b[Length])
  BY FileIs
<1>2. FileTrees(free_map, disk, b) /\ Reach(disk, b, n) /\ MostBlocks \in Nat
  BY <1>1, FileIs, MostBlocksNat
<1>3. i < MostBlocks /\ FLeaf(disk, b, i) # 0
  BY <1>1, <1>2 DEF Reach
<1>4. PICK l : l = FLeaf(disk, b, i)
  OBVIOUS
<1>5. s = l
  BY <1>3, <1>4, SectorOfIndex
<1>6. l \in FNodes(disk, b) /\ l \notin FInner(disk, b)
  BY <1>2, <1>3, <1>4, FileLeaf
<1>7. l \in free_map /\ l \in Sector /\ l # 0 /\ l \notin LiveFiles
  BY <1>6, FileIs
<1>8. \A g \in LiveFiles : l \notin FInner(disk, InodeOf[g])
  <2> SUFFICES ASSUME NEW g \in LiveFiles \ {f} PROVE l \notin FInner(disk, InodeOf[g])
    BY <1>6
  <2>1. l \notin FNodes(disk, InodeOf[g])
    BY <1>6 DEF Inv, Trees, Sound
  <2>2. GoodFile(free_map, disk, InodeOf[g])
    BY FileIs
  <2> QED
    BY <2>1, <2>2, GoodFileSectors
<1> QED
  BY <1>3, <1>4, <1>5, <1>6, <1>7, <1>8

\* A write that finds no block for its last byte goes past the end.
LEMMA PastTheEnd ==
  ASSUME Inv, NEW f \in LiveFiles, NEW c, c = InodeOf[f], NEW n \in Nat, n # 0,
         byte_to_sector(disk, c, n - 1) = NoSector
  PROVE  c[Length] < n
<1>1. PICK l \in Nat : l = c[Length]
  BY FileIs
<1>2. PICK o \in Nat : o = n - 1
  OBVIOUS
<1>3. ~(o < l)
  <2> SUFFICES ASSUME o < l PROVE FALSE
    OBVIOUS
  <2>1. PICK j \in Nat : j = o \div NBytes /\ j < bytes_to_sectors(c[Length])
    BY <1>1, BlockOfByte
  <2>2. PICK s : s = index_to_sector(disk, c, j)
    OBVIOUS
  <2>3. s \in Sector
    BY <2>1, <2>2, BlockOfFile
  <2>4. byte_to_sector(disk, c, o) = s
    BY <1>1, <2>1, <2>2 DEF byte_to_sector
  <2>5. s = NoSector
    BY <1>2, <2>4
  <2> QED
    BY <2>3, <2>5 DEF NoSector, Sector
<1> QED
  BY <1>1, <1>2, <1>3

\* What a write of one sector does.
LEMMA ChunkEffect ==
  ASSUME Inv, WriteChunk, NEW f, f = writer.sector, NEW o, o = writer.offset,
         NEW b, b = inode[f].data
  PROVE  /\ f \in Files /\ f \in LiveFiles /\ b = InodeOf[f] /\ o \in Nat
         /\ inode[f].open_cnt > 0
         /\ UNCHANGED << free_map, named, inode, failed, panic >>
         /\ writer.pc = "chunk" /\ writer' \in WriteCall
         /\ writer' = Idle \/ (writer'.pc = "chunk" /\ writer'.sector = f)
         /\ \/ disk' = disk
            \/ \E k \in Nat, s \in Sector :
                 /\ k > 0 /\ o + k <= b[Length] /\ WordOf(o) + k <= NBytes
                 /\ s = FLeaf(disk, b, BlockOf(o)) /\ s \in FNodes(disk, b) /\ s \notin LiveFiles
                 /\ \A g \in LiveFiles : s \notin FInner(disk, InodeOf[g])
                 /\ disk' \in Disk
                 /\ SectorWritten(disk, disk', s, WordOf(o), k, writer.value)
<1>1. Typed /\ writer \in WriteCall /\ writer.pc = "chunk"
  BY DEF Inv, Typed, WriteChunk
<1>2. /\ f \in Files /\ inode[f].open_cnt > 0 /\ f \in LiveFiles /\ f \in Sector
      /\ b = InodeOf[f]
  <2>1. f \in Files /\ inode[f].open_cnt > 0
    BY <1>1 DEF Inv, Writing
  <2> QED
    BY <1>1, <2>1, LiveAre
<1>3. /\ o \in Nat /\ writer.size \in Nat /\ b[Length] \in Nat
      /\ NBytes \in Nat \ {0} /\ writer.value \in Word
  BY <1>1, <1>2, FileIs, SizesAssumption DEF WriteCall, Word
<1>4. PICK r \in Nat : r = WordOf(o) /\ r = writer.offset % NBytes /\ r < NBytes
  BY <1>3, BytePlace DEF WordOf
<1>5. PICK k \in Int : k = MinOf(writer.size, MinOf(b[Length] - o, NBytes - r))
  BY <1>3 DEF MinOf
<1>6. PICK s : s = byte_to_sector(disk, b, o)
  OBVIOUS
<1>7. /\ UNCHANGED << free_map, named, inode, failed, panic >> /\ writer' \in WriteCall
      /\ writer' = Idle \/ (writer'.pc = "chunk" /\ writer'.sector = f)
  <2>1. Idle \in WriteCall
    BY SystemSectors DEF Idle, WriteCall, FREE_MAP_SECTOR
  <2>2. ASSUME NEW p \in Nat, NEW q \in Nat, NEW z, z = [writer EXCEPT !.offset = p, !.size = q]
        PROVE  z \in WriteCall /\ z.pc = "chunk" /\ z.sector = f
    BY <1>1, <2>2 DEF WriteCall
  <2>3. UNCHANGED << free_map, named, inode, failed, panic >>
    BY DEF WriteChunk
  <2>4. CASE k <= 0
    <3>1. writer' = Idle
      BY <1>4, <1>5, <2>4 DEF WriteChunk
    <3> QED
      BY <2>1, <2>3, <3>1
  <2>5. CASE ~(k <= 0)
    <3>1. PICK p \in Nat, q \in Nat : p = o + k /\ q = writer.size - k
      BY <1>3, <1>4, <1>5, <2>5 DEF MinOf
    <3>2. PICK z : z = [writer EXCEPT !.offset = p, !.size = q]
      OBVIOUS
    <3>3. writer' = Idle \/ writer' = z
      BY <1>4, <1>5, <2>5, <3>1, <3>2 DEF WriteChunk
    <3>4. z \in WriteCall /\ z.pc = "chunk" /\ z.sector = f
      BY <2>2, <3>2
    <3> QED
      BY <2>1, <2>3, <3>3, <3>4
  <2> QED
    BY <2>4, <2>5
<1>8. CASE k <= 0
  <2>1. disk' = disk
    BY <1>4, <1>5, <1>8 DEF WriteChunk
  <2> QED
    BY <1>1, <1>2, <1>3, <1>7, <2>1
<1>9. CASE ~(k <= 0)
  <2>1. PICK c : c = [w \in Words |-> IF w \in r .. r + k - 1 THEN writer.value ELSE disk[s][w]]
    OBVIOUS
  <2>2. disk' = [disk EXCEPT ![s] = c]
    BY <1>4, <1>5, <1>6, <1>9, <2>1 DEF WriteChunk
  <2>3. k \in Nat /\ k > 0 /\ o < b[Length] /\ o + k <= b[Length] /\ r + k <= NBytes
    BY <1>3, <1>4, <1>5, <1>9 DEF MinOf
  <2>4. PICK i \in Nat : i = BlockOf(o) /\ i = o \div NBytes /\ i < bytes_to_sectors(b[Length])
    BY <1>3, <2>3, BlockOfByte DEF BlockOf
  <2>5. s = index_to_sector(disk, b, i)
    BY <1>3, <1>6, <2>3, <2>4 DEF byte_to_sector
  <2>6. s = FLeaf(disk, b, i) /\ s \in Sector /\ s \notin LiveFiles /\ s \in FNodes(disk, b)
        /\ \A g \in LiveFiles : s \notin FInner(disk, InodeOf[g])
    BY <1>2, <2>4, <2>5, BlockOfFile
  <2>7. disk \in Disk /\ c \in Block
    BY <1>1, <1>3, <2>1, <2>6, LiveAre DEF Typed, Block
  <2>8. disk' \in Disk /\ disk'[s] = c /\ \A t \in Sector \ {s} : disk'[t] = disk[t]
    BY <2>2, <2>6, <2>7 DEF Disk
  <2>9. SectorWritten(disk, disk', s, r, k, writer.value)
    BY <2>1, <2>8 DEF SectorWritten
  <2> QED
    BY <1>1, <1>2, <1>3, <1>4, <1>7, <2>3, <2>4, <2>6, <2>8, <2>9
<1> QED
  BY <1>8, <1>9

LEMMA ChunkInv == ASSUME Inv, WriteChunk PROVE Inv' /\ (Exactly => Exactly')
<1>1. PICK f, o, b : f = writer.sector /\ o = writer.offset /\ b = inode[f].data
  OBVIOUS
<1>2. /\ f \in Files /\ f \in LiveFiles /\ b = InodeOf[f] /\ inode[f].open_cnt > 0
      /\ UNCHANGED << free_map, named, inode, failed, panic >>
      /\ writer.pc = "chunk" /\ writer' \in WriteCall
      /\ writer' = Idle \/ (writer'.pc = "chunk" /\ writer'.sector = f)
      /\ \/ disk' = disk
         \/ \E k \in Nat, s \in Sector :
              /\ s = FLeaf(disk, b, BlockOf(o)) /\ s \in FNodes(disk, b) /\ s \notin LiveFiles
              /\ \A g \in LiveFiles : s \notin FInner(disk, InodeOf[g])
              /\ disk' \in Disk
              /\ SectorWritten(disk, disk', s, WordOf(o), k, writer.value)
  BY <1>1, ChunkEffect
<1>3. Typed /\ Idle.pc = "idle"
  BY DEF Inv, Idle
<1>4. writer'.pc # "grow" /\ Writing'
  BY <1>2, <1>3 DEF Writing
<1>5. CASE disk' = disk
  BY <1>2, <1>4, <1>5, WriterMoves
<1>6. ASSUME NEW s \in Sector, s \notin LiveFiles,
             \A g \in LiveFiles : s \notin FInner(disk, InodeOf[g]),
             disk' \in Disk, \A t \in Sector \ {s} : disk'[t] = disk[t]
      PROVE  Inv' /\ (Exactly => Exactly')
  <2>1. LiveFiles \subseteq Sector /\ LiveFiles' = LiveFiles
    BY <1>2, <1>3, LiveAre DEF LiveFiles, Live
  <2>2. /\ Kept(disk, disk', LiveFiles \ {0})
        /\ \A g \in LiveFiles : Kept(disk, disk', FInner(disk, InodeOf[g]))
    <3>1. \A g \in LiveFiles : \A t \in FInner(disk, InodeOf[g]) : t \in Sector
      BY FileIs, GoodFileSectors
    <3> QED
      BY <1>6, <2>1, <3>1 DEF Kept
  <2>3. free_map' \in SUBSET Sector /\ free_map \subseteq free_map' /\ inode' = inode
    BY <1>2, <1>3 DEF Typed
  <2>4. SystemFiles' /\ OnDisk' /\ Sound(free_map', disk', LiveFiles, InodeOf')
        /\ \A g \in LiveFiles : (InodeOf')[g] = InodeOf[g]
    BY <1>6, <2>2, <2>3, SameFiles
  <2>5. Trees'
    BY <2>1, <2>4 DEF Trees
  <2>6. Typed' /\ Openers'
    BY <1>2, <1>3, <1>6 DEF Inv, Typed, Openers
  <2>7. ASSUME Exactly, ~failed
        PROVE  Exact(free_map, disk', LiveFiles, InodeOf', Needs') /\ Entered'
    <3>1. Kept(InodeOf, InodeOf', LiveFiles) /\ Kept(Needs, Needs', LiveFiles)
      <4>1. \A g \in LiveFiles : (Needs')[g] = Needs[g]
        BY <1>2, <1>4, <2>1, <2>4 DEF Needs, Growing
      <4> QED
        BY <2>4, <4>1 DEF Kept
    <3>2. /\ Sound(free_map, disk, LiveFiles, InodeOf)
          /\ Exact(free_map, disk, LiveFiles, InodeOf, Needs)
      BY <2>7 DEF Inv, Trees, Exactly
    <3>3. Exact(free_map, disk', LiveFiles, InodeOf', Needs')
      BY <1>6, <2>2, <3>1, <3>2, ExactSame
    <3>4. Entered'
      <4> SUFFICES ASSUME NEW g \in Files, inode[g].open_cnt > 0, NEW q \in 0 .. Dbl
                   PROVE  inode[g].data[q] = disk'[g][q]
        BY <1>2 DEF Entered
      <4>1. g \in LiveFiles /\ g \in Sector
        BY <1>3, LiveAre DEF Files
      <4>2. disk'[g] = disk[g]
        BY <1>6, <4>1
      <4> QED
        BY <1>2, <2>7, <4>2 DEF Exactly, Entered, Growing
    <3> QED
      BY <3>3, <3>4
  <2>8. Exactly => Exactly'
    BY <1>2, <2>1, <2>7 DEF Exactly
  <2> QED
    BY <1>4, <2>4, <2>5, <2>6, <2>8 DEF Inv
<1> QED
  BY <1>2, <1>5, <1>6 DEF SectorWritten

LEMMA SoundLength ==
  ASSUME NEW m, NEW d, NEW L, NEW D, Sound(m, d, L, D), NEW f \in L, NEW b \in Block,
         \A q \in 0 .. Dbl : b[q] = D[f][q],
         b[Length] \in Nat, Reach(d, D[f], bytes_to_sectors(b[Length])),
         NEW D2, D2[f] = b, \A g \in L \ {f} : D2[g] = D[g]
  PROVE  Sound(m, d, L, D2)
<1>1. GoodFile(m, d, D[f])
  BY DEF Sound
<1>2. SameBlocks(d, D[f], b)
  BY EntriesAlike
<1>3. FileTrees(m, d, b)
  <2>1. FileTrees(m, d, D[f])
    BY <1>1 DEF GoodFile
  <2>2. /\ m \subseteq Sector /\ d \in Disk /\ 0 \in m
        /\ \A q \in 0 .. Dbl : /\ D[f][q] \in Sector /\ Apart(HF[q], d, D[f][q])
                               /\ Nodes(HF[q], d, D[f][q]) \subseteq m
        /\ \A q, r \in 0 .. Dbl : q # r =>
             Nodes(HF[q], d, D[f][q]) \intersect Nodes(HF[r], d, D[f][r]) = {}
    BY <2>1, FileTreesAre
  <2> QED
    BY <2>2, FileTreesAre
<1>4. GoodFile(m, d, b)
  <2>1. Reach(d, b, bytes_to_sectors(b[Length]))
    BY <1>2, SectorsNat DEF SameBlocks
  <2> QED
    BY <1>3, <2>1 DEF GoodFile
<1>5. \A g \in L : \A s : s \in FNodes(d, D2[g]) <=> s \in FNodes(d, D[g])
  BY <1>2 DEF SameBlocks
<1>6. \A g \in L : GoodFile(m, d, D2[g])
  BY <1>4 DEF Sound
<1> QED
  BY <1>5, <1>6 DEF Sound

LEMMA LengthInv == ASSUME Inv, WriteLength PROVE Inv' /\ (Exactly => Exactly')
<1>1. Typed /\ writer \in WriteCall /\ writer.pc = "grow"
  BY DEF Inv, Typed, WriteLength
<1>2. PICK f \in Files, c \in Block :
        /\ f = writer.sector /\ c = inode[f].data /\ c = InodeOf[f]
        /\ inode[f].open_cnt > 0 /\ f \in LiveFiles /\ f \in Sector /\ inode[f] \in Inode
  <2>1. writer.sector \in Files /\ inode[writer.sector].open_cnt > 0
    BY <1>1 DEF Inv, Writing
  <2> QED
    BY <1>1, <2>1, LiveAre
<1>3. PICK l \in Nat : l = writer.offset + writer.size
  BY <1>1 DEF WriteCall
<1>4. PICK b : b = [c EXCEPT ![Length] = l]
  OBVIOUS
<1>5. b \in Block /\ b[Length] = l /\ \A q \in 0 .. Dbl : b[q] = c[q]
  BY <1>4, LengthWord DEF Block, Word
<1>6. Reach(disk, c, bytes_to_sectors(l))
  BY <1>1, <1>2, <1>3 DEF Inv, Writing
<1>7. PICK i : i = [inode[f] EXCEPT !.data = b]
  OBVIOUS
<1>8. /\ i \in Inode /\ i.open_cnt = inode[f].open_cnt /\ i.removed = inode[f].removed
      /\ i.deny_write_cnt = inode[f].deny_write_cnt /\ i.data = b
  BY <1>2, <1>5, <1>7, DataSet
<1>9. /\ inode' = [inode EXCEPT ![f] = i] /\ disk' = [disk EXCEPT ![f] = b]
      /\ writer' = [writer EXCEPT !.pc = "chunk"]
      /\ UNCHANGED << free_map, named, failed, panic >>
  BY <1>2, <1>3, <1>4, <1>7 DEF WriteLength
<1>10. /\ inode' \in [Sector -> Inode] /\ inode'[f] = i
       /\ \A g \in Sector \ {f} : inode'[g] = inode[g]
       /\ disk' \in Disk /\ disk'[f] = b /\ \A g \in Sector \ {f} : disk'[g] = disk[g]
  BY <1>1, <1>2, <1>5, <1>8, <1>9 DEF Typed, Disk
<1>11. writer' \in WriteCall /\ writer'.pc = "chunk" /\ writer'.sector = f
  BY <1>1, <1>2, <1>9 DEF WriteCall
<1>12. Typed'
  BY <1>1, <1>9, <1>10, <1>11 DEF Typed
<1>13. f # 0 /\ f # 1 /\ Files \subseteq Sector
  BY <1>1, LiveAre
<1>14. SystemFiles'
  BY <1>10, <1>13, SystemSectors DEF Inv, SystemFiles, FREE_MAP_SECTOR, ROOT_DIR_SECTOR
<1>15. Openers'
  <2>1. \A g \in Sector : inode'[g].open_cnt = 0 => inode'[g] = Closed
    BY <1>2, <1>8, <1>10 DEF Inv, Openers
  <2>2. \A g \in named' : ~inode'[g].removed
    BY <1>1, <1>8, <1>9, <1>10, <1>13 DEF Inv, Openers, Typed
  <2>3. \A g \in Files : inode'[g].open_cnt > 0 /\ g \notin named' => inode'[g].removed
    BY <1>8, <1>9, <1>10, <1>13 DEF Inv, Openers
  <2> QED
    BY <2>1, <2>2, <2>3 DEF Openers
<1>16. Writing'
  BY <1>2, <1>8, <1>10, <1>11 DEF Writing
<1>17. \A g : g \in LiveFiles' <=> g \in LiveFiles
  BY <1>8, <1>9, <1>10, <1>13 DEF LiveFiles, Live
<1>18. Sound(free_map, disk, LiveFiles, InodeOf)
  BY DEF Inv, Trees
<1>19. \A g \in LiveFiles : /\ \A s \in FInner(disk, InodeOf[g]) : disk'[s] = disk[s]
                            /\ GoodFile(free_map, disk, InodeOf[g])
  <2> SUFFICES ASSUME NEW g \in LiveFiles, NEW s \in FInner(disk, InodeOf[g])
               PROVE  disk'[s] = disk[s]
    BY FileIs
  <2>1. s \in FNodes(disk, InodeOf[g])
    BY FileIs, GoodFileSectors
  <2>2. s \in Sector /\ s \notin LiveFiles
    BY <2>1, FileIs
  <2> QED
    BY <1>2, <1>10, <2>2
<1>20. Sound(free_map, disk', LiveFiles, InodeOf) /\ SameFile(disk, disk', InodeOf[f])
  BY <1>2, <1>10, <1>18, <1>19, SoundWritten
<1>21. (InodeOf')[f] = b /\ \A g \in LiveFiles \ {f} : (InodeOf')[g] = InodeOf[g]
  <2>1. LiveFiles \subseteq Sector
    BY <1>1, LiveAre
  <2> QED
    BY <1>2, <1>8, <1>10, <2>1 DEF InodeOf, Data
<1>22. Reach(disk', InodeOf[f], bytes_to_sectors(b[Length]))
  BY <1>2, <1>5, <1>6, <1>20, SectorsNat DEF SameFile
<1>23. Trees'
  <2>1. Sound(free_map, disk', LiveFiles, InodeOf')
    BY <1>2, <1>5, <1>20, <1>21, <1>22, SoundLength
  <2>2. LiveFiles' = LiveFiles
    BY <1>17
  <2> QED
    BY <1>9, <2>1, <2>2 DEF Trees
<1>24. OnDisk'
  <2> SUFFICES ASSUME NEW g \in Files, inode'[g].open_cnt > 0
               PROVE  OlderThan(disk', disk'[g], inode'[g].data)
    BY DEF OnDisk
  <2>1. CASE g = f
    <3>1. Reach(disk', b, bytes_to_sectors(b[Length]))
      BY <1>2, <1>17, <1>20, <1>21, <1>23 DEF Trees, Sound, GoodFile
    <3> QED
      BY <1>8, <1>10, <2>1, <3>1 DEF OlderThan
  <2>2. CASE g # f
    <3>1. /\ disk'[g] = disk[g] /\ inode'[g] = inode[g] /\ g \in LiveFiles
          /\ disk[g] \in Block /\ InodeOf[g] = inode[g].data
      BY <1>1, <1>10, <1>13, <2>2, LiveAre
    <3>2. OlderThan(disk, disk[g], inode[g].data)
      BY <2>2, <3>1 DEF Inv, OnDisk
    <3>3. OlderThan(disk', disk[g], inode[g].data)
      BY <1>10, <1>19, <3>1, <3>2, OlderKept
    <3> QED
      BY <3>1, <3>3
  <2> QED
    BY <2>1, <2>2
<1>25. ASSUME Exactly, ~failed
       PROVE  Exact(free_map, disk', LiveFiles, InodeOf', Needs') /\ Entered'
  <2>1. Exact(free_map, disk, LiveFiles, InodeOf, Needs)
    BY <1>25 DEF Exactly
  <2>2. Exact(free_map, disk', LiveFiles, InodeOf, Needs)
    <3>1. \A g \in LiveFiles : Kept(disk, disk', FInner(disk, InodeOf[g]))
      BY <1>19 DEF Kept
    <3>2. Kept(InodeOf, InodeOf, LiveFiles) /\ Kept(Needs, Needs, LiveFiles) /\ disk' \in Disk
      BY <1>10 DEF Kept
    <3> QED
      BY <1>18, <2>1, <3>1, <3>2, ExactSame
  <2>3. \A q \in 0 .. Dbl : (InodeOf')[f][q] = InodeOf[f][q]
    BY <1>2, <1>5, <1>21
  <2>4. Kept(InodeOf, InodeOf', LiveFiles \ {f})
    BY <1>21 DEF Kept
  <2>5. Kept(Needs, Needs', LiveFiles)
    <3>1. LiveFiles \subseteq Sector
      BY <1>1, LiveAre
    <3>2. ASSUME NEW g \in LiveFiles PROVE (Needs')[g] = Needs[g]
      <4>1. (Needs')[g] = bytes_to_sectors((InodeOf')[g][Length])
        BY <1>11, <3>1 DEF Needs, Growing
      <4>2. CASE g = f
        <5>1. Needs[f] = bytes_to_sectors(l)
          BY <1>1, <1>2, <1>3 DEF Needs, Growing
        <5> QED
          BY <1>5, <1>21, <4>1, <4>2, <5>1
      <4>3. CASE g # f
        <5>1. Needs[g] = bytes_to_sectors(InodeOf[g][Length])
          BY <1>2, <3>1, <4>3 DEF Needs, Growing
        <5> QED
          BY <1>21, <4>1, <4>3, <5>1
      <4> QED
        BY <4>2, <4>3
    <3> QED
      BY <3>2 DEF Kept
  <2>6. Exact(free_map, disk', LiveFiles, InodeOf', Needs')
    <3>1. PICK D, D2, N, N2, d, L :
               /\ D = InodeOf /\ D2 = InodeOf' /\ N = Needs /\ N2 = Needs'
               /\ d = disk' /\ L = LiveFiles
      OBVIOUS
    <3>2. /\ Exact(free_map, d, L, D, N) /\ f \in L
          /\ \A q \in 0 .. Dbl : D2[f][q] = D[f][q]
          /\ Kept(D, D2, L \ {f}) /\ Kept(N, N2, L)
      BY <1>2, <2>2, <2>3, <2>4, <2>5, <3>1
    <3>3. Exact(free_map, d, L, D2, N2)
      BY <3>2, ExactEntries
    <3> QED
      BY <3>1, <3>3
  <2>7. Entered'
    <3> SUFFICES ASSUME NEW g \in Files, inode'[g].open_cnt > 0, NEW q \in 0 .. Dbl
                 PROVE  inode'[g].data[q] = disk'[g][q]
      BY DEF Entered
    <3>1. CASE g = f
      BY <1>8, <1>10, <3>1
    <3>2. CASE g # f
      <4>1. inode'[g] = inode[g] /\ disk'[g] = disk[g] /\ ~Growing(g)
        BY <1>2, <1>10, <1>13, <3>2 DEF Growing
      <4> QED
        BY <1>25, <4>1 DEF Exactly, Entered
    <3> QED
      BY <3>1, <3>2
  <2> QED
    BY <2>6, <2>7
<1>26. Exactly => Exactly'
  <2>1. LiveFiles' = LiveFiles
    BY <1>17
  <2> QED
    BY <1>9, <1>25, <2>1 DEF Exactly
<1> QED
  BY <1>12, <1>14, <1>15, <1>16, <1>23, <1>24, <1>26 DEF Inv

LEMMA OlderGrown ==
  ASSUME NEW m, NEW d, NEW c, GoodFile(m, d, c), NEW b \in Block, OlderThan(d, b, c),
         NEW n, NEW m2, NEW d2, NEW c2, NEW ok, FileGrown(n, m, d, c, m2, d2, c2, ok)
  PROVE  OlderThan(d2, b, c2)
<1>1. /\ \A q \in 0 .. Dbl : b[q] = 0 \/ b[q] = c[q]
      /\ \A q \in 0 .. Dbl : c[q] # 0 => c2[q] = c[q]
      /\ c2[Length] = c[Length] /\ b[Length] = c[Length] /\ b[Length] \in Nat
  BY LengthWord DEF OlderThan, FileGrown, GoodFile
<1>2. \A q \in 0 .. Dbl : b[q] # 0 => b[q] = c[q] /\ b[q] = c2[q]
  BY <1>1
<1>3. PICK k \in Nat : k = bytes_to_sectors(b[Length])
  BY <1>1, SectorsNat
<1>4. Reach(d, b, k) /\ MostBlocks \in Nat
  BY <1>3, MostBlocksNat DEF OlderThan
<1>5. ASSUME NEW i \in Nat, i < k PROVE FLeaf(d2, b, i) # 0
  <2>1. i < MostBlocks /\ FLeaf(d, b, i) # 0
    BY <1>4, <1>5 DEF Reach
  <2>2. PICK q \in 0 .. Dbl : q = Root(i) /\ HF[q] \in Heights
    BY <2>1, Roots
  <2>3. b[q] # 0
    <3>1. 0 \in Sector /\ \A j : Leaf(HF[q], d, 0, j) = 0
      BY <2>2, SystemSectors, NoTree
    <3> QED
      BY <2>1, <2>2, <3>1 DEF FLeaf
  <2>4. b[q] = c[q] /\ b[q] = c2[q]
    BY <1>2, <2>3
  <2>5. FLeaf(d, c, i) # 0
    BY <2>1, <2>2, <2>4 DEF FLeaf
  <2>6. FLeaf(d2, c2, i) # 0
    BY <2>1, <2>5 DEF FileGrown
  <2> QED
    BY <2>2, <2>4, <2>6 DEF FLeaf
<1>6. Reach(d2, b, bytes_to_sectors(b[Length]))
  BY <1>3, <1>4, <1>5 DEF Reach
<1> QED
  BY <1>1, <1>6 DEF OlderThan

\* What a write finds, and what it leaves.
LEMMA ReserveEffect ==
  ASSUME Inv, NEW f \in Files, NEW offset \in Nat, NEW size \in Nat, NEW v,
         WriteReserve(f, offset, size, v),
         byte_to_sector(disk, inode[f].data, offset + size - 1) = NoSector
  PROVE  \E b \in Block, ok \in BOOLEAN :
           /\ f \in LiveFiles /\ inode[f].open_cnt > 0 /\ inode[f].data = InodeOf[f]
           /\ FileGrown(bytes_to_sectors(offset + size), free_map, disk, InodeOf[f],
                        free_map', disk', b, ok)
           /\ disk' \in Disk
           /\ inode' = [inode EXCEPT ![f].data = b]
           /\ ok => writer' = [pc |-> "grow", sector |-> f, offset |-> offset,
                               size |-> size, value |-> v]
           /\ ~ok => writer' = Idle
           /\ failed' = (failed \/ ~ok)
           /\ named' = named /\ panic' = panic
<1>1. Typed /\ f \in Sector /\ inode[f].open_cnt > 0
  BY DEF Inv, WriteReserve, Files
<1>2. f \in LiveFiles /\ inode[f].data = InodeOf[f]
  BY <1>1, LiveAre
<1>3. PICK c : c = InodeOf[f]
  OBVIOUS
<1>4. PICK l \in Nat : l = offset + size
  OBVIOUS
<1>5. PICK r : r = inode_reserve(State(free_map, disk), c, l)
  OBVIOUS
<1>6. FileTrees(free_map, disk, c)
  BY <1>2, <1>3, FileIs
<1>7. /\ FileGrown(bytes_to_sectors(l), free_map, disk, c, r.st.map, r.st.disk, r.data, r.st.ok)
      /\ r.st \in States
  BY <1>5, <1>6, ReservedFile
<1>8. r.data \in Block
  BY <1>7, FileSectors DEF FileGrown
<1>9. /\ free_map' = r.st.map /\ disk' = r.st.disk /\ failed' = (failed \/ ~r.st.ok)
      /\ inode' = [inode EXCEPT ![f].data = r.data]
      /\ named' = named /\ panic' = panic
  BY <1>2, <1>3, <1>4, <1>5 DEF WriteReserve
<1>10. writer' = IF r.st.ok THEN [[pc |-> "chunk", sector |-> f, offset |-> offset, size |-> size,
                                    value |-> v] EXCEPT !.pc = "grow"] ELSE Idle
  BY <1>2, <1>3, <1>4, <1>5 DEF WriteReserve
<1>11. r.st.ok => writer' = [pc |-> "grow", sector |-> f, offset |-> offset, size |-> size,
                             value |-> v]
  BY <1>10
<1>12. r.st.ok \in BOOLEAN /\ r.st.disk \in Disk
  BY <1>7 DEF States
<1> QED
  BY <1>1, <1>2, <1>3, <1>4, <1>7, <1>8, <1>9, <1>10, <1>11, <1>12

LEMMA SectorsMore ==
  ASSUME NEW n \in Nat, NEW k \in Nat, n <= k
  PROVE  bytes_to_sectors(n) <= bytes_to_sectors(k)
<1>1. PICK u \in Nat \ {0} : u = NBytes
  BY SizesAssumption
<1>2. PICK i \in Nat, j \in Nat : i = bytes_to_sectors(n) /\ j = bytes_to_sectors(k)
  BY SectorsNat
<1>3. /\ \A q \in Nat : q < i <=> q * u < n
      /\ \A q \in Nat : q < j <=> q * u < k
  BY <1>1, <1>2, SectorsFor DEF bytes_to_sectors
<1>4. ASSUME j < i PROVE FALSE
  <2>1. j * u < n /\ ~(j * u < k)
    BY <1>3, <1>4
  <2>2. PICK p \in Int : p = j * u
    BY <1>1
  <2> QED
    BY <2>1, <2>2
<1> QED
  BY <1>2, <1>4

LEMMA ReserveInv ==
  ASSUME Inv, NEW f \in Files, NEW offset \in Nat, NEW size \in Nat, NEW v \in Value,
         WriteReserve(f, offset, size, v)
  PROVE  Inv' /\ (Exactly /\ offset + size # 0 => Exactly')
<1>1. Typed /\ f \in Sector /\ inode[f].open_cnt > 0
  BY DEF Inv, WriteReserve, Files
<1>2. f # 0 /\ f # 1 /\ inode[f] \in Inode /\ Files \subseteq Sector /\ LiveFiles \subseteq Sector
  BY <1>1, LiveAre
<1>3. CASE byte_to_sector(disk, inode[f].data, offset + size - 1) # NoSector
  <2>1. /\ writer' = [pc |-> "chunk", sector |-> f, offset |-> offset, size |-> size, value |-> v]
        /\ UNCHANGED << free_map, disk, inode, failed, named, panic >>
    BY <1>3 DEF WriteReserve
  <2>2. writer' \in WriteCall /\ writer'.pc = "chunk" /\ writer'.sector = f
    BY <1>1, <2>1 DEF WriteCall
  <2>3. Writing'
    BY <1>1, <2>1, <2>2 DEF Writing
  <2> QED
    <3>1. writer.pc # "grow" /\ writer'.pc # "grow"
      BY <2>2 DEF WriteReserve, Locked
    <3> QED
      BY <2>1, <2>2, <2>3, <3>1, WriterMoves
<1>4. CASE byte_to_sector(disk, inode[f].data, offset + size - 1) = NoSector
  <2> DEFINE n == bytes_to_sectors(offset + size)
  <2>1. PICK b \in Block, ok \in BOOLEAN :
           /\ f \in LiveFiles /\ inode[f].open_cnt > 0 /\ inode[f].data = InodeOf[f]
           /\ FileGrown(n, free_map, disk, InodeOf[f], free_map', disk', b, ok)
           /\ disk' \in Disk
           /\ inode' = [inode EXCEPT ![f].data = b]
           /\ ok => writer' = [pc |-> "grow", sector |-> f, offset |-> offset,
                               size |-> size, value |-> v]
           /\ ~ok => writer' = Idle
           /\ failed' = (failed \/ ~ok)
           /\ named' = named /\ panic' = panic
    BY <1>4, ReserveEffect
  <2>2. n \in Nat
    BY SectorsNat
  <2> HIDE DEF n
  <2>3. PICK i : i = [inode[f] EXCEPT !.data = b]
    OBVIOUS
  <2>4. /\ i \in Inode /\ i.open_cnt = inode[f].open_cnt /\ i.removed = inode[f].removed
        /\ i.deny_write_cnt = inode[f].deny_write_cnt /\ i.data = b
    BY <1>2, <2>3, DataSet
  <2>5. inode' = [inode EXCEPT ![f] = i]
    BY <2>1, <2>3
  <2>6. /\ inode' \in [Sector -> Inode] /\ inode'[f] = i
        /\ \A g \in Sector \ {f} : inode'[g] = inode[g]
    BY <1>1, <2>4, <2>5 DEF Typed
  <2>7. writer' \in WriteCall
    <3>1. Idle \in WriteCall
      BY SystemSectors DEF Idle, WriteCall, FREE_MAP_SECTOR
    <3>2. [pc |-> "grow", sector |-> f, offset |-> offset, size |-> size, value |-> v] \in WriteCall
      BY <1>1 DEF WriteCall
    <3> QED
      BY <2>1, <3>1, <3>2
  <2>8. FileTrees(free_map', disk', b) /\ free_map \subseteq free_map' /\ free_map' \subseteq Sector
    BY <2>1, FileSectors DEF FileGrown
  <2>9. Typed'
    BY <1>1, <2>1, <2>6, <2>7, <2>8 DEF Typed
  <2>10. Sound(free_map, disk, LiveFiles, InodeOf)
    BY DEF Inv, Trees
  <2>11. /\ \A g \in LiveFiles \ {f} : Kept(disk, disk', FNodes(disk, InodeOf[g]))
         /\ Kept(disk, disk', LiveFiles \ {0})
    BY <2>1, <2>10, OthersKept
  <2>12. \A g \in LiveFiles \ {0} : disk'[g] = disk[g]
    BY <2>11 DEF Kept
  <2>13. SystemFiles'
    <3>1. 1 \in LiveFiles /\ 1 # 0
      BY <1>1, LiveAre
    <3> QED
      BY <1>2, <2>6, <2>12, <3>1, SystemSectors DEF Inv, SystemFiles, FREE_MAP_SECTOR, ROOT_DIR_SECTOR
  <2>14. Openers'
    <3>1. \A g \in Sector : inode'[g].open_cnt = 0 => inode'[g] = Closed
      BY <1>1, <2>4, <2>6 DEF Inv, Openers
    <3>2. \A g \in named' : ~inode'[g].removed
      BY <1>1, <1>2, <2>1, <2>4, <2>6 DEF Inv, Openers, Typed
    <3>3. \A g \in Files : inode'[g].open_cnt > 0 /\ g \notin named' => inode'[g].removed
      BY <1>2, <2>1, <2>4, <2>6 DEF Inv, Openers
    <3> QED
      BY <3>1, <3>2, <3>3 DEF Openers
  <2>15. Writing'
    <3>1. CASE ok
      <4>1. writer'.pc = "grow" /\ writer'.sector = f /\ writer'.offset = offset
            /\ writer'.size = size
        BY <2>1, <3>1
      <4>2. Reach(disk', b, n)
        BY <2>1, <3>1 DEF FileGrown
      <4>3. n = bytes_to_sectors(writer'.offset + writer'.size)
        BY <4>1 DEF n
      <4>4. inode'[f].data = b /\ inode'[f].open_cnt > 0
        BY <1>1, <2>4, <2>6
      <4> QED
        BY <4>1, <4>2, <4>3, <4>4 DEF Writing
    <3>2. CASE ~ok
      BY <2>1, <3>2 DEF Writing, Idle
    <3> QED
      BY <3>1, <3>2
  <2>16. LiveFiles' = LiveFiles
    <3>1. \A g : g \in LiveFiles' <=> g \in LiveFiles
      BY <1>2, <2>1, <2>4, <2>6 DEF LiveFiles, Live
    <3> QED
      BY <3>1
  <2>17. (InodeOf')[f] = b /\ \A g \in LiveFiles \ {f} : (InodeOf')[g] = InodeOf[g]
    <3>1. (InodeOf')[f] = b
      BY <1>1, <2>4, <2>6 DEF InodeOf, Data
    <3>2. inode[0].open_cnt > 0
      BY SystemSectors, ClosedIs DEF Inv, SystemFiles, FREE_MAP_SECTOR, Closed
    <3>3. \A g \in LiveFiles \ {f} : (InodeOf')[g] = InodeOf[g]
      BY <1>2, <2>6, <2>12, <3>2 DEF InodeOf, Data
    <3> QED
      BY <3>1, <3>3
  <2>18. Trees'
    <3>1. Sound(free_map', disk', LiveFiles, InodeOf')
      BY <2>1, <2>10, <2>17, SoundGrown
    <3> QED
      BY <2>16, <3>1 DEF Trees
  <2>19. OnDisk'
    <3> SUFFICES ASSUME NEW g \in Files, inode'[g].open_cnt > 0
                 PROVE  OlderThan(disk', disk'[g], inode'[g].data)
      BY DEF OnDisk
    <3>1. inode[g].open_cnt > 0
      BY <1>1, <1>2, <2>6
    <3>2. /\ g \in LiveFiles \ {0} /\ disk[g] \in Block /\ InodeOf[g] = inode[g].data
      BY <1>1, <1>2, <3>1, LiveAre
    <3>3. /\ OlderThan(disk, disk[g], InodeOf[g]) /\ GoodFile(free_map, disk, InodeOf[g])
          /\ disk'[g] = disk[g]
      BY <2>12, <3>1, <3>2, FileIs DEF Inv, OnDisk
    <3>4. CASE g = f
      <4>1. OlderThan(disk', disk[f], b)
        BY <2>1, <3>2, <3>3, <3>4, OlderGrown
      <4> QED
        BY <2>4, <2>6, <3>3, <3>4, <4>1
    <3>5. CASE g # f
      <4>1. \A s \in FInner(disk, InodeOf[g]) : disk'[s] = disk[s]
        BY <2>11, <3>2, <3>3, <3>5, GoodFileSectors DEF Kept
      <4>2. OlderThan(disk', disk[g], InodeOf[g])
        BY <2>1, <3>2, <3>3, <4>1, OlderKept
      <4> QED
        BY <1>2, <2>6, <3>2, <3>3, <3>5, <4>2
    <3> QED
      BY <3>4, <3>5
  <2>20. ASSUME Exactly, ~failed, ok, offset + size # 0
         PROVE  Exact(free_map', disk', LiveFiles, InodeOf', Needs') /\ Entered'
    <3>1. writer.pc = "idle" /\ writer'.pc = "grow" /\ writer'.sector = f
          /\ writer'.offset = offset /\ writer'.size = size
      BY <2>1, <2>20 DEF WriteReserve, Locked
    <3>2. Exact(free_map, disk, LiveFiles, InodeOf, Needs)
      BY <2>20 DEF Exactly
    <3>3. \A g \in LiveFiles : Needs[g] = bytes_to_sectors(InodeOf[g][Length])
      BY <1>2, <3>1 DEF Needs, Growing
    <3>4. Needs[f] <= n
      <4>1. PICK c : c = InodeOf[f]
        OBVIOUS
      <4>2. PICK l \in Nat : l = c[Length]
        BY <2>1, <4>1, FileIs
      <4>3. PICK z \in Nat : z = offset + size /\ z # 0
        BY <2>20
      <4>4. l < z
        BY <1>4, <2>1, <4>1, <4>2, <4>3, PastTheEnd
      <4>5. l <= offset + size /\ offset + size \in Nat
        BY <4>2, <4>3, <4>4
      <4>6. bytes_to_sectors(l) <= n
        BY <4>5, SectorsMore DEF n
      <4> QED
        BY <2>1, <3>3, <4>1, <4>2, <4>6
    <3>5. (Needs')[f] = n
      BY <1>1, <3>1 DEF Needs, Growing, n
    <3>6. Kept(InodeOf, InodeOf', LiveFiles \ {f}) /\ Kept(Needs, Needs', LiveFiles \ {f})
      <4>1. \A g \in LiveFiles \ {f} : (Needs')[g] = Needs[g]
        BY <1>2, <2>17, <3>1, <3>3 DEF Needs, Growing
      <4> QED
        BY <2>17, <4>1 DEF Kept
    <3>7. FileGrown(n, free_map, disk, InodeOf[f], free_map', disk', b, TRUE)
      <4>1. ok = TRUE
        BY <2>20
      <4> QED
        BY <2>1, <4>1
    <3>8. Exact(free_map', disk', LiveFiles, InodeOf', Needs')
      BY <2>1, <2>2, <2>10, <2>17, <3>2, <3>4, <3>5, <3>6, <3>7, ExactGrown
    <3>9. Entered'
      <4> SUFFICES ASSUME NEW g \in Files, inode'[g].open_cnt > 0, g # f, NEW q \in 0 .. Dbl
                   PROVE  inode'[g].data[q] = disk'[g][q]
        BY <3>1 DEF Entered, Growing
      <4>1. inode'[g] = inode[g] /\ ~Growing(g)
        BY <1>2, <2>6, <3>1 DEF Growing
      <4>2. g \in LiveFiles \ {0}
        BY <1>1, <4>1, LiveAre
      <4> QED
        BY <2>12, <2>20, <4>1, <4>2 DEF Exactly, Entered
    <3> QED
      BY <3>8, <3>9
  <2>21. Exactly /\ offset + size # 0 => Exactly'
    <3>1. ~failed' => ~failed /\ ok
      BY <2>1
    <3> QED
      BY <2>16, <2>20, <3>1 DEF Exactly
  <2> QED
    BY <2>9, <2>13, <2>14, <2>15, <2>18, <2>19, <2>21 DEF Inv
<1> QED
  BY <1>3, <1>4

-------------------------------------------------------------------------------
(* The step that creates a file. *)

\* What the creation of a file of n bytes does.  f is the sector of its inode
\* and b its words, m2 and d2 the free map and the disk after inode_reserve.
Created(n, added, f, m2, d2, b, ok) ==
  /\ FileGrown(bytes_to_sectors(n), free_map \union {f}, disk, [Zeros EXCEPT ![Length] = n],
               m2, d2, b, ok)
  /\ ok /\ added => free_map' = m2 /\ named' = named \union {f}
  /\ ~(ok /\ added) => free_map' = m2 \ {f} /\ named' = named
  /\ ok => disk' = [d2 EXCEPT ![f] = b]
  /\ ~ok => disk' = d2
  /\ failed' = (failed \/ ~(ok /\ added))
  /\ writer.pc = "idle" /\ UNCHANGED << inode, writer, panic >>

LEMMA CreateEffect ==
  ASSUME Inv, NEW n \in Nat, NEW added \in BOOLEAN, filesys_create(n, added)
  PROVE  \E f \in Sector \ free_map, m2 \in SUBSET Sector, d2 \in Disk, b \in Block, ok \in BOOLEAN :
           Created(n, added, f, m2, d2, b, ok)
<1>1. free_map \in SUBSET Sector /\ disk \in Disk /\ 0 \in free_map
  BY DEF Inv, Typed, Trees, Sound
<1>2. PICK st : st = State(free_map, disk)
  OBVIOUS
<1>3. /\ st \in States /\ st.map = free_map /\ st.disk = disk /\ st.ok
  BY <1>1, <1>2 DEF State, States
<1>4. PICK a : a = free_map_allocate(st)
  OBVIOUS
<1>5. a.st.ok
  BY <1>2, <1>4 DEF filesys_create
<1>6. PICK f \in Sector \ free_map : a = Some(st, f)
  <2>1. \/ a = NoneLeft(st)
        \/ \E s \in Sector \ st.map : a = Some(st, s)
    BY <1>3, <1>4, Allocated
  <2>2. ~(a = NoneLeft(st))
    BY <1>5 DEF NoneLeft
  <2> QED
    BY <1>3, <2>1, <2>2
<1>7. PICK m \in SUBSET Sector : m = free_map \union {f}
  BY <1>1
<1>8. a.entry = f /\ a.st = State(m, disk)
  BY <1>3, <1>6, <1>7 DEF Some, State
<1>9. PICK b0 : b0 = [Zeros EXCEPT ![Length] = n]
  OBVIOUS
<1>10. PICK r : r = inode_reserve(State(m, disk), b0, n)
  OBVIOUS
<1>11. FileTrees(m, disk, b0)
  BY <1>1, <1>7, <1>9, EmptyFile
<1>12. /\ FileGrown(bytes_to_sectors(n), m, disk, b0, r.st.map, r.st.disk, r.data, r.st.ok)
       /\ r.st \in States
  BY <1>10, <1>11, ReservedFile
<1>13. r.data \in Block /\ r.st.disk \in Disk /\ r.st.ok \in BOOLEAN
  BY <1>12, FileSectors DEF FileGrown, States
<1> DEFINE success == r.st.ok /\ added
<1>14. /\ writer.pc = "idle"
       /\ free_map' = IF success THEN r.st.map ELSE r.st.map \ {f}
       /\ disk' = IF r.st.ok THEN [r.st.disk EXCEPT ![f] = r.data] ELSE r.st.disk
       /\ named' = IF success THEN named \union {f} ELSE named
       /\ failed' = (failed \/ ~success)
       /\ UNCHANGED << inode, writer, panic >>
  <2>1. filesys_create(n, added) =>
          LET aa == free_map_allocate(State(free_map, disk))
              ff == aa.entry
              rr == inode_reserve(aa.st, [Zeros EXCEPT ![Length] = n], n)
              ss == rr.st.ok /\ added
          IN  /\ Locked
              /\ free_map' = IF ss THEN rr.st.map ELSE rr.st.map \ {ff}
              /\ disk' = IF rr.st.ok THEN [rr.st.disk EXCEPT ![ff] = rr.data] ELSE rr.st.disk
              /\ named' = IF ss THEN named \union {ff} ELSE named
              /\ failed' = (failed \/ ~ss)
              /\ UNCHANGED << inode, writer, panic >>
    BY Zenon DEF filesys_create
  <2> QED
    BY <1>2, <1>4, <1>8, <1>9, <1>10, <2>1 DEF Locked
<1>15. FileGrown(bytes_to_sectors(n), free_map \union {f}, disk, [Zeros EXCEPT ![Length] = n],
                 r.st.map, r.st.disk, r.data, r.st.ok)
  BY <1>7, <1>9, <1>12
<1>16. /\ r.st.ok /\ added => free_map' = r.st.map /\ named' = named \union {f}
       /\ ~(r.st.ok /\ added) => free_map' = r.st.map \ {f} /\ named' = named
       /\ r.st.ok => disk' = [r.st.disk EXCEPT ![f] = r.data]
       /\ ~r.st.ok => disk' = r.st.disk
       /\ failed' = (failed \/ ~(r.st.ok /\ added))
       /\ writer.pc = "idle" /\ UNCHANGED << inode, writer, panic >>
  BY <1>14
<1>17. Created(n, added, f, r.st.map, r.st.disk, r.data, r.st.ok)
  BY <1>15, <1>16 DEF Created
<1> QED
  BY <1>6, <1>12, <1>13, <1>17 DEF States

LEMMA CreateInv ==
  ASSUME Inv, NEW n \in Nat, NEW added \in BOOLEAN, filesys_create(n, added)
  PROVE  Inv' /\ (Exactly => Exactly')
<1>1. PICK f \in Sector \ free_map, m2 \in SUBSET Sector, d2 \in Disk, b \in Block, ok \in BOOLEAN :
        /\ FileGrown(bytes_to_sectors(n), free_map \union {f}, disk,
                     [Zeros EXCEPT ![Length] = n], m2, d2, b, ok)
        /\ ok /\ added => free_map' = m2 /\ named' = named \union {f}
        /\ ~(ok /\ added) => free_map' = m2 \ {f} /\ named' = named
        /\ ok => disk' = [d2 EXCEPT ![f] = b]
        /\ ~ok => disk' = d2
        /\ failed' = (failed \/ ~(ok /\ added))
        /\ writer.pc = "idle" /\ UNCHANGED << inode, writer, panic >>
  <2>1. PICK f \in Sector \ free_map, m2 \in SUBSET Sector, d2 \in Disk, b \in Block, ok \in BOOLEAN :
          Created(n, added, f, m2, d2, b, ok)
    BY CreateEffect
  <2> QED
    BY <2>1 DEF Created
<1>2. PICK b0 : b0 = [Zeros EXCEPT ![Length] = n]
  OBVIOUS
<1>3. PICK k : k = bytes_to_sectors(n)
  OBVIOUS
<1>4. FileGrown(k, free_map \union {f}, disk, b0, m2, d2, b, ok)
  BY <1>1, <1>2, <1>3
<1>5. /\ Typed /\ free_map \in SUBSET Sector /\ disk \in Disk /\ 0 \in free_map
      /\ LiveFiles \subseteq free_map
      /\ Sound(free_map, disk, LiveFiles, InodeOf)
  BY DEF Inv, Typed, Trees, Sound
<1>6. f \notin LiveFiles /\ f \in Files /\ f \in Sector /\ f # 0 /\ f # 1
      /\ Files \subseteq Sector
  BY <1>5, LiveAre
<1>7. /\ disk' \in Disk /\ Kept(d2, disk', Sector \ {f})
      /\ ok => disk'[f] = b /\ \A s \in Sector \ {f} : disk'[s] = d2[s]
  <2>1. CASE ok
    <3>1. disk' = [d2 EXCEPT ![f] = b]
      BY <1>1, <2>1
    <3> QED
      BY <1>6, <3>1 DEF Disk, Kept
  <2>2. CASE ~ok
    BY <1>1, <2>2 DEF Kept
  <2> QED
    BY <2>1, <2>2
<1>8. Kept(disk, disk', free_map \ {0})
  BY <1>2, <1>4, <1>5, <1>7, NewKept
<1>9. /\ Kept(disk, disk', LiveFiles \ {0})
      /\ \A g \in LiveFiles : Kept(disk, disk', FInner(disk, InodeOf[g]))
  <2>1. \A g \in LiveFiles : \A s \in FInner(disk, InodeOf[g]) : s \in free_map \ {0}
    BY FileIs, GoodFileSectors
  <2> QED
    BY <1>5, <1>8, <2>1 DEF Kept
<1>10. FileTrees(m2, d2, b) /\ free_map \subseteq m2 /\ m2 \in SUBSET Sector
  <2>1. FileTrees(m2, d2, b) /\ free_map \union {f} \subseteq m2
    BY <1>4 DEF FileGrown
  <2> QED
    BY <2>1, FileSectors
<1>11. free_map' \in SUBSET Sector /\ free_map \subseteq free_map' /\ inode' = inode
  <2>1. free_map' = m2 \/ free_map' = m2 \ {f}
    BY <1>1
  <2> QED
    BY <1>1, <1>10, <2>1
<1>12. /\ SystemFiles' /\ OnDisk'
       /\ Sound(free_map', disk', LiveFiles, InodeOf')
       /\ \A g \in LiveFiles : (InodeOf')[g] = InodeOf[g]
  BY <1>7, <1>9, <1>11, SameFiles
<1>13. Typed'
  <2>1. named' \in SUBSET Files
    BY <1>1, <1>5, <1>6 DEF Typed
  <2>2. failed' \in BOOLEAN
    BY <1>1, <1>5 DEF Typed
  <2> QED
    BY <1>1, <1>5, <1>7, <1>11, <2>1, <2>2 DEF Typed
<1>14. Writing'
  BY <1>1 DEF Writing
<1>15. inode[f].open_cnt = 0 /\ inode[f] = Closed
  <2>1. inode[f].open_cnt \in Nat /\ ~(inode[f].open_cnt > 0)
    BY <1>5, <1>6, LiveAre
  <2>2. inode[f].open_cnt = 0
    BY <2>1
  <2> QED
    BY <1>6, <2>2 DEF Inv, Openers
<1>16. Openers'
  <2>1. \A g \in named' : g = f \/ g \in named
    BY <1>1
  <2>2. ~inode[f].removed
    BY <1>15, ClosedIs
  <2>3. \A g \in named : g \in named'
    BY <1>1
  <2> QED
    BY <1>11, <2>1, <2>2, <2>3 DEF Inv, Openers
<1>17. Trees'
  <2>1. CASE ok /\ added
    <3>1. \A g : g \in LiveFiles' <=> g \in LiveFiles \union {f}
      <4>1. named' = named \union {f}
        BY <1>1, <2>1
      <4> QED
        BY <1>6, <1>11, <4>1 DEF LiveFiles, Live
    <3>2. (InodeOf')[f] = b
      <4>1. ~(inode'[f].open_cnt > 0) /\ disk'[f] = b
        BY <1>7, <1>11, <1>15, <2>1
      <4> QED
        BY <1>6, <4>1 DEF InodeOf, Data
    <3>3. FileGrown(k, free_map \union {f}, disk, b0, m2, d2, b, TRUE)
      <4>1. ok = TRUE
        BY <2>1
      <4> QED
        BY <1>4, <4>1
    <3>4. Sound(m2, disk', LiveFiles \union {f}, InodeOf')
      <4>1. Kept(InodeOf, InodeOf', LiveFiles)
        BY <1>12 DEF Kept
      <4> QED
        BY <1>2, <1>3, <1>5, <1>7, <3>2, <3>3, <4>1, SoundNew
    <3>5. LiveFiles' = LiveFiles \union {f} /\ free_map' = m2
      BY <1>1, <2>1, <3>1
    <3> QED
      BY <3>4, <3>5 DEF Trees
  <2>2. CASE ~(ok /\ added)
    <3>1. named' = named
      BY <1>1, <2>2
    <3>2. LiveFiles' = LiveFiles
      BY <1>11, <3>1 DEF LiveFiles, Live
    <3> QED
      BY <1>12, <3>2 DEF Trees
  <2> QED
    BY <2>1, <2>2
<1>18. ASSUME Exactly, ~failed, ok, added
       PROVE  Exact(free_map', disk', LiveFiles', InodeOf', Needs') /\ Entered'
  <2>1. free_map' = m2 /\ named' = named \union {f}
    BY <1>1, <1>18
  <2>2. LiveFiles' = LiveFiles \union {f}
    <3>1. \A g : g \in LiveFiles' <=> g \in LiveFiles \union {f}
      BY <1>6, <1>11, <2>1 DEF LiveFiles, Live
    <3> QED
      BY <3>1
  <2>3. (InodeOf')[f] = b
    <3>1. ~(inode'[f].open_cnt > 0) /\ disk'[f] = b
      BY <1>7, <1>11, <1>15, <1>18
    <3> QED
      BY <1>6, <3>1 DEF InodeOf, Data
  <2>4. b[Length] = n
    <3>1. b0[Length] = n
      BY <1>2, ZerosBlock, LengthWord DEF Block
    <3> QED
      BY <1>4, <3>1, LengthWord DEF FileGrown
  <2>5. (Needs')[f] = k
    BY <1>1, <1>3, <1>6, <2>3, <2>4 DEF Needs, Growing
  <2>6. Kept(InodeOf, InodeOf', LiveFiles) /\ Kept(Needs, Needs', LiveFiles)
    <3>1. LiveFiles \subseteq Sector
      BY <1>5, LiveAre
    <3>2. \A g \in LiveFiles : (Needs')[g] = Needs[g]
      BY <1>1, <1>12, <3>1 DEF Needs, Growing
    <3> QED
      BY <1>12, <3>2 DEF Kept
  <2>7. FileGrown(k, free_map \union {f}, disk, b0, m2, d2, b, TRUE)
    <3>1. ok = TRUE
      BY <1>18
    <3> QED
      BY <1>4, <3>1
  <2>8. Exact(free_map, disk, LiveFiles, InodeOf, Needs) /\ k \in Nat
    BY <1>3, <1>18, SectorsNat DEF Exactly
  <2>9. Exact(m2, disk', LiveFiles \union {f}, InodeOf', Needs')
    BY <1>2, <1>5, <1>7, <2>3, <2>5, <2>6, <2>7, <2>8, ExactNew
  <2>10. Entered'
    <3> SUFFICES ASSUME NEW g \in Files, inode[g].open_cnt > 0, NEW q \in 0 .. Dbl
                 PROVE  inode[g].data[q] = disk'[g][q]
      BY <1>11 DEF Entered
    <3>1. g \in LiveFiles \ {0}
      BY <1>5, LiveAre
    <3>2. disk'[g] = disk[g]
      BY <1>9, <3>1 DEF Kept
    <3>3. ~Growing(g)
      BY <1>1 DEF Growing
    <3> QED
      BY <1>18, <3>2, <3>3 DEF Exactly, Entered
  <2> QED
    BY <2>1, <2>2, <2>9, <2>10
<1>19. Exactly => Exactly'
  <2>1. ~failed' => ~failed /\ ok /\ added
    BY <1>1
  <2> QED
    BY <1>18, <2>1 DEF Exactly
<1> QED
  BY <1>12, <1>13, <1>14, <1>16, <1>17, <1>19 DEF Inv

LEMMA InitExactly == Init => Exactly
<1> SUFFICES ASSUME Init PROVE Exactly
  OBVIOUS
<1>0. /\ {0, 1, 2, 3} \subseteq Sector /\ FREE_MAP_SECTOR = 0 /\ ROOT_DIR_SECTOR = 1
      /\ Files = Sector \ {0, 1} /\ Inv
  BY SystemSectors, InitInv DEF Files
<1>1. \A f \in Files : ~(inode[f].open_cnt > 0)
  <2>1. \A f \in Files : inode[f] = Closed
    BY <1>0 DEF Init
  <2> QED
    BY <2>1, ClosedIs
<1>2. Entered
  BY <1>1 DEF Entered
<1>3. LiveFiles = {0, 1}
  BY <1>0, <1>1 DEF LiveFiles, Live, Init
<1>4. InodeOf[0] = SystemInode(2, 1) /\ InodeOf[1] = SystemInode(3, 1)
  <2>1. inode[0].data = SystemInode(2, 1) /\ inode[0].open_cnt = 1 /\ inode[1].open_cnt = 0
        /\ disk[1] = SystemInode(3, 1)
    BY <1>0, ClosedIs, InitInv DEF Inv, SystemFiles, Closed
  <2>2. inode[0].open_cnt > 0 /\ ~(inode[1].open_cnt > 0)
    BY <2>1
  <2> QED
    BY <1>0, <2>1, <2>2 DEF InodeOf, Data
<1>5. /\ free_map = {0, 1, 2, 3} /\ free_map \in SUBSET Sector /\ disk \in Disk
  BY <1>0 DEF Init, Inv, Typed
<1>6. /\ \A s : s \in FNodes(disk, InodeOf[0]) <=> s = 2
      /\ FTrim(disk, InodeOf[0], bytes_to_sectors(1))
  BY <1>4, <1>5, OneBlock
<1>7. /\ \A s : s \in FNodes(disk, InodeOf[1]) <=> s = 3
      /\ FTrim(disk, InodeOf[1], bytes_to_sectors(1))
  BY <1>4, <1>5, OneBlock
<1>8. /\ Needs[0] = bytes_to_sectors(1) /\ Needs[0] \in Nat
      /\ Needs[1] = bytes_to_sectors(1) /\ Needs[1] \in Nat
  <2>1. SystemInode(2, 1)[Length] = 1 /\ SystemInode(3, 1)[Length] = 1
    BY <1>0, SystemInodeIs
  <2>2. ~Growing(0) /\ ~Growing(1)
    BY DEF Init, Idle, Growing
  <2> QED
    BY <1>0, <1>3, <1>4, <2>1, <2>2, NeedsAre
<1>9. Exact(free_map, disk, LiveFiles, InodeOf, Needs)
  BY <1>3, <1>5, <1>6, <1>7, <1>8 DEF Exact
<1> QED
  BY <1>2, <1>9 DEF Exactly

-------------------------------------------------------------------------------
\* What every step does.
LEMMA Steps ==
  ASSUME Inv, [Next]_vars
  PROVE  Inv' /\ (Exactly /\ << 0, 0 >> \notin Writes => Exactly')
<1> DEFINE Kept0 == Inv' /\ (Exactly /\ << 0, 0 >> \notin Writes => Exactly')
<1>1. ASSUME NEW n \in Lengths, NEW added \in BOOLEAN, filesys_create(n, added) PROVE Kept0
  <2>1. n \in Nat
    BY SizesAssumption
  <2> QED
    BY <1>1, <2>1, CreateInv
<1>2. ASSUME NEW f \in Files, inode_open(f) PROVE Kept0
  BY <1>2, OpenInv
<1>3. ASSUME NEW f \in Files, NEW denying \in BOOLEAN, inode_close(f, denying) PROVE Kept0
  BY <1>3, CloseInv
<1>4. ASSUME NEW f \in Files, inode_remove(f) PROVE Kept0
  BY <1>4, RemoveInv
<1>5. ASSUME NEW f \in Files, inode_deny_write(f) PROVE Kept0
  BY <1>5, DenyInv
<1>6. ASSUME NEW f \in Files, NEW w \in Writes, NEW v \in Value, WriteReserve(f, w[1], w[2], v)
      PROVE Kept0
  <2>1. w[1] \in Nat /\ w[2] \in Nat /\ w = << w[1], w[2] >>
    BY SizesAssumption
  <2>2. << 0, 0 >> \notin Writes => w[1] + w[2] # 0
    <3>1. w[1] + w[2] = 0 => w[1] = 0 /\ w[2] = 0
      BY <2>1
    <3> QED
      BY <2>1, <3>1
  <2> QED
    BY <1>6, <2>1, <2>2, ReserveInv
<1>7. CASE WriteLength
  BY <1>7, LengthInv
<1>8. CASE WriteChunk
  BY <1>8, ChunkInv
<1>9. CASE UNCHANGED vars
  <2>1. UNCHANGED << free_map, disk, named, inode, writer, failed, panic >>
    BY <1>9 DEF vars
  <2>2. writer' \in WriteCall /\ Writing'
    BY <2>1 DEF Inv, Typed, Writing
  <2> QED
    BY <2>1, <2>2, WriterMoves
<1> QED
  BY <1>1, <1>2, <1>3, <1>4, <1>5, <1>6, <1>7, <1>8, <1>9 DEF Next

LEMMA SpecInv == Spec => []Inv
<1>1. Init => Inv
  BY InitInv
<1>2. Inv /\ [Next]_vars => Inv'
  BY Steps
<1> QED
  BY <1>1, <1>2, PTL DEF Spec

LEMMA SpecExactly == ASSUME << 0, 0 >> \notin Writes PROVE Spec => []Exactly
<1>1. Init => Inv /\ Exactly
  BY InitInv, InitExactly
<1>2. Inv /\ Exactly /\ [Next]_vars => Inv' /\ Exactly'
  BY Steps
<1> QED
  BY <1>1, <1>2, PTL DEF Spec

-------------------------------------------------------------------------------
(* What belongs to a file. *)

LEMMA IndexBlocksAre ==
  ASSUME Inv, NEW f \in LiveFiles
  PROVE  \A s \in IndexBlocks(f) : s \in FInner(disk, InodeOf[f])
<1>1. PICK b : b = InodeOf[f]
  OBVIOUS
<1>2. PICK n \in Nat : n = bytes_to_sectors(b[Length])
  BY <1>1, FileIs
<1>3. /\ b = Data(f) /\ Reach(disk, b, n) /\ MostBlocks \in Nat
  <2>1. f \in Sector
    BY LiveAre DEF Inv
  <2> QED
    BY <1>1, <1>2, <2>1, FileIs, MostBlocksNat DEF InodeOf
<1>4. PICK p \in Nat \ {0} : p = NIndex * NIndex
  BY FileSizes
<1>5. /\ NDirect \in Nat \ {0} /\ NIndex \in Nat \ {0} /\ Ind = NDirect /\ Dbl = NDirect + 1
      /\ HF[Ind] = 1 /\ HF[Dbl] = 2 /\ Ind \in 0 .. Dbl /\ Dbl \in 0 .. Dbl
      /\ MostBlocks = NDirect + NIndex + p
  BY <1>4, FileSizes DEF MostBlocks
<1>6. \A i \in Nat : i < n => i < MostBlocks /\ FLeaf(disk, b, i) # 0
  BY <1>3 DEF Reach
<1>7. ASSUME n > NDirect PROVE b[Ind] \in FInner(disk, b)
  <2>1. FLeaf(disk, b, NDirect) # 0
    BY <1>5, <1>6, <1>7
  <2>2. Root(NDirect) = Ind
    BY <1>5 DEF Root
  <2>3. b[Ind] # 0
    BY <1>5, <2>1, <2>2 DEF FLeaf, Leaf, Leaf1
  <2>4. b[Ind] \in Inner(HF[Ind], disk, b[Ind])
    BY <1>5, <2>3 DEF Inner, Inner1
  <2> QED
    BY <1>5, <2>4 DEF FInner
<1>8. ASSUME NEW i \in Nat, i >= NDirect + NIndex, i < n,
             NEW k, k = (i - NDirect - NIndex) \div NIndex
      PROVE  b[Dbl] \in FInner(disk, b) /\ disk[b[Dbl]][k] \in FInner(disk, b)
  <2>1. PICK j \in Nat : j = i - NDirect - NIndex
    BY <1>5, <1>8
  <2>2. FLeaf(disk, b, i) # 0 /\ j < p
    BY <1>5, <1>6, <1>8, <2>1
  <2>3. Root(i) = Dbl /\ Base(Dbl) = NDirect + NIndex /\ i - (NDirect + NIndex) = j
    BY <1>5, <1>8, <2>1 DEF Root, Base
  <2>4. Leaf2(disk, b[Dbl], j) # 0
    BY <1>5, <2>2, <2>3 DEF FLeaf, Leaf
  <2>5. b[Dbl] # 0 /\ Leaf1(disk, disk[b[Dbl]][k], j % NIndex) # 0
    BY <1>8, <2>1, <2>4 DEF Leaf2
  <2>6. disk[b[Dbl]][k] # 0
    BY <2>5 DEF Leaf1
  <2>7. k \in Entries
    <3>1. j < NIndex * NIndex
      BY <1>4, <2>2
    <3>2. j \div NIndex < NIndex /\ j \div NIndex \in Nat
      BY <1>5, <2>1, <3>1, QuotientBelow, Quotient
    <3> QED
      BY <1>5, <1>8, <2>1, <3>2 DEF Entries
  <2>8. disk[b[Dbl]][k] \in Inner1(disk, disk[b[Dbl]][k])
    BY <2>6 DEF Inner1
  <2>9. b[Dbl] \in Inner2(disk, b[Dbl]) /\ disk[b[Dbl]][k] \in Inner2(disk, b[Dbl])
    BY <2>5, <2>7, <2>8 DEF Inner2
  <2>10. b[Dbl] \in Inner(HF[Dbl], disk, b[Dbl]) /\ disk[b[Dbl]][k] \in Inner(HF[Dbl], disk, b[Dbl])
    BY <1>5, <2>9 DEF Inner
  <2> QED
    BY <1>5, <2>10 DEF FInner
<1>9. ASSUME NEW s \in IndexBlocks(f) PROVE s \in FInner(disk, b)
  <2>1. \/ n > NDirect /\ s = b[Ind]
        \/ n > NDirect + NIndex /\ s = b[Dbl]
        \/ /\ n > NDirect + NIndex
           /\ \E i \in NDirect + NIndex .. n - 1 :
                s = disk[b[Dbl]][(i - NDirect - NIndex) \div NIndex]
    <3>1. s \in (IF n > NDirect THEN {b[Ind]} ELSE {}) \union
                (IF n > NDirect + NIndex
                   THEN {b[Dbl]} \union
                        {disk[b[Dbl]][(i - NDirect - NIndex) \div NIndex] :
                           i \in NDirect + NIndex .. n - 1}
                   ELSE {})
      BY <1>2, <1>3, <1>9 DEF IndexBlocks
    <3> QED
      BY <3>1
  <2>2. CASE n > NDirect /\ s = b[Ind]
    BY <1>7, <2>2
  <2>3. CASE n > NDirect + NIndex /\ s = b[Dbl]
    <3>1. NDirect + NIndex \in Nat /\ NDirect + NIndex < n
      BY <1>5, <2>3
    <3> QED
      BY <1>8, <2>3, <3>1
  <2>4. ASSUME NEW i \in NDirect + NIndex .. n - 1,
               s = disk[b[Dbl]][(i - NDirect - NIndex) \div NIndex]
        PROVE  s \in FInner(disk, b)
    <3>1. i \in Nat /\ i >= NDirect + NIndex /\ i < n
      BY <1>5
    <3>2. PICK k : k = (i - NDirect - NIndex) \div NIndex
      OBVIOUS
    <3> QED
      BY <1>8, <2>4, <3>1, <3>2
  <2> QED
    BY <2>1, <2>2, <2>3, <2>4
<1> QED
  BY <1>1, <1>9

\* The sectors of a file are its inode and its blocks, no two the same.
LEMMA OwnedOnce ==
  ASSUME Inv, NEW f \in LiveFiles
  PROVE  /\ \A s \in Owned(f) : s = f \/ s \in FNodes(disk, InodeOf[f])
         /\ Cardinality(Owned(f)) =
              1 + Cardinality(DOMAIN DataBlocks(f)) + Cardinality(IndexBlocks(f))
<1>1. PICK b : b = InodeOf[f]
  OBVIOUS
<1>2. PICK n \in Nat : n = bytes_to_sectors(b[Length])
  BY <1>1, FileIs
<1>3. /\ b = Data(f) /\ Reach(disk, b, n) /\ MostBlocks \in Nat
      /\ FileTrees(free_map, disk, b) /\ f \in Sector
  <2>1. f \in Sector
    BY LiveAre DEF Inv
  <2> QED
    BY <1>1, <1>2, <2>1, FileIs, MostBlocksNat DEF InodeOf
<1> DEFINE S == 0 .. n - 1
           g == DataBlocks(f)
           A == {g[i] : i \in S}
           B == IndexBlocks(f)
<1>4. g = [i \in S |-> index_to_sector(disk, b, i)]
  BY <1>2, <1>3 DEF DataBlocks
<1>5. DOMAIN g = S /\ \A i \in S : g[i] = index_to_sector(disk, b, i)
  BY <1>4
<1> HIDE DEF g
<1>6. \A i \in S : /\ i \in Nat /\ i < n /\ i < MostBlocks /\ FLeaf(disk, b, i) # 0
                   /\ g[i] = FLeaf(disk, b, i)
  <2> SUFFICES ASSUME NEW i \in S
               PROVE  /\ i \in Nat /\ i < n /\ i < MostBlocks /\ FLeaf(disk, b, i) # 0
                      /\ g[i] = FLeaf(disk, b, i)
    OBVIOUS
  <2>1. i \in Nat /\ i < n
    BY <1>2
  <2>2. i < MostBlocks /\ FLeaf(disk, b, i) # 0
    BY <1>3, <2>1 DEF Reach
  <2>3. PICK l : l = index_to_sector(disk, b, i)
    OBVIOUS
  <2>4. l = FLeaf(disk, b, i)
    BY <2>1, <2>2, <2>3, SectorOfIndex
  <2> QED
    BY <1>5, <2>1, <2>2, <2>3, <2>4
<1>7. \A i \in S : /\ g[i] \in FNodes(disk, b) /\ g[i] \notin FInner(disk, b)
                   /\ g[i] \in Sector
                   /\ \A j \in S : j # i => g[j] # g[i]
  BY <1>3, <1>6, FileLeaf
<1>8. \A s \in B : s \in FInner(disk, b)
  BY <1>1, IndexBlocksAre
<1>9. \A s \in FInner(disk, b) : s \in FNodes(disk, b)
  BY <1>3, FileSectors
<1>10. f \notin FNodes(disk, b) /\ \A s \in FNodes(disk, b) : s \in Sector
  BY <1>1, FileIs
<1>11. IsFiniteSet(Sector)
  <2>1. NSectors - 1 \in Int
    BY SizesAssumption
  <2> QED
    BY <2>1, FS_Interval DEF Sector
<1>12. A \in SUBSET Sector /\ B \in SUBSET Sector
  BY <1>7, <1>8, <1>9, <1>10
<1>13. IsFiniteSet(A) /\ IsFiniteSet(B)
  BY <1>11, <1>12, FS_Subset
<1>14. IsFiniteSet(S)
  <2>1. n - 1 \in Int
    OBVIOUS
  <2> QED
    BY <2>1, FS_Interval
<1>15. Cardinality(A) = Cardinality(S)
  <2>1. g \in Surjection(S, A)
    BY <1>4, <1>5 DEF Surjection, g
  <2>2. g \in Injection(S, A)
    <3>1. g \in [S -> A] /\ \A i, j \in S : g[i] = g[j] => i = j
      BY <1>4, <1>5, <1>7 DEF g
    <3> QED
      BY <3>1 DEF Injection, IsInjective
  <2> HIDE DEF S, A
  <2> QED
    BY <1>14, <2>1, <2>2, FS_Surjection
<1>16. A \intersect B = {} /\ f \notin A /\ f \notin B
  BY <1>7, <1>8, <1>9, <1>10
<1>17. Owned(f) = {f} \union A \union B
  BY <1>5 DEF Owned, g
<1> HIDE DEF A, B, S
<1>18. IsFiniteSet(A \union B)
       /\ Cardinality(A \union B) = Cardinality(A) + Cardinality(B)
  <2>1. Cardinality(A \intersect B) = 0
    BY <1>16, FS_EmptySet
  <2>2. Cardinality(A) \in Nat /\ Cardinality(B) \in Nat
    BY <1>13, FS_CardinalityType
  <2> QED
    <3>1. /\ IsFiniteSet(A \union B)
          /\ Cardinality(A \union B) = Cardinality(A) + Cardinality(B) - Cardinality(A \intersect B)
      BY <1>13, FS_Union
    <3> QED
      BY <2>1, <2>2, <3>1
<1>19. Cardinality((A \union B) \union {f}) = Cardinality(A \union B) + 1
  BY <1>16, <1>18, FS_AddElement
<1>20. Cardinality(Owned(f)) = 1 + Cardinality(S) + Cardinality(B)
  <2>1. Owned(f) = (A \union B) \union {f}
    BY <1>17
  <2>2. Cardinality(A) \in Nat /\ Cardinality(B) \in Nat
    BY <1>13, FS_CardinalityType
  <2> QED
    BY <1>15, <1>18, <1>19, <2>1, <2>2
<1>21. \A s \in Owned(f) : s = f \/ s \in FNodes(disk, b)
  BY <1>7, <1>8, <1>9, <1>17 DEF A
<1> QED
  BY <1>1, <1>5, <1>20, <1>21 DEF B, g

LEMMA NothingShared == Inv => NoSharedSector
<1> SUFFICES ASSUME Inv PROVE NoSharedSector
  OBVIOUS
<1>1. ASSUME NEW f \in LiveFiles
      PROVE  /\ Owned(f) \subseteq free_map
             /\ Cardinality(Owned(f)) =
                  1 + Cardinality(DOMAIN DataBlocks(f)) + Cardinality(IndexBlocks(f))
  <2>1. \A s \in Owned(f) : s \in free_map
    BY OwnedOnce, FileIs
  <2> QED
    BY <2>1, OwnedOnce
<1>2. ASSUME NEW f \in LiveFiles, NEW g \in LiveFiles, f # g
      PROVE  Owned(f) \intersect Owned(g) = {}
  <2>1. /\ \A s \in Owned(f) : s = f \/ s \in FNodes(disk, InodeOf[f])
        /\ \A s \in Owned(g) : s = g \/ s \in FNodes(disk, InodeOf[g])
    BY OwnedOnce
  <2>2. /\ \A s \in FNodes(disk, InodeOf[f]) : s \notin LiveFiles
        /\ \A s \in FNodes(disk, InodeOf[g]) : s \notin LiveFiles
        /\ \A s \in FNodes(disk, InodeOf[f]) : s \notin FNodes(disk, InodeOf[g])
    BY <1>2 DEF Inv, Trees, Sound
  <2> QED
    BY <1>2, <2>1, <2>2
<1> QED
  BY <1>1, <1>2 DEF NoSharedSector

\* With no block too many, these are all its sectors.
LEMMA OwnedAll ==
  ASSUME Inv, NEW f \in LiveFiles,
         FTrim(disk, InodeOf[f], bytes_to_sectors(InodeOf[f][Length]))
  PROVE  \A s \in FNodes(disk, InodeOf[f]) : s \in Owned(f)
<1>1. PICK b : b = InodeOf[f]
  OBVIOUS
<1>2. PICK n \in Nat : n = bytes_to_sectors(b[Length])
  BY <1>1, FileIs
<1>3. /\ b = Data(f) /\ Reach(disk, b, n) /\ MostBlocks \in Nat /\ FTrim(disk, b, n)
      /\ FileTrees(free_map, disk, b)
  <2>1. f \in Sector
    BY LiveAre DEF Inv
  <2> QED
    BY <1>1, <1>2, <2>1, FileIs, MostBlocksNat DEF InodeOf
<1>4. /\ NDirect \in Nat \ {0} /\ NIndex \in Nat \ {0} /\ Ind = NDirect /\ Dbl = NDirect + 1
      /\ HF[Ind] = 1 /\ HF[Dbl] = 2 /\ Ind \in 0 .. Dbl /\ Dbl \in 0 .. Dbl
      /\ Entries = 0 .. NIndex - 1 /\ \A q \in 0 .. NDirect - 1 : HF[q] = 0 /\ q \in 0 .. Dbl
      /\ Base(Ind) = NDirect /\ Base(Dbl) = NDirect + NIndex
      /\ \A q \in 0 .. Dbl : q \in 0 .. NDirect - 1 \/ q = Ind \/ q = Dbl
  <2>1. /\ NDirect \in Nat \ {0} /\ NIndex \in Nat \ {0} /\ Ind = NDirect /\ Dbl = NDirect + 1
        /\ HF[Ind] = 1 /\ HF[Dbl] = 2 /\ \A q \in 0 .. NDirect - 1 : HF[q] = 0
    BY FileSizes
  <2>2. Base(Ind) = NDirect /\ Base(Dbl) = NDirect + NIndex
    BY <2>1 DEF Base
  <2> QED
    BY <2>1, <2>2 DEF Entries
<1>5. ASSUME NEW i \in Nat, i < n PROVE FLeaf(disk, b, i) \in Owned(f)
  <2>1. i < MostBlocks /\ FLeaf(disk, b, i) # 0
    BY <1>3, <1>5 DEF Reach
  <2>2. PICK s : s = index_to_sector(disk, b, i)
    OBVIOUS
  <2>3. s = FLeaf(disk, b, i)
    BY <2>1, <2>2, SectorOfIndex
  <2>4. i \in DOMAIN DataBlocks(f) /\ DataBlocks(f)[i] = s
    <3>1. i \in 0 .. n - 1
      BY <1>5
    <3> QED
      BY <1>2, <1>3, <2>2, <3>1 DEF DataBlocks
  <2> QED
    BY <2>3, <2>4 DEF Owned
<1>6. /\ n > NDirect => b[Ind] \in Owned(f)
      /\ n > NDirect + NIndex => b[Dbl] \in Owned(f)
      /\ \A i \in NDirect + NIndex .. n - 1 :
           disk[b[Dbl]][(i - NDirect - NIndex) \div NIndex] \in Owned(f)
  <2>1. IndexBlocks(f) =
          (IF n > NDirect THEN {b[Ind]} ELSE {}) \union
          (IF n > NDirect + NIndex
             THEN {b[Dbl]} \union
                  {disk[b[Dbl]][(i - NDirect - NIndex) \div NIndex] :
                     i \in NDirect + NIndex .. n - 1}
             ELSE {})
    BY <1>2, <1>3 DEF IndexBlocks
  <2>2. \A i \in NDirect + NIndex .. n - 1 : n > NDirect + NIndex
    BY <1>4
  <2> QED
    BY <2>1, <2>2 DEF Owned
<1>7. ASSUME NEW q \in 0 .. NDirect - 1, NEW s \in Nodes(HF[q], disk, b[q])
      PROVE  s \in Owned(f)
  <2>1. s = b[q] /\ s # 0
    BY <1>4, <1>7 DEF Nodes, Nodes0
  <2>2. Base(q) = q /\ Root(q) = q /\ q \in Nat /\ q \in 0 .. Dbl
    BY <1>4 DEF Base, Root
  <2>3. Trim0(disk, b[q], n - q)
    BY <1>3, <1>4, <2>2 DEF FTrim, Trim
  <2>4. q < n
    <3>1. ~(n - q <= 0)
      BY <2>1, <2>3 DEF Trim0
    <3> QED
      BY <2>2, <3>1
  <2>5. FLeaf(disk, b, q) = s
    BY <1>4, <2>1, <2>2 DEF FLeaf, Leaf
  <2> QED
    BY <1>5, <2>2, <2>4, <2>5
<1>8. ASSUME NEW s \in Nodes1(disk, b[Ind]) PROVE s \in Owned(f)
  <2>1. Trim1(disk, b[Ind], n - NDirect)
    BY <1>3, <1>4 DEF FTrim, Trim
  <2>2. b[Ind] # 0 /\ (s = b[Ind] \/ \E k \in Entries : s = disk[b[Ind]][k] /\ s # 0)
    BY <1>8 DEF Nodes1, Nodes0
  <2>3. n > NDirect
    <3>1. ~(n - NDirect <= 0)
      BY <2>1, <2>2 DEF Trim1
    <3> QED
      BY <1>4, <3>1
  <2>4. ASSUME NEW k \in Entries, s = disk[b[Ind]][k], s # 0 PROVE s \in Owned(f)
    <3>1. ~(n - NDirect - k <= 0) /\ k \in Nat /\ k < NIndex
      BY <1>4, <2>1, <2>2, <2>4 DEF Trim1, Trim0
    <3>2. PICK i \in Nat : i = NDirect + k
      BY <1>4, <3>1
    <3>3. i < n /\ Root(i) = Ind /\ i - NDirect = k
      BY <1>4, <3>1, <3>2 DEF Root
    <3>4. FLeaf(disk, b, i) = s
      BY <1>4, <2>2, <2>4, <3>3 DEF FLeaf, Leaf, Leaf1
    <3> QED
      BY <1>5, <3>3, <3>4
  <2> QED
    BY <1>6, <2>2, <2>3, <2>4
<1>9. ASSUME NEW s \in Nodes2(disk, b[Dbl]) PROVE s \in Owned(f)
  <2>1. PICK n2 \in Int : n2 = n - (NDirect + NIndex)
    BY <1>4
  <2>2. Trim2(disk, b[Dbl], n2)
    BY <1>3, <1>4, <2>1 DEF FTrim, Trim
  <2>3. b[Dbl] # 0 /\ (s = b[Dbl] \/ \E k \in Entries : s \in Nodes1(disk, disk[b[Dbl]][k]))
    BY <1>9 DEF Nodes2
  <2>4. n > NDirect + NIndex
    <3>1. ~(n2 <= 0)
      BY <2>2, <2>3 DEF Trim2
    <3> QED
      BY <1>4, <2>1, <3>1
  <2>5. ASSUME NEW k \in Entries, s \in Nodes1(disk, disk[b[Dbl]][k]) PROVE s \in Owned(f)
    <3>1. PICK e : e = disk[b[Dbl]][k]
      OBVIOUS
    <3>2. PICK x \in Nat : x = k * NIndex
      <4>1. k \in Nat /\ NIndex \in Nat
        BY <1>4
      <4>2. k * NIndex \in Nat
        BY <4>1, ProductUp
      <4> QED
        BY <4>2
    <3>3. Trim1(disk, e, n2 - x)
      BY <2>2, <2>3, <3>1, <3>2 DEF Trim2
    <3>4. e # 0 /\ (s = e \/ \E j \in Entries : s = disk[e][j] /\ s # 0)
      BY <2>5, <3>1 DEF Nodes1, Nodes0
    <3>5. x < n2
      <4>1. ~(n2 - x <= 0)
        BY <3>3, <3>4 DEF Trim1
      <4> QED
        BY <4>1
    <3>6. ASSUME NEW j \in Nat, j < NIndex, x + j < n2,
                 NEW i, i = NDirect + NIndex + x + j
          PROVE  /\ i \in NDirect + NIndex .. n - 1
                 /\ i - NDirect - NIndex = x + j
                 /\ (x + j) \div NIndex = k /\ (x + j) % NIndex = j
      <4>1. j \in 0 .. NIndex - 1 /\ k \in Nat
        BY <1>4, <3>6
      <4>2. ((k * NIndex) + j) \div NIndex = k /\ ((k * NIndex) + j) % NIndex = j
        <5>1. PICK u : u = NIndex
          OBVIOUS
        <5>2. k \in Nat /\ u \in Nat \ {0} /\ j \in 0 .. u - 1
          BY <1>4, <4>1, <5>1
        <5>3. ((k * u) + j) \div u = k /\ ((k * u) + j) % u = j
          BY <5>2, QuotientIs
        <5> QED
          BY <5>1, <5>3
      <4> QED
        BY <1>4, <2>1, <3>2, <3>6, <4>2
    <3>7. CASE s = e
      <4>1. PICK i : i = NDirect + NIndex + x + 0
        OBVIOUS
      <4>2. /\ i \in NDirect + NIndex .. n - 1
            /\ (i - NDirect - NIndex) \div NIndex = k
        <5>1. 0 \in Nat /\ 0 < NIndex /\ x + 0 < n2
          BY <1>4, <3>5
        <5> QED
          BY <3>6, <4>1, <5>1
      <4>3. disk[b[Dbl]][k] \in Owned(f)
        BY <1>6, <4>2
      <4> QED
        BY <3>1, <3>7, <4>3
    <3>8. ASSUME NEW j \in Entries, s = disk[e][j], s # 0 PROVE s \in Owned(f)
      <4>1. j \in Nat /\ j < NIndex
        BY <1>4
      <4>2. x + j < n2
        <5>1. ~(n2 - x - j <= 0)
          BY <3>3, <3>4, <3>8 DEF Trim1, Trim0
        <5> QED
          BY <4>1, <5>1
      <4>3. PICK i : i = NDirect + NIndex + x + j
        OBVIOUS
      <4>4. /\ i \in NDirect + NIndex .. n - 1
            /\ i - NDirect - NIndex = x + j
            /\ (x + j) \div NIndex = k /\ (x + j) % NIndex = j
        BY <3>6, <4>1, <4>2, <4>3
      <4>5. i \in Nat /\ i < n /\ Root(i) = Dbl /\ i - Base(Root(i)) = x + j
        BY <1>4, <4>4 DEF Root
      <4>6. FLeaf(disk, b, i) = Leaf2(disk, b[Dbl], x + j)
        BY <1>4, <4>5 DEF FLeaf, Leaf
      <4>7. Leaf2(disk, b[Dbl], x + j) = s
        BY <2>3, <3>1, <3>4, <3>8, <4>4 DEF Leaf2, Leaf1
      <4> QED
        BY <1>5, <4>5, <4>6, <4>7
    <3> QED
      BY <3>4, <3>7, <3>8
  <2> QED
    BY <1>6, <2>3, <2>4, <2>5
<1>10. ASSUME NEW s \in FNodes(disk, b) PROVE s \in Owned(f)
  <2>1. PICK q \in 0 .. Dbl : s \in Nodes(HF[q], disk, b[q])
    BY <1>10 DEF FNodes
  <2>2. CASE q \in 0 .. NDirect - 1
    BY <1>7, <2>1, <2>2
  <2>3. CASE q = Ind
    BY <1>4, <1>8, <2>1, <2>3 DEF Nodes
  <2>4. CASE q = Dbl
    BY <1>4, <1>9, <2>1, <2>4 DEF Nodes
  <2> QED
    BY <1>4, <2>2, <2>3, <2>4
<1> QED
  BY <1>1, <1>10

LEMMA NothingLost == Inv /\ Exactly => NoLostSector
<1> SUFFICES ASSUME Inv, Exactly, ~failed, writer.pc # "grow"
             PROVE  free_map = UNION {Owned(f) : f \in LiveFiles}
  BY DEF NoLostSector
<1>1. Exact(free_map, disk, LiveFiles, InodeOf, Needs)
  BY DEF Exactly
<1>2. ASSUME NEW f \in LiveFiles
      PROVE  /\ \A s \in Owned(f) : s \in free_map
             /\ \A s \in FNodes(disk, InodeOf[f]) : s \in Owned(f)
             /\ f \in Owned(f)
  <2>1. \A s \in Owned(f) : s \in free_map
    BY OwnedOnce, FileIs
  <2>2. FTrim(disk, InodeOf[f], bytes_to_sectors(InodeOf[f][Length]))
    <3>1. FTrim(disk, InodeOf[f], Needs[f])
      BY <1>1 DEF Exact
    <3>2. Needs[f] = bytes_to_sectors(InodeOf[f][Length])
      BY NeedsAre DEF Growing
    <3> QED
      BY <3>1, <3>2
  <2>3. \A s \in FNodes(disk, InodeOf[f]) : s \in Owned(f)
    BY <2>2, OwnedAll
  <2> QED
    BY <2>1, <2>3 DEF Owned
<1>3. \A s \in free_map : \E f \in LiveFiles : s \in Owned(f)
  BY <1>1, <1>2 DEF Exact
<1> QED
  BY <1>2, <1>3

\* No sector has two uses, whatever the device, the shape of an inode and what
\* programs write (inode_reserve, index_to_sector and inode_deallocate walk
\* the same tree, and no step of a write leaves it half way).
THEOREM SectorsNotShared == Spec => []NoSharedSector
BY SpecInv, NothingShared, PTL

\* free_map_release never meets a sector that is free (the assertion of
\* free-map.c:46): an inode that is let go still has every block its length
\* asks for.
THEOREM OnlyMarkedReleased == Spec => []ReleasesMarked
<1>1. Inv => ReleasesMarked
  BY DEF Inv, Typed, ReleasesMarked
<1> QED
  BY <1>1, SpecInv, PTL

\* Whatever inode_reserve took, inode_deallocate gives back, as long as no call
\* has failed half way: every marked sector belongs to a file.  It takes that no
\* program writes no bytes at offset 0: such a write makes a file empty, and
\* forgets its blocks.
THEOREM SectorsNotLost ==
  ASSUME << 0, 0 >> \notin Writes
  PROVE  Spec => []NoLostSector
BY SpecInv, SpecExactly, NothingLost, PTL

-------------------------------------------------------------------------------
(* Inodes implements FileStore.  Contents and Opens are what the variables of  *)
(* FileStore stand for.                                                        *)

Contents == [f \in Files |-> IF Live(f) THEN Content(f) ELSE << >>]
Opens == [f \in Files |-> inode[f].open_cnt]
StoreStep == Store!Next \/ UNCHANGED Store!vars

\* What the steps of FileStore rely on: a file is zero past its length, and a
\* write that grows a file makes it longer.
CleanFiles == \A f \in Files : f \in LiveFiles => Clean(disk, InodeOf[f])
Longer == writer.pc = "grow"
            => inode[writer.sector].data[Length] < writer.offset + writer.size
Refined == CleanFiles /\ Longer

\* A file is there before and after a step, with the same bytes.
AlikeNext(f) ==
  f \in LiveFiles => /\ Alike(disk, InodeOf[f], disk', (InodeOf')[f])
                     /\ Clean(disk, InodeOf[f]) => Clean(disk', (InodeOf')[f])
Stays(f) == (f \in LiveFiles' <=> f \in LiveFiles) /\ AlikeNext(f)

LEMMA ContentsAre ==
  /\ \A f \in Files : Contents[f] = IF f \in LiveFiles THEN ContentOf(disk, InodeOf[f]) ELSE << >>
  /\ \A f \in Files : (Contents')[f] = IF f \in LiveFiles' THEN ContentOf(disk', (InodeOf')[f])
                                       ELSE << >>
  /\ Contents = [f \in Files |-> Contents[f]]
  /\ Contents' = [f \in Files |-> (Contents')[f]]
<1>1. \A f \in Files : /\ f \in Sector
                       /\ Live(f) <=> f \in LiveFiles
                       /\ Live(f)' <=> f \in LiveFiles'
  BY DEF Files, LiveFiles
<1>2. \A f \in Files : Content(f) = ContentOf(disk, InodeOf[f])
  BY <1>1 DEF Content, ContentOf, InodeOf
<1>3. \A f \in Files : Content(f)' = ContentOf(disk', (InodeOf')[f])
  BY <1>1 DEF Content, ContentOf, InodeOf
<1> QED
  BY <1>1, <1>2, <1>3 DEF Contents

LEMMA OpensAre ==
  /\ \A f \in Files : Opens[f] = inode[f].open_cnt /\ (Opens')[f] = inode'[f].open_cnt
  /\ Opens = [f \in Files |-> Opens[f]] /\ Opens' = [f \in Files |-> (Opens')[f]]
BY DEF Opens

\* The same bytes are the same contents.
LEMMA SameContents ==
  ASSUME Inv, Inv', NEW f \in Files, Stays(f)
  PROVE  (Contents')[f] = Contents[f]
<1>1. CASE f \in LiveFiles
  <2>1. f \in LiveFiles' /\ Alike(disk, InodeOf[f], disk', (InodeOf')[f])
    BY <1>1 DEF Stays, AlikeNext
  <2>2. GoodFile(free_map, disk, InodeOf[f])
    BY <1>1, FileIs
  <2>3. GoodFile(free_map', disk', (InodeOf')[f])
    BY <2>1 DEF Inv, Trees, Sound
  <2>4. SameContent(disk, InodeOf[f], disk', (InodeOf')[f])
    BY <2>1, <2>2, <2>3, AlikeContent
  <2> QED
    BY <1>1, <2>1, <2>4, ContentsAre DEF SameContent
<1>2. CASE f \notin LiveFiles
  BY <1>2, ContentsAre DEF Stays
<1> QED
  BY <1>1, <1>2

\* A step that FileStore does not see.
LEMMA StoreStays ==
  ASSUME Inv, Inv', named' = named,
         \A f \in Files : Stays(f) /\ (Opens')[f] = Opens[f]
  PROVE  StoreStep
<1>1. \A f \in Files : (Contents')[f] = Contents[f]
  BY SameContents
<1>2. Contents' = Contents /\ Opens' = Opens
  BY <1>1, ContentsAre, OpensAre
<1> QED
  BY <1>2 DEF StoreStep, Store!vars, Contents, Opens

\* A step of one file.
LEMMA StoreSettles ==
  ASSUME Inv, Inv', NEW f \in Files, NEW N, N = named', NEW k \in Nat, (Opens')[f] = k,
         \A g \in Files \ {f} : Stays(g) /\ (Opens')[g] = Opens[g],
         f \in N \/ k > 0 => Stays(f),
         ~(f \in N \/ k > 0) => f \notin LiveFiles'
  PROVE  /\ Opens' = [Opens EXCEPT ![f] = k]
         /\ Contents' = IF f \in N \/ k > 0 THEN Contents ELSE [Contents EXCEPT ![f] = << >>]
<1>1. \A g \in Files \ {f} : (Contents')[g] = Contents[g]
  BY SameContents
<1>2. Opens' = [Opens EXCEPT ![f] = k]
  BY OpensAre
<1>3. Contents' = IF f \in N \/ k > 0 THEN Contents ELSE [Contents EXCEPT ![f] = << >>]
  <2>1. CASE f \in N \/ k > 0
    <3>1. (Contents')[f] = Contents[f]
      BY <2>1, SameContents
    <3>2. Contents' = Contents
      BY <1>1, <3>1, ContentsAre
    <3> QED
      BY <2>1, <3>2
  <2>2. CASE ~(f \in N \/ k > 0)
    <3>1. (Contents')[f] = << >>
      BY <2>2, ContentsAre
    <3>2. Contents' = [Contents EXCEPT ![f] = << >>]
      BY <1>1, <3>1, ContentsAre
    <3> QED
      BY <2>2, <3>2
  <2> QED
    BY <2>1, <2>2
<1> QED
  BY <1>2, <1>3

LEMMA FilesAre == \A f \in Files : f \in Sector /\ f # 0 /\ f # 1
BY SystemSectors DEF Files

\* The inode of f changes in memory, but not what is in it.
LEMMA OpensMoves ==
  ASSUME Inv, Inv', Refined, NEW f \in Files, f \in LiveFiles,
         NEW i \in Inode, i.open_cnt > 0, i.data = InodeOf[f],
         inode' = [inode EXCEPT ![f] = i],
         named' \in SUBSET Files, \A g \in Files \ {f} : g \in named' <=> g \in named,
         disk' = disk, writer' = writer
  PROVE  /\ Refined' /\ (Opens')[f] = i.open_cnt
         /\ \A g \in Files : Stays(g)
         /\ \A g \in Files \ {f} : (Opens')[g] = Opens[g]
<1>1. Typed /\ f \in Sector /\ f # 0 /\ f # 1
  BY FilesAre DEF Inv
<1>2. inode'[f] = i /\ \A g \in Sector \ {f} : inode'[g] = inode[g]
  BY <1>1 DEF Typed
<1>3. f \in LiveFiles' /\ \A g \in Files \ {f} : g \in LiveFiles' <=> g \in LiveFiles
  <2>1. i.open_cnt > 0
    OBVIOUS
  <2> QED
    BY <1>1, <1>2, <2>1, FilesAre DEF LiveFiles, Live
<1>4. \A g \in Files : (InodeOf')[g] = InodeOf[g]
  <2>1. (InodeOf')[f] = i.data
    BY <1>1, <1>2 DEF InodeOf, Data
  <2>2. \A g \in Files \ {f} : (InodeOf')[g] = InodeOf[g]
    BY <1>2, FilesAre DEF InodeOf, Data
  <2> QED
    BY <2>1, <2>2
<1>5. \A g \in Files : Stays(g)
  BY <1>3, <1>4 DEF Stays, AlikeNext, Alike
<1>6. CleanFiles'
  BY <1>5 DEF Refined, CleanFiles, Stays, AlikeNext
<1>7. Longer'
  <2> SUFFICES ASSUME writer.pc = "grow"
               PROVE  inode'[writer.sector].data[Length] < writer.offset + writer.size
    BY DEF Longer
  <2>1. /\ writer.sector \in Files /\ inode[writer.sector].open_cnt > 0
        /\ inode[writer.sector].data[Length] < writer.offset + writer.size
    BY DEF Refined, Longer, Inv, Writing
  <2>2. inode'[writer.sector].data = inode[writer.sector].data
    BY <1>1, <1>2, <2>1, FilesAre, LiveAre
  <2> QED
    BY <2>1, <2>2
<1> QED
  BY <1>2, <1>5, <1>6, <1>7, FilesAre, OpensAre DEF Refined

LEMMA OpenRefines ==
  ASSUME Inv, Inv', Refined, NEW f \in Files, inode_open(f)
  PROVE  Refined' /\ StoreStep
<1>1. Typed /\ f \in named /\ f \in Sector
  BY DEF Inv, inode_open, Files
<1>2. f \in LiveFiles /\ inode[f] \in Inode /\ disk[f] \in Block
  BY <1>1, LiveAre
<1>3. inode[f].open_cnt \in Nat
  BY <1>2 DEF Inode
<1>4. named' = named /\ named \in SUBSET Files /\ disk' = disk /\ writer' = writer
  BY <1>1 DEF inode_open, Typed
<1>5. PICK n \in Nat : n = inode[f].open_cnt + 1 /\ n > 0
  BY <1>3
<1>6. PICK i \in Inode : inode' = [inode EXCEPT ![f] = i] /\ i.open_cnt = n /\ i.data = InodeOf[f]
  <2>1. CASE inode[f].open_cnt > 0
    <3>1. PICK i : i = [inode[f] EXCEPT !.open_cnt = n]
      OBVIOUS
    <3>2. inode' = [inode EXCEPT ![f] = i]
      BY <1>5, <2>1, <3>1 DEF inode_open
    <3>3. i \in Inode /\ i.open_cnt = n /\ i.data = inode[f].data
      BY <1>2, <3>1, OpenersSet
    <3> QED
      BY <1>1, <2>1, <3>2, <3>3, LiveAre
  <2>2. CASE ~(inode[f].open_cnt > 0)
    <3>1. PICK i : i = [Closed EXCEPT !.open_cnt = 1, !.data = disk[f]]
      OBVIOUS
    <3>2. inode' = [inode EXCEPT ![f] = i]
      BY <2>2, <3>1 DEF inode_open
    <3>3. i \in Inode /\ i.open_cnt = 1 /\ i.data = disk[f]
      BY <1>2, <3>1, OpenedSet
    <3>4. inode[f].open_cnt = 0 /\ n = 1
      BY <1>3, <1>5, <2>2
    <3> QED
      BY <1>1, <3>2, <3>3, <3>4, LiveAre
  <2> QED
    BY <2>1, <2>2
<1>7. i.open_cnt > 0
  BY <1>5, <1>6
<1>8. /\ Refined' /\ (Opens')[f] = n
      /\ \A g \in Files : Stays(g)
      /\ \A g \in Files \ {f} : (Opens')[g] = Opens[g]
  BY <1>2, <1>4, <1>6, <1>7, OpensMoves
<1>9. /\ Opens' = [Opens EXCEPT ![f] = n]
      /\ Contents' = IF f \in named \/ n > 0 THEN Contents ELSE [Contents EXCEPT ![f] = << >>]
  BY <1>4, <1>5, <1>8, StoreSettles
<1>10. Store!Open(f)
  BY <1>1, <1>4, <1>5, <1>9 DEF Store!Open, Store!Settle, Contents, Opens
<1> QED
  BY <1>8, <1>10 DEF StoreStep, Store!Next

LEMMA DenyRefines ==
  ASSUME Inv, Inv', Refined, NEW f \in Files, inode_deny_write(f)
  PROVE  Refined' /\ StoreStep
<1>1. Typed /\ f \in Sector
  BY DEF Inv, Files
<1>2. inode[f] \in Inode
  BY <1>1, LiveAre
<1>3. inode[f].open_cnt \in Nat /\ inode[f].deny_write_cnt \in Nat
  BY <1>2 DEF Inode
<1>4. inode[f].open_cnt > 0
  BY <1>3 DEF inode_deny_write
<1>5. f \in LiveFiles /\ inode[f].data = InodeOf[f]
  BY <1>1, <1>4, LiveAre
<1>6. named' = named /\ named \in SUBSET Files /\ disk' = disk /\ writer' = writer
  BY <1>1 DEF inode_deny_write, Typed
<1>7. PICK n \in Nat : n = inode[f].deny_write_cnt + 1
  BY <1>3
<1>8. PICK i : i = [inode[f] EXCEPT !.deny_write_cnt = n]
  OBVIOUS
<1>9. inode' = [inode EXCEPT ![f] = i]
  BY <1>7, <1>8 DEF inode_deny_write
<1>10. i \in Inode /\ i.open_cnt = inode[f].open_cnt /\ i.data = inode[f].data
  BY <1>2, <1>8, DeniersSet
<1>11. i.open_cnt > 0 /\ i.data = InodeOf[f]
  BY <1>4, <1>5, <1>10
<1>12. /\ Refined' /\ (Opens')[f] = i.open_cnt
       /\ \A g \in Files : Stays(g)
       /\ \A g \in Files \ {f} : (Opens')[g] = Opens[g]
  BY <1>5, <1>6, <1>9, <1>10, <1>11, OpensMoves
<1>13. (Opens')[f] = Opens[f]
  BY <1>10, <1>12, OpensAre
<1> QED
  BY <1>6, <1>12, <1>13, StoreStays

\* Nobody has f open any more.
LEMMA ClosedMoves ==
  ASSUME Inv, Inv', Refined, NEW f \in Files, f \in LiveFiles, inode'[f] = Closed,
         \A g \in Sector \ {f} : inode'[g] = inode[g],
         writer.pc # "idle" => writer.sector # f,
         \A g \in Files \ {f} : g \in named' <=> g \in named,
         f \in named' => OlderThan(disk, disk[f], InodeOf[f]),
         UNCHANGED << disk, writer >>
  PROVE  /\ Refined' /\ (Opens')[f] = 0
         /\ f \in named' => Stays(f)
         /\ f \notin named' => f \notin LiveFiles'
         /\ \A g \in Files \ {f} : Stays(g) /\ (Opens')[g] = Opens[g]
<1>1. Typed /\ Typed' /\ f \in Sector
  BY FilesAre DEF Inv
<1>2. /\ \A g \in Files \ {f} : g \in LiveFiles' <=> g \in LiveFiles
      /\ f \in LiveFiles' <=> f \in named'
      /\ \A g \in Sector \ {f} : (InodeOf')[g] = InodeOf[g]
      /\ (InodeOf')[f] = disk[f]
  BY <1>1, InodeClosed
<1>3. \A g \in Files \ {f} : Stays(g) /\ (Opens')[g] = Opens[g]
  <2>1. \A g \in Files \ {f} : (InodeOf')[g] = InodeOf[g] /\ inode'[g] = inode[g]
    BY <1>2, FilesAre
  <2> QED
    BY <1>2, <2>1, OpensAre DEF Stays, AlikeNext, Alike
<1>4. ASSUME f \in named' PROVE Stays(f)
  <2>1. GoodFile(free_map, disk, InodeOf[f]) /\ disk[f] \in Block
    BY <1>1, FileIs, LiveAre
  <2>2. /\ Alike(disk, InodeOf[f], disk, disk[f])
        /\ Clean(disk, InodeOf[f]) => Clean(disk, disk[f])
    BY <1>4, <2>1, OlderBytes
  <2>3. disk' = disk
    OBVIOUS
  <2> QED
    BY <1>2, <1>4, <2>2, <2>3 DEF Stays, AlikeNext
<1>5. CleanFiles'
  BY <1>2, <1>3, <1>4 DEF Refined, CleanFiles, Stays, AlikeNext
<1>6. Longer'
  <2> SUFFICES ASSUME writer.pc = "grow"
               PROVE  inode'[writer.sector].data[Length] < writer.offset + writer.size
    BY DEF Longer
  <2>1. /\ writer.sector \in Files \ {f}
        /\ inode[writer.sector].data[Length] < writer.offset + writer.size
    BY DEF Refined, Longer, Inv, Writing
  <2> QED
    BY <2>1, FilesAre
<1>7. (Opens')[f] = 0
  BY OpensAre, ClosedIs
<1> QED
  BY <1>2, <1>3, <1>4, <1>5, <1>6, <1>7 DEF Refined

LEMMA RemoveRefines ==
  ASSUME Inv, Inv', Refined, NEW f \in Files, inode_remove(f)
  PROVE  Refined' /\ StoreStep
<1>1. Typed /\ f \in named /\ f \in Sector
  BY FilesAre DEF Inv, inode_remove
<1>2. f \in LiveFiles /\ inode[f] \in Inode
  BY <1>1, LiveAre
<1>3. inode[f].open_cnt \in Nat
  BY <1>2 DEF Inode
<1>4. /\ named' = named \ {f} /\ named' \in SUBSET Files /\ f \notin named'
      /\ \A g \in Files \ {f} : g \in named' <=> g \in named
      /\ disk' = disk /\ writer' = writer /\ writer.pc = "idle"
  BY <1>1 DEF inode_remove, Typed, Locked
<1>5. PICK k \in Nat : k = inode[f].open_cnt
  BY <1>3
<1>6. /\ Refined' /\ (Opens')[f] = k
      /\ \A g \in Files \ {f} : Stays(g) /\ (Opens')[g] = Opens[g]
      /\ k > 0 => Stays(f)
      /\ ~(k > 0) => f \notin LiveFiles'
  <2>1. CASE k > 0
    <3>1. PICK i : i = [inode[f] EXCEPT !.removed = TRUE]
      OBVIOUS
    <3>2. inode' = [inode EXCEPT ![f] = i]
      BY <1>5, <2>1, <3>1 DEF inode_remove
    <3>3. i \in Inode /\ i.open_cnt = k /\ i.data = inode[f].data
      BY <1>2, <1>5, <3>1, RemovedSet
    <3>4. i.open_cnt > 0 /\ i.data = InodeOf[f]
      BY <1>1, <1>5, <2>1, <3>3, LiveAre
    <3>5. /\ Refined' /\ (Opens')[f] = k
          /\ \A g \in Files : Stays(g)
          /\ \A g \in Files \ {f} : (Opens')[g] = Opens[g]
      BY <1>2, <1>4, <3>2, <3>3, <3>4, OpensMoves
    <3> QED
      BY <2>1, <3>5
  <2>2. CASE ~(k > 0)
    <3>1. inode' = inode /\ k = 0
      BY <1>5, <2>2 DEF inode_remove
    <3>2. inode[f] = Closed
      BY <1>1, <1>5, <3>1 DEF Inv, Openers
    <3>3. inode'[f] = Closed /\ \A g \in Sector \ {f} : inode'[g] = inode[g]
      BY <3>1, <3>2
    <3>4. /\ Refined' /\ (Opens')[f] = 0
          /\ f \notin named' => f \notin LiveFiles'
          /\ \A g \in Files \ {f} : Stays(g) /\ (Opens')[g] = Opens[g]
      BY <1>2, <1>4, <3>3, ClosedMoves
    <3> QED
      BY <1>4, <2>2, <3>1, <3>4
  <2> QED
    BY <2>1, <2>2
<1>7. PICK N : N = named' /\ N = named \ {f}
  BY <1>4
<1>8. /\ Opens' = [Opens EXCEPT ![f] = k]
      /\ Contents' = IF f \in N \/ k > 0 THEN Contents ELSE [Contents EXCEPT ![f] = << >>]
  <2>1. /\ f \in N \/ k > 0 => Stays(f)
        /\ ~(f \in N \/ k > 0) => f \notin LiveFiles'
    BY <1>6, <1>7
  <2> QED
    BY <1>6, <1>7, <2>1, StoreSettles
<1>9. Store!Remove(f)
  BY <1>1, <1>5, <1>7, <1>8 DEF Store!Remove, Store!Settle, Contents, Opens
<1> QED
  BY <1>6, <1>9 DEF StoreStep, Store!Next

LEMMA CloseRefines ==
  ASSUME Inv, Inv', Refined, NEW f \in Files, NEW denying \in BOOLEAN, inode_close(f, denying)
  PROVE  Refined' /\ StoreStep
<1>1. Typed /\ f \in Sector
  BY FilesAre DEF Inv
<1>2. inode[f] \in Inode
  BY <1>1, LiveAre
<1>3. inode[f].open_cnt \in Nat /\ inode[f].deny_write_cnt \in Nat
  BY <1>2 DEF Inode
<1>4. inode[f].open_cnt > 0 /\ (inode[f].open_cnt = 1 => ~(writer.pc # "idle" /\ writer.sector = f))
  BY <1>3 DEF inode_close, Users
<1>5. f \in LiveFiles /\ inode[f].data = InodeOf[f]
  BY <1>1, <1>4, LiveAre
<1>6. /\ named' = named /\ disk' = disk /\ writer' = writer /\ named' \in SUBSET Files
  BY <1>1 DEF inode_close, Typed
<1>7. PICK k \in Nat : k = inode[f].open_cnt - 1
  BY <1>3, <1>4
<1>8. /\ Refined' /\ (Opens')[f] = k
      /\ \A g \in Files \ {f} : Stays(g) /\ (Opens')[g] = Opens[g]
      /\ f \in named \/ k > 0 => Stays(f)
      /\ ~(f \in named \/ k > 0) => f \notin LiveFiles'
  <2>1. CASE k > 0
    <3>1. PICK l \in Nat : l = IF denying THEN inode[f].deny_write_cnt - 1
                                           ELSE inode[f].deny_write_cnt
      <4>1. (IF denying THEN inode[f].deny_write_cnt - 1 ELSE inode[f].deny_write_cnt) \in Nat
        BY <1>3 DEF inode_close
      <4> QED
        BY <4>1
    <3>2. PICK i : i = [inode[f] EXCEPT !.open_cnt = k, !.deny_write_cnt = l]
      OBVIOUS
    <3>3. AfterClose(inode[f], denying) = i
      BY <1>7, <3>1, <3>2 DEF AfterClose
    <3>4. inode' = [inode EXCEPT ![f] = i]
      <4>1. inode[f].open_cnt # 1
        BY <1>3, <1>7, <2>1
      <4> QED
        BY <3>3, <4>1 DEF inode_close
    <3>5. i \in Inode /\ i.open_cnt = k /\ i.data = inode[f].data
      BY <1>2, <3>2 DEF Inode
    <3>6. i.open_cnt > 0 /\ i.data = InodeOf[f]
      BY <1>5, <2>1, <3>5
    <3>7. /\ Refined' /\ (Opens')[f] = k
          /\ \A g \in Files : Stays(g)
          /\ \A g \in Files \ {f} : (Opens')[g] = Opens[g]
      BY <1>5, <1>6, <3>4, <3>5, <3>6, OpensMoves
    <3> QED
      BY <2>1, <3>7
  <2>2. CASE ~(k > 0)
    <3>1. k = 0 /\ inode[f].open_cnt = 1
      BY <1>3, <1>7, <2>2
    <3>2. inode' = [inode EXCEPT ![f] = Closed]
      BY <3>1 DEF inode_close
    <3>3. inode'[f] = Closed /\ \A g \in Sector \ {f} : inode'[g] = inode[g]
      BY <1>1, <3>2 DEF Typed
    <3>4. writer.pc # "idle" => writer.sector # f
      BY <1>4, <3>1
    <3>5. OlderThan(disk, disk[f], InodeOf[f])
      BY <1>4, <1>5 DEF Inv, OnDisk
    <3>6. /\ Refined' /\ (Opens')[f] = 0
          /\ f \in named' => Stays(f)
          /\ f \notin named' => f \notin LiveFiles'
          /\ \A g \in Files \ {f} : Stays(g) /\ (Opens')[g] = Opens[g]
      BY <1>5, <1>6, <3>3, <3>4, <3>5, ClosedMoves
    <3> QED
      BY <1>6, <2>2, <3>1, <3>6
  <2> QED
    BY <2>1, <2>2
<1>9. /\ Opens' = [Opens EXCEPT ![f] = k]
      /\ Contents' = IF f \in named \/ k > 0 THEN Contents ELSE [Contents EXCEPT ![f] = << >>]
  BY <1>6, <1>8, StoreSettles
<1>10. Store!Close(f)
  BY <1>4, <1>6, <1>7, <1>9 DEF Store!Close, Store!Settle, Contents, Opens
<1> QED
  BY <1>8, <1>10 DEF StoreStep, Store!Next

\* c is what a file with the inode b holds.
Holds(c, d, b) ==
  /\ b[Length] \in Nat /\ DOMAIN c = 1 .. b[Length] /\ Len(c) = b[Length]
  /\ c = [p \in 1 .. b[Length] |-> c[p]]
  /\ \A o \in Nat : o < b[Length] => c[o + 1] = ByteAt(d, b, o)

LEMMA ContentHolds ==
  ASSUME NEW m, NEW d, NEW b, GoodFile(m, d, b), NEW c, c = ContentOf(d, b)
  PROVE  Holds(c, d, b)
<1>1. PICK l \in Nat : l = b[Length]
  BY DEF GoodFile
<1>2. c = [p \in 1 .. l |-> ByteAt(d, b, p - 1)]
  BY <1>1, ContentIs
<1>3. Len(c) = l /\ DOMAIN c = 1 .. l
  BY <1>2
<1>4. ASSUME NEW o \in Nat, o < l PROVE c[o + 1] = ByteAt(d, b, o)
  <2>1. o + 1 \in 1 .. l /\ (o + 1) - 1 = o
    BY <1>1, <1>4
  <2> QED
    BY <1>2, <2>1
<1>5. c = [p \in 1 .. l |-> c[p]]
  BY <1>2
<1> QED
  BY <1>1, <1>3, <1>4, <1>5 DEF Holds

\* The contents of a file before and after a step.
LEMMA FileHolds ==
  ASSUME Inv, NEW f \in Files, f \in LiveFiles, NEW c, c = Contents[f], NEW b, b = InodeOf[f]
  PROVE  Holds(c, disk, b)
BY ContentsAre, ContentHolds, FileIs

LEMMA FileHoldsNext ==
  ASSUME Inv', NEW f \in Files, f \in LiveFiles', NEW c, c = (Contents')[f],
         NEW b, b = (InodeOf')[f]
  PROVE  Holds(c, disk', b)
<1>1. GoodFile(free_map', disk', b)
  BY DEF Inv, Trees, Sound
<1>2. c = ContentOf(disk', b)
  BY ContentsAre
<1> QED
  BY <1>1, <1>2, ContentHolds

\* c is a sequence of k elements.
Lasts(c, k) == c = [p \in 1 .. k |-> c[p]]

\* A sequence that goes on with zeros.
LEMMA GoesOn ==
  ASSUME NEW k \in Nat, NEW l \in Nat, k < l, NEW n \in Nat, n = l - k,
         NEW c, Lasts(c, k), NEW c2, Lasts(c2, l),
         \A o \in Nat : o < k => c2[o + 1] = c[o + 1],
         \A o \in Nat : o >= k /\ o < l => c2[o + 1] = 0
  PROVE  \E z : z = Store!Zeros(n) /\ c2 = c \o z
<1>1. PICK z : z = Store!Zeros(n)
  OBVIOUS
<1>2. z = [i \in 1 .. n |-> 0]
  BY <1>1 DEF Store!Zeros
<1>3. Len(c) = k /\ Len(z) = n /\ DOMAIN c = 1 .. k
  BY <1>2 DEF Lasts
<1>4. PICK S : S = {c[p] : p \in 1 .. k} \union {0}
  OBVIOUS
<1>5. c \in Seq(S) /\ z \in Seq(S)
  <2>1. c \in [1 .. k -> S] /\ z \in [1 .. n -> S]
    BY <1>2, <1>4 DEF Lasts
  <2>2. Seq(S) = UNION {[1 .. j -> S] : j \in Nat}
    BY SeqDef
  <2> QED
    BY <2>1, <2>2
<1>6. PICK e : e = c \o z
  OBVIOUS
<1>7. /\ e = [p \in 1 .. l |-> e[p]]
      /\ \A p \in 1 .. l : e[p] = IF p <= k THEN c[p] ELSE z[p - k]
  <2>1. e \in Seq(S) /\ Len(e) = k + n
    BY <1>3, <1>5, <1>6, ConcatProperties
  <2>2. DOMAIN e = 1 .. l /\ e = [p \in DOMAIN e |-> e[p]]
    BY <2>1
  <2>3. \A p \in 1 .. l : e[p] = IF p <= k THEN c[p] ELSE z[p - k]
    BY <1>3, <1>5, <1>6, ConcatProperties
  <2> QED
    BY <2>2, <2>3
<1>8. ASSUME NEW p \in 1 .. l PROVE c2[p] = e[p]
  <2>1. PICK o \in Nat : o = p - 1 /\ o + 1 = p /\ o < l
    OBVIOUS
  <2>2. CASE p <= k
    <3>1. o < k
      BY <2>1, <2>2
    <3>2. c2[p] = c[p]
      BY <2>1, <3>1
    <3> QED
      BY <1>7, <2>2, <3>2
  <2>3. CASE ~(p <= k)
    <3>1. p - k \in 1 .. n /\ o >= k
      BY <2>1, <2>3
    <3> QED
      BY <1>2, <1>7, <2>1, <2>3, <3>1
  <2> QED
    BY <2>2, <2>3
<1>9. c2 = e
  BY <1>7, <1>8 DEF Lasts
<1> QED
  BY <1>1, <1>6, <1>9

\* Sectors other than those of a file change.
LEMMA KeptStays ==
  ASSUME Inv, NEW g \in Files, g \in LiveFiles' <=> g \in LiveFiles,
         g \in LiveFiles => /\ (InodeOf')[g] = InodeOf[g]
                            /\ Kept(disk, disk', FNodes(disk, InodeOf[g])),
         disk' \in Disk
  PROVE  Stays(g)
<1> SUFFICES ASSUME g \in LiveFiles PROVE AlikeNext(g)
  BY DEF Stays, AlikeNext
<1>1. GoodFile(free_map, disk, InodeOf[g])
  BY FileIs
<1>2. /\ Alike(disk, InodeOf[g], disk', InodeOf[g])
      /\ Clean(disk, InodeOf[g]) => Clean(disk', InodeOf[g])
  BY <1>1, KeptBytes
<1> QED
  BY <1>2 DEF AlikeNext

LEMMA LengthRefines ==
  ASSUME Inv, Inv', Refined, WriteLength
  PROVE  Refined' /\ StoreStep
<1>1. Typed /\ writer \in WriteCall /\ writer.pc = "grow"
  BY DEF Inv, Typed, WriteLength
<1>2. PICK f \in Files, c \in Block :
        /\ f = writer.sector /\ c = inode[f].data /\ c = InodeOf[f]
        /\ inode[f].open_cnt > 0 /\ f \in LiveFiles /\ f \in Sector /\ inode[f] \in Inode
  <2>1. writer.sector \in Files /\ inode[writer.sector].open_cnt > 0
    BY <1>1 DEF Inv, Writing
  <2> QED
    BY <1>1, <2>1, LiveAre
<1>3. PICK l \in Nat : l = writer.offset + writer.size
  BY <1>1 DEF WriteCall
<1>4. PICK b : b = [c EXCEPT ![Length] = l]
  OBVIOUS
<1>5. b \in Block /\ b[Length] = l /\ \A q \in 0 .. Dbl : b[q] = c[q]
  BY <1>4, LengthWord DEF Block, Word
<1>6. Reach(disk, c, bytes_to_sectors(l)) /\ c[Length] \in Nat /\ c[Length] < l
  BY <1>1, <1>2, <1>3, FileIs DEF Inv, Writing, Refined, Longer
<1>7. PICK i : i = [inode[f] EXCEPT !.data = b]
  OBVIOUS
<1>8. i \in Inode /\ i.open_cnt = inode[f].open_cnt /\ i.data = b
  BY <1>2, <1>5, <1>7, DataSet
<1>9. /\ inode' = [inode EXCEPT ![f] = i] /\ disk' = [disk EXCEPT ![f] = b]
      /\ writer'.pc = "chunk" /\ named' = named /\ free_map' = free_map
  BY <1>1, <1>2, <1>3, <1>4, <1>7 DEF WriteLength, WriteCall
<1>10. /\ inode'[f] = i /\ \A g \in Sector \ {f} : inode'[g] = inode[g]
       /\ disk' \in Disk /\ \A g \in Sector \ {f} : disk'[g] = disk[g]
  BY <1>1, <1>2, <1>5, <1>9 DEF Typed, Disk
<1>11. \A g \in Files : g \in LiveFiles' <=> g \in LiveFiles
  BY <1>8, <1>9, <1>10, FilesAre DEF LiveFiles, Live
<1>12. (InodeOf')[f] = b /\ \A g \in Files \ {f} : (InodeOf')[g] = InodeOf[g]
  BY <1>2, <1>8, <1>10, FilesAre DEF InodeOf, Data
<1>13. \A g \in LiveFiles : Kept(disk, disk', FNodes(disk, InodeOf[g]))
  <2>1. \A g \in LiveFiles : \A s \in FNodes(disk, InodeOf[g]) : s \in Sector \ {f}
    BY <1>2, FileIs
  <2> QED
    BY <1>10, <2>1 DEF Kept
<1>14. \A g \in Files \ {f} : Stays(g) /\ (Opens')[g] = Opens[g]
  <2>1. \A g \in Files \ {f} : Stays(g)
    BY <1>10, <1>11, <1>12, <1>13, KeptStays
  <2> QED
    BY <1>10, <2>1, OpensAre, FilesAre
<1>15. /\ \A o \in Nat : o < c[Length] => ByteAt(disk', b, o) = ByteAt(disk, c, o)
       /\ \A o \in Nat : o >= c[Length] /\ o < l => ByteAt(disk', b, o) = 0
       /\ Clean(disk', b)
  <2>1. GoodFile(free_map, disk, c) /\ Clean(disk, c)
    BY <1>2, FileIs DEF Refined, CleanFiles
  <2>2. /\ \A o \in Nat : o < c[Length] => ByteAt(disk, b, o) = ByteAt(disk, c, o)
        /\ \A o \in Nat : o >= c[Length] /\ o < l => ByteAt(disk, b, o) = 0
        /\ Clean(disk, b)
    BY <1>5, <1>6, <2>1, LengthBytes
  <2>3. GoodFile(free_map, disk, b)
    <3>1. PICK D : D = [InodeOf EXCEPT ![f] = b]
      OBVIOUS
    <3>2. D[f] = b /\ \A g \in LiveFiles \ {f} : D[g] = InodeOf[g]
      BY <1>1, <1>2, <3>1, LiveAre DEF InodeOf
    <3>3. Sound(free_map, disk, LiveFiles, D)
      BY <1>2, <1>5, <1>6, <3>2, SoundLength DEF Inv, Trees
    <3> QED
      BY <1>2, <3>2, <3>3 DEF Sound
  <2>4. Kept(disk, disk', FNodes(disk, b))
    <3>1. SameBlocks(disk, c, b)
      BY <1>5, EntriesAlike
    <3> QED
      BY <1>2, <1>13, <3>1 DEF SameBlocks, Kept
  <2>5. Alike(disk, b, disk', b) /\ Clean(disk', b)
    BY <1>10, <2>2, <2>3, <2>4, KeptBytes
  <2>6. \A o \in Nat : o < l => ByteAt(disk', b, o) = ByteAt(disk, b, o)
    BY <1>5, <2>5 DEF Alike
  <2>7. ASSUME NEW o \in Nat, o < c[Length] PROVE ByteAt(disk', b, o) = ByteAt(disk, c, o)
    <3>1. o < l
      BY <1>6, <2>7
    <3> QED
      BY <2>2, <2>6, <2>7, <3>1
  <2> QED
    BY <2>2, <2>5, <2>6, <2>7
<1>16. Refined'
  <2>1. CleanFiles'
    BY <1>11, <1>12, <1>14, <1>15 DEF Refined, CleanFiles, Stays, AlikeNext
  <2>2. Longer'
    BY <1>9 DEF Longer
  <2> QED
    BY <2>1, <2>2 DEF Refined
<1>17. PICK k \in Nat : k = c[Length]
  BY <1>6
<1>18. PICK x, y : x = Contents[f] /\ y = (Contents')[f]
  OBVIOUS
<1>19. Holds(x, disk, c) /\ Holds(y, disk', b)
  BY <1>2, <1>11, <1>12, <1>18, FileHolds, FileHoldsNext
<1>20. /\ Len(x) = k /\ Len(y) = l /\ k < l
       /\ x = [p \in 1 .. k |-> x[p]] /\ y = [p \in 1 .. l |-> y[p]]
       /\ \A o \in Nat : o < k => y[o + 1] = x[o + 1]
       /\ \A o \in Nat : o >= k /\ o < l => y[o + 1] = 0
  <2>1. /\ Len(x) = k /\ Len(y) = l /\ k < l
        /\ x = [p \in 1 .. k |-> x[p]] /\ y = [p \in 1 .. l |-> y[p]]
        /\ \A o \in Nat : o < k => x[o + 1] = ByteAt(disk, c, o)
        /\ \A o \in Nat : o < l => y[o + 1] = ByteAt(disk', b, o)
    BY <1>5, <1>6, <1>17, <1>18, <1>19 DEF Holds
  <2> QED
    BY <1>15, <1>17, <1>18, <2>1
<1>21. PICK n \in Nat : n = l - k /\ n = Len(y) - Len(x) /\ n > 0
  BY <1>20
<1>22. PICK z : z = Store!Zeros(n) /\ y = x \o z
  <2>1. /\ n = l - k /\ k < l
        /\ Lasts(x, k) /\ Lasts(y, l)
        /\ \A o \in Nat : o < k => y[o + 1] = x[o + 1]
        /\ \A o \in Nat : o >= k /\ o < l => y[o + 1] = 0
    BY <1>20, <1>21 DEF Lasts
  <2> QED
    BY <2>1, GoesOn
<1>23. Contents' = [Contents EXCEPT ![f] = x \o z]
  <2>1. \A g \in Files \ {f} : (Contents')[g] = Contents[g]
    BY <1>14, SameContents
  <2> QED
    BY <1>18, <1>22, <2>1, ContentsAre
<1>24. Opens' = Opens
  <2>1. (Opens')[f] = Opens[f]
    BY <1>2, <1>8, <1>10, OpensAre
  <2> QED
    BY <1>14, <2>1, OpensAre
<1>25. Opens[f] > 0 /\ named' = named
  BY <1>2, <1>9, OpensAre
<1>26. Store!Extend(f)
  BY <1>18, <1>21, <1>22, <1>23, <1>24, <1>25 DEF Store!Extend, Contents, Opens
<1> QED
  BY <1>16, <1>26 DEF StoreStep, Store!Next

LEMMA ChunkRefines ==
  ASSUME Inv, Inv', Refined, WriteChunk
  PROVE  Refined' /\ StoreStep
<1>1. PICK f, o, b : f = writer.sector /\ o = writer.offset /\ b = inode[f].data
  OBVIOUS
<1>2. /\ f \in Files /\ f \in LiveFiles /\ b = InodeOf[f] /\ o \in Nat /\ inode[f].open_cnt > 0
      /\ UNCHANGED << free_map, named, inode >>
      /\ writer' = Idle \/ writer'.pc = "chunk"
      /\ \/ disk' = disk
         \/ \E k \in Nat, s \in Sector :
              /\ k > 0 /\ o + k <= b[Length] /\ WordOf(o) + k <= NBytes
              /\ s = FLeaf(disk, b, BlockOf(o)) /\ s \in FNodes(disk, b) /\ s \notin LiveFiles
              /\ disk' \in Disk
              /\ SectorWritten(disk, disk', s, WordOf(o), k, writer.value)
  BY <1>1, ChunkEffect
<1>3. Longer' /\ Opens' = Opens
  BY <1>2 DEF Longer, Opens, Idle
<1>4. \A g \in Files : g \in LiveFiles' <=> g \in LiveFiles
  BY <1>2 DEF LiveFiles, Live
<1>5. Typed
  BY DEF Inv
<1>6. CASE disk' = disk
  <2>1. InodeOf' = InodeOf
    BY <1>2, <1>6 DEF InodeOf, Data
  <2>2. \A g \in Files : Stays(g)
    BY <1>4, <1>6, <2>1 DEF Stays, AlikeNext, Alike
  <2>3. CleanFiles'
    BY <1>4, <2>2 DEF Refined, CleanFiles, Stays, AlikeNext
  <2>4. named' = named /\ \A g \in Files : Stays(g) /\ (Opens')[g] = Opens[g]
    BY <1>2, <1>3, <2>2
  <2> QED
    BY <1>3, <2>3, <2>4, StoreStays DEF Refined
<1>7. ASSUME NEW k \in Nat, NEW s \in Sector,
             k > 0, o + k <= b[Length], WordOf(o) + k <= NBytes,
             s = FLeaf(disk, b, BlockOf(o)), s \in FNodes(disk, b), s \notin LiveFiles,
             disk' \in Disk, SectorWritten(disk, disk', s, WordOf(o), k, writer.value)
      PROVE  Refined' /\ StoreStep
  <2>1. \A g \in Files : g \in LiveFiles => (InodeOf')[g] = InodeOf[g]
    <3>1. \A g \in Files : g \in LiveFiles => disk'[g] = disk[g]
      BY <1>7, FilesAre DEF SectorWritten
    <3> QED
      BY <1>2, <3>1, FilesAre DEF InodeOf, Data
  <2>2. \A g \in Files \ {f} : g \in LiveFiles => Kept(disk, disk', FNodes(disk, InodeOf[g]))
    <3> SUFFICES ASSUME NEW g \in Files \ {f}, g \in LiveFiles, NEW t \in FNodes(disk, InodeOf[g])
                 PROVE  disk'[t] = disk[t]
      BY DEF Kept
    <3>1. t \in Sector
      BY FileIs
    <3>2. t # s
      BY <1>2, <1>7 DEF Inv, Trees, Sound
    <3> QED
      BY <1>7, <3>1, <3>2 DEF SectorWritten
  <2>3. \A g \in Files \ {f} : Stays(g)
    BY <1>4, <1>7, <2>1, <2>2, KeptStays
  <2>4. PICK l \in Nat : l = b[Length]
    BY <1>2, FileIs
  <2>5. PICK v : v = writer.value
    OBVIOUS
  <2>6. /\ \A p \in Nat : p < l =>
             ByteAt(disk', b, p) = IF p \in o .. o + k - 1 THEN v ELSE ByteAt(disk, b, p)
        /\ Clean(disk, b) => Clean(disk', b)
    <3>1. GoodFile(free_map, disk, b)
      BY <1>2, FileIs
    <3>2. SectorWritten(disk, disk', s, WordOf(o), k, v)
      BY <1>7, <2>5
    <3>3. FileWritten(disk, disk', b, o, k, v) /\ (Clean(disk, b) => Clean(disk', b))
      BY <1>2, <1>7, <3>1, <3>2, WrittenBytes
    <3> QED
      BY <2>4, <3>3 DEF FileWritten
  <2>7. (InodeOf')[f] = b /\ f \in LiveFiles'
    BY <1>2, <1>4, <2>1
  <2>8. CleanFiles'
    BY <1>2, <1>4, <2>3, <2>6, <2>7 DEF Refined, CleanFiles, Stays, AlikeNext
  <2>9. PICK x, y : x = Contents[f] /\ y = (Contents')[f]
    OBVIOUS
  <2>10. Holds(x, disk, b) /\ Holds(y, disk', b)
    BY <1>2, <2>7, <2>9, FileHolds, FileHoldsNext
  <2>11. /\ Len(x) = l /\ DOMAIN x = 1 .. l /\ y = [p \in 1 .. l |-> y[p]]
         /\ \A p \in Nat : p < l => x[p + 1] = ByteAt(disk, b, p)
         /\ \A p \in Nat : p < l => y[p + 1] = ByteAt(disk', b, p)
    BY <2>4, <2>10 DEF Holds
  <2>12. PICK i \in 1 .. l, j \in 1 .. l : i = o + 1 /\ j = o + k
    BY <1>2, <1>7, <2>4
  <2>13. y = [p \in DOMAIN x |-> IF p \in i .. j THEN v ELSE x[p]]
    <3>1. ASSUME NEW p \in 1 .. l PROVE y[p] = IF p \in i .. j THEN v ELSE x[p]
      <4>1. PICK q \in Nat : q = p - 1 /\ q < l /\ p = q + 1
        OBVIOUS
      <4>2. q \in o .. o + k - 1 <=> p \in i .. j
        BY <1>2, <2>12, <4>1
      <4>3. y[p] = ByteAt(disk', b, q) /\ x[p] = ByteAt(disk, b, q)
        BY <2>11, <4>1
      <4> QED
        BY <2>6, <4>1, <4>2, <4>3
    <3> QED
      BY <2>11, <3>1
  <2>14. v \in Value \union {0}
    BY <1>5, <2>5 DEF Typed, WriteCall
  <2>15. Contents' = [Contents EXCEPT ![f] = y]
    <3>1. \A g \in Files \ {f} : (Contents')[g] = Contents[g]
      BY <2>3, SameContents
    <3> QED
      BY <2>9, <3>1, ContentsAre
  <2>16. Contents' = [Contents EXCEPT ![f] = [p \in DOMAIN @ |-> IF p \in i .. j THEN v ELSE @[p]]]
    BY <2>9, <2>13, <2>15
  <2>17. i \in 1 .. Len(Contents[f]) /\ j \in 1 .. Len(Contents[f])
    BY <2>9, <2>11, <2>12
  <2>18. Opens[f] > 0 /\ named' = named
    BY <1>2, OpensAre
  <2>19. Store!Put(f)
    <3>1. /\ Opens[f] > 0
          /\ \E z \in Value \union {0}, p, q \in 1 .. Len(Contents[f]) :
               Contents' = [Contents EXCEPT ![f] =
                              [r \in DOMAIN @ |-> IF r \in p .. q THEN z ELSE @[r]]]
          /\ named' = named /\ Opens' = Opens
      BY <1>3, <2>14, <2>16, <2>17, <2>18
    <3> QED
      BY <3>1, Zenon DEF Store!Put, Contents, Opens
  <2> QED
    BY <1>2, <1>3, <2>8, <2>19 DEF Refined, StoreStep, Store!Next
<1> QED
  BY <1>2, <1>6, <1>7

LEMMA ReserveRefines ==
  ASSUME Inv, Inv', Refined, NEW f \in Files, NEW offset \in Nat, NEW size \in Nat,
         NEW v \in Value, WriteReserve(f, offset, size, v), offset + size # 0
  PROVE  Refined' /\ StoreStep
<1>1. Typed /\ f \in Sector /\ inode[f].open_cnt > 0
  BY FilesAre DEF Inv, WriteReserve
<1>2. f \in LiveFiles /\ inode[f] \in Inode /\ inode[f].data = InodeOf[f]
  BY <1>1, LiveAre
<1>3. CASE byte_to_sector(disk, inode[f].data, offset + size - 1) # NoSector
  <2>1. /\ writer' = [pc |-> "chunk", sector |-> f, offset |-> offset, size |-> size, value |-> v]
        /\ UNCHANGED << disk, inode, named >>
    BY <1>3 DEF WriteReserve
  <2>2. \A g \in Files : g \in LiveFiles' <=> g \in LiveFiles
    BY <2>1 DEF LiveFiles, Live
  <2>3. InodeOf' = InodeOf /\ Opens' = Opens /\ disk' = disk
    BY <2>1 DEF InodeOf, Data, Opens
  <2>4. \A g \in Files : Stays(g) /\ (Opens')[g] = Opens[g]
    BY <2>2, <2>3 DEF Stays, AlikeNext, Alike
  <2>5. CleanFiles'
    BY <2>2, <2>4 DEF Refined, CleanFiles, Stays, AlikeNext
  <2>6. Longer'
    BY <2>1 DEF Longer
  <2> QED
    BY <2>1, <2>4, <2>5, <2>6, StoreStays DEF Refined
<1>4. CASE byte_to_sector(disk, inode[f].data, offset + size - 1) = NoSector
  <2>1. PICK b \in Block, ok \in BOOLEAN :
           /\ FileGrown(bytes_to_sectors(offset + size), free_map, disk, InodeOf[f],
                        free_map', disk', b, ok)
           /\ disk' \in Disk
           /\ inode' = [inode EXCEPT ![f].data = b]
           /\ ok => writer' = [pc |-> "grow", sector |-> f, offset |-> offset,
                               size |-> size, value |-> v]
           /\ ~ok => writer' = Idle
           /\ named' = named
    BY <1>4, ReserveEffect
  <2>2. PICK i : i = [inode[f] EXCEPT !.data = b]
    OBVIOUS
  <2>3. i \in Inode /\ i.open_cnt = inode[f].open_cnt /\ i.data = b
    BY <1>2, <2>2, DataSet
  <2>4. inode'[f] = i /\ \A g \in Sector \ {f} : inode'[g] = inode[g]
    BY <1>1, <2>1, <2>2 DEF Typed
  <2>5. \A g \in Files : g \in LiveFiles' <=> g \in LiveFiles
    BY <2>1, <2>3, <2>4, FilesAre DEF LiveFiles, Live
  <2>6. /\ \A g \in LiveFiles \ {f} : Kept(disk, disk', FNodes(disk, InodeOf[g]))
        /\ Kept(disk, disk', LiveFiles \ {0})
    <3>1. Sound(free_map, disk, LiveFiles, InodeOf)
      BY DEF Inv, Trees
    <3> QED
      BY <1>2, <2>1, <3>1, OthersKept
  <2>7. (InodeOf')[f] = b /\ \A g \in Files \ {f} : g \in LiveFiles => (InodeOf')[g] = InodeOf[g]
    <3>1. (InodeOf')[f] = b
      BY <1>1, <2>3, <2>4 DEF InodeOf, Data
    <3>2. \A g \in Files \ {f} : g \in LiveFiles => disk'[g] = disk[g]
      BY <2>6, FilesAre DEF Kept
    <3> QED
      BY <2>4, <3>1, <3>2, FilesAre DEF InodeOf, Data
  <2>8. \A g \in Files \ {f} : Stays(g)
    BY <2>1, <2>5, <2>6, <2>7, KeptStays
  <2>9. Stays(f)
    <3>1. PICK c : c = InodeOf[f]
      OBVIOUS
    <3>2. GoodFile(free_map, disk, c)
      BY <1>2, <3>1, FileIs
    <3>3. PICK n : n = bytes_to_sectors(offset + size)
      OBVIOUS
    <3>4. FileGrown(n, free_map, disk, c, free_map', disk', b, ok)
      BY <2>1, <3>1, <3>3
    <3>5. /\ Alike(disk, c, disk', b)
          /\ Clean(disk, c) => Clean(disk', b)
      BY <3>2, <3>4, GrownBytes
    <3> QED
      BY <1>2, <2>5, <2>7, <3>1, <3>5 DEF Stays, AlikeNext
  <2>10. \A g \in Files : Stays(g) /\ (Opens')[g] = Opens[g]
    <3>1. \A g \in Files : inode'[g].open_cnt = inode[g].open_cnt
      BY <2>3, <2>4, FilesAre
    <3> QED
      BY <2>8, <2>9, <3>1, OpensAre
  <2>11. CleanFiles'
    BY <2>5, <2>10 DEF Refined, CleanFiles, Stays, AlikeNext
  <2>12. Longer'
    <3>1. CASE ok
      <4>1. writer'.sector = f /\ writer'.offset = offset /\ writer'.size = size
        BY <2>1, <3>1
      <4>2. PICK c : c = InodeOf[f]
        OBVIOUS
      <4>3. PICK n \in Nat : n = offset + size
        OBVIOUS
      <4>4. c[Length] < n
        BY <1>2, <1>4, <4>2, <4>3, PastTheEnd
      <4>5. b[Length] = c[Length]
        BY <2>1, <4>2, LengthWord DEF FileGrown
      <4> QED
        BY <2>3, <2>4, <4>1, <4>3, <4>4, <4>5 DEF Longer
    <3>2. CASE ~ok
      BY <2>1, <3>2 DEF Longer, Idle
    <3> QED
      BY <3>1, <3>2
  <2> QED
    BY <2>1, <2>10, <2>11, <2>12, StoreStays DEF Refined
<1> QED
  BY <1>3, <1>4

\* A sequence of zeros.
LEMMA AllZeros ==
  ASSUME NEW n \in Nat, NEW c, Lasts(c, n), \A o \in Nat : o < n => c[o + 1] = 0
  PROVE  Len(c) = n /\ \E z : z = Store!Zeros(Len(c)) /\ c = z
<1>1. Len(c) = n
  BY DEF Lasts
<1>2. PICK z : z = Store!Zeros(Len(c))
  OBVIOUS
<1>3. z = [i \in 1 .. n |-> 0]
  BY <1>1, <1>2 DEF Store!Zeros
<1>4. ASSUME NEW p \in 1 .. n PROVE c[p] = 0
  <2>1. PICK o \in Nat : o = p - 1 /\ o + 1 = p /\ o < n
    OBVIOUS
  <2> QED
    BY <2>1
<1>5. c = z
  BY <1>3, <1>4 DEF Lasts
<1> QED
  BY <1>1, <1>2, <1>5

LEMMA CreateRefines ==
  ASSUME Inv, Inv', Refined, NEW n \in Nat, NEW added \in BOOLEAN, filesys_create(n, added)
  PROVE  Refined' /\ StoreStep
<1>1. PICK f \in Sector \ free_map, m2 \in SUBSET Sector, d2 \in Disk, b \in Block, ok \in BOOLEAN :
        /\ FileGrown(bytes_to_sectors(n), free_map \union {f}, disk,
                     [Zeros EXCEPT ![Length] = n], m2, d2, b, ok)
        /\ ok /\ added => free_map' = m2 /\ named' = named \union {f}
        /\ ~(ok /\ added) => free_map' = m2 \ {f} /\ named' = named
        /\ ok => disk' = [d2 EXCEPT ![f] = b]
        /\ ~ok => disk' = d2
        /\ failed' = (failed \/ ~(ok /\ added))
        /\ writer.pc = "idle" /\ UNCHANGED << inode, writer, panic >>
  <2>1. PICK f \in Sector \ free_map, m2 \in SUBSET Sector, d2 \in Disk, b \in Block, ok \in BOOLEAN :
          Created(n, added, f, m2, d2, b, ok)
    BY CreateEffect
  <2> QED
    BY <2>1 DEF Created
<1>2. PICK b0 : b0 = [Zeros EXCEPT ![Length] = n]
  OBVIOUS
<1>3. PICK m \in SUBSET Sector : m = free_map \union {f} /\ f \in m /\ 0 \in m
  BY <1>1 DEF Inv, Typed, Trees, Sound
<1>4. PICK k : k = bytes_to_sectors(n)
  OBVIOUS
<1>5. /\ FileGrown(k, free_map \union {f}, disk, b0, m2, d2, b, ok)
      /\ FileGrown(k, m, disk, b0, m2, d2, b, ok)
  BY <1>1, <1>2, <1>3, <1>4
<1>6. /\ Typed /\ free_map \in SUBSET Sector /\ disk \in Disk /\ 0 \in free_map
      /\ LiveFiles \subseteq free_map
  BY DEF Inv, Typed, Trees, Sound
<1>7. f \notin LiveFiles /\ f \in Files /\ f \in Sector
  BY <1>6, LiveAre
<1>8. /\ disk' \in Disk /\ Kept(d2, disk', Sector \ {f})
      /\ ok => disk'[f] = b
  <2>1. CASE ok
    <3>1. disk' = [d2 EXCEPT ![f] = b]
      BY <1>1, <2>1
    <3> QED
      BY <1>7, <3>1 DEF Disk, Kept
  <2>2. CASE ~ok
    BY <1>1, <2>2 DEF Kept
  <2> QED
    BY <2>1, <2>2
<1>9. Kept(disk, disk', free_map \ {0})
  BY <1>2, <1>5, <1>6, <1>8, NewKept
<1>10. inode' = inode /\ Opens' = Opens /\ Longer'
  BY <1>1 DEF Opens, Longer
<1>11. \A g \in Files \ {f} : g \in LiveFiles' <=> g \in LiveFiles
  BY <1>1 DEF LiveFiles, Live
<1>12. \A g \in Files \ {f} : Stays(g)
  <2>1. \A g \in Files : g \in LiveFiles => Kept(disk, disk', FNodes(disk, InodeOf[g]))
    <3>1. \A g \in LiveFiles : \A s \in FNodes(disk, InodeOf[g]) : s \in free_map \ {0}
      BY FileIs
    <3> QED
      BY <1>9, <3>1 DEF Kept
  <2>2. \A g \in Files : g \in LiveFiles => (InodeOf')[g] = InodeOf[g]
    <3>1. \A g \in Files : g \in LiveFiles => disk'[g] = disk[g]
      BY <1>6, <1>9, FilesAre DEF Kept
    <3> QED
      BY <1>10, <3>1, FilesAre DEF InodeOf, Data
  <2> QED
    BY <1>8, <1>11, <2>1, <2>2, KeptStays
<1>13. CASE ~(ok /\ added)
  <2>1. named' = named /\ f \notin LiveFiles'
    BY <1>1, <1>7, <1>10, <1>13 DEF LiveFiles, Live
  <2>2. Stays(f)
    BY <1>7, <2>1 DEF Stays, AlikeNext
  <2>3. \A g \in Files : Stays(g) /\ (Opens')[g] = Opens[g]
    BY <1>10, <1>12, <2>2
  <2>4. CleanFiles'
    BY <2>3 DEF Refined, CleanFiles, Stays, AlikeNext
  <2> QED
    BY <1>10, <2>1, <2>3, <2>4, StoreStays DEF Refined
<1>14. CASE ok /\ added
  <2>1. named' = named \union {f} /\ f \in LiveFiles'
    BY <1>1, <1>7, <1>14 DEF LiveFiles, Live
  <2>2. ~(inode[f].open_cnt > 0) /\ f \notin named
    BY <1>6, <1>7, LiveAre
  <2>3. (InodeOf')[f] = b
    BY <1>7, <1>8, <1>10, <1>14, <2>2 DEF InodeOf, Data
  <2>4. /\ b[Length] = n
        /\ \A o \in Nat : Used(disk', b, o) => ByteAt(disk', b, o) = 0
    <3>1. NewFile(disk', b, n)
      BY <1>2, <1>3, <1>5, <1>6, <1>8, NewBytes
    <3> QED
      BY <3>1 DEF NewFile
  <2>5. Clean(disk', b)
    BY <2>4 DEF Clean
  <2>6. CleanFiles'
    BY <1>12, <2>3, <2>5 DEF Refined, CleanFiles, Stays, AlikeNext
  <2>7. PICK x : x = (Contents')[f]
    OBVIOUS
  <2>8. Holds(x, disk', b)
    BY <1>7, <2>1, <2>3, <2>7, FileHoldsNext
  <2>9. Lasts(x, n) /\ \A o \in Nat : o < n => x[o + 1] = ByteAt(disk', b, o)
    BY <2>4, <2>8 DEF Holds, Lasts
  <2>10. ASSUME NEW o \in Nat, o < n PROVE x[o + 1] = 0
    <3>1. Reach(disk', b, bytes_to_sectors(n))
      <4>1. GoodFile(free_map', disk', b)
        BY <2>1, <2>3 DEF Inv, Trees, Sound
      <4> QED
        BY <2>4, <4>1 DEF GoodFile
    <3>2. Used(disk', b, o)
      BY <2>10, <3>1, BytesUsed
    <3> QED
      BY <2>4, <2>9, <2>10, <3>2
  <2>11. PICK z : z = Store!Zeros(Len(x)) /\ x = z
    BY <2>9, <2>10, AllZeros
  <2>12. Contents' = [Contents EXCEPT ![f] = z]
    <3>1. \A g \in Files \ {f} : (Contents')[g] = Contents[g]
      BY <1>12, SameContents
    <3> QED
      BY <2>7, <2>11, <3>1, ContentsAre
  <2>13. z = Store!Zeros(Len((Contents')[f]))
    BY <2>7, <2>11 DEF Store!Zeros
  <2>14. ~(f \in named \/ Opens[f] > 0)
    BY <1>7, <2>2, OpensAre
  <2>15. Store!Create(f)
    <3>1. /\ Contents' = [Contents EXCEPT ![f] = Store!Zeros(Len((Contents')[f]))]
          /\ named' = named \union {f} /\ Opens' = Opens
      BY <1>10, <2>1, <2>12, <2>13
    <3> QED
      BY <2>14, <3>1, Zenon DEF Store!Create, Store!Live, Contents, Opens
  <2> QED
    BY <1>7, <1>10, <2>6, <2>15 DEF Refined, StoreStep, Store!Next
<1> QED
  BY <1>13, <1>14

LEMMA StepRefines ==
  ASSUME Inv, Inv', Refined, [Next]_vars, << 0, 0 >> \notin Writes
  PROVE  Refined' /\ StoreStep
<1>1. ASSUME NEW n \in Lengths, NEW added \in BOOLEAN, filesys_create(n, added)
      PROVE  Refined' /\ StoreStep
  <2>1. n \in Nat
    BY SizesAssumption
  <2> QED
    BY <1>1, <2>1, CreateRefines
<1>2. ASSUME NEW f \in Files, inode_open(f) PROVE Refined' /\ StoreStep
  BY <1>2, OpenRefines
<1>3. ASSUME NEW f \in Files, NEW denying \in BOOLEAN, inode_close(f, denying)
      PROVE  Refined' /\ StoreStep
  BY <1>3, CloseRefines
<1>4. ASSUME NEW f \in Files, inode_remove(f) PROVE Refined' /\ StoreStep
  BY <1>4, RemoveRefines
<1>5. ASSUME NEW f \in Files, inode_deny_write(f) PROVE Refined' /\ StoreStep
  BY <1>5, DenyRefines
<1>6. ASSUME NEW f \in Files, NEW w \in Writes, NEW v \in Value, WriteReserve(f, w[1], w[2], v)
      PROVE  Refined' /\ StoreStep
  <2>1. w[1] \in Nat /\ w[2] \in Nat /\ w = << w[1], w[2] >>
    BY SizesAssumption
  <2>2. w[1] + w[2] # 0
    <3>1. w[1] + w[2] = 0 => w[1] = 0 /\ w[2] = 0
      BY <2>1
    <3> QED
      BY <2>1, <3>1
  <2> QED
    BY <1>6, <2>1, <2>2, ReserveRefines
<1>7. CASE WriteLength
  BY <1>7, LengthRefines
<1>8. CASE WriteChunk
  BY <1>8, ChunkRefines
<1>9. CASE UNCHANGED vars
  <2>1. /\ LiveFiles' = LiveFiles /\ InodeOf' = InodeOf /\ Opens' = Opens
        /\ disk' = disk /\ named' = named
    BY <1>9 DEF vars, LiveFiles, Live, InodeOf, Data, Opens
  <2>2. Refined'
    BY <1>9, <2>1 DEF vars, Refined, CleanFiles, Longer
  <2>3. \A f \in Files : Stays(f) /\ (Opens')[f] = Opens[f]
    BY <2>1 DEF Stays, AlikeNext, Alike
  <2> QED
    BY <2>1, <2>2, <2>3, StoreStays
<1> QED
  BY <1>1, <1>2, <1>3, <1>4, <1>5, <1>6, <1>7, <1>8, <1>9 DEF Next

LEMMA InitRefines == Init => Store!Init /\ Refined
<1> SUFFICES ASSUME Init PROVE Store!Init /\ Refined
  OBVIOUS
<1>1. Closed.open_cnt = 0 /\ FREE_MAP_SECTOR = 0
  BY ClosedIs, SystemSectors
<1>2. \A f \in Files : inode[f].open_cnt = 0 /\ f \notin named
  BY <1>1, FilesAre DEF Init
<1>3. \A f \in Files : ~Live(f) /\ f \notin LiveFiles
  BY <1>2, FilesAre, SystemSectors DEF Live, LiveFiles
<1>4. Refined
  BY <1>3 DEF Init, Idle, Refined, CleanFiles, Longer
<1>5. Contents = [f \in Files |-> << >>] /\ Opens = [f \in Files |-> 0]
  BY <1>2, <1>3 DEF Contents, Opens
<1>6. /\ Contents \in [Files -> Seq(Value \union {0})] /\ Opens \in [Files -> Nat]
      /\ named \in SUBSET Files
      /\ \A f \in Files : ~(f \in named \/ Opens[f] > 0) => Contents[f] = << >>
  <2>1. << >> \in Seq(Value \union {0})
    BY EmptySeq
  <2> QED
    BY <1>5, <2>1 DEF Init
<1>7. Store!Init
  BY <1>6, Zenon DEF Store!Init, Store!Live, Contents, Opens
<1> QED
  BY <1>4, <1>7

\* The files are what FileStore says: no step of a write or of a close outside
\* the lock shows the bytes of another file, or anything but zeros in what was
\* not written yet; a file that is removed keeps its bytes until the last close.
\* It takes that no program writes no bytes at offset 0: such a write makes a
\* file empty.
THEOREM FilesImplementStore ==
  ASSUME << 0, 0 >> \notin Writes
  PROVE  Spec => ImplementsStore
<1>1. Init => Store!Init /\ Refined
  BY InitRefines
<1>2. Inv /\ Inv' /\ Refined /\ [Next]_vars => Refined' /\ StoreStep
  BY StepRefines
<1>3. StoreStep => [Store!Next]_(Store!vars)
  BY DEF StoreStep
<1> QED
  BY <1>1, <1>2, <1>3, SpecInv, PTL DEF Spec, ImplementsStore, Store!Spec
===============================================================================
