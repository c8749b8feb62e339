----------------------------- MODULE ProcessProofs -----------------------------
(***************************************************************************)
(* Proofs about Process, for any threads, exit codes and pages: a page     *)
(* belongs to one pcb as long as its process lives, one thread can free    *)
(* it, and exec, wait and exit keep their contract.                        *)
(*                                                                         *)
(* A process and its parent share the pcb without a lock.  The invariant   *)
(* says what a thread that can still reach a page knows of it: it holds    *)
(* the pcb of one thread, which has exited if and only if the pcb says so. *)
(***************************************************************************)
EXTENDS Process, TLAPS

\* A process whose pcb is not marked as exited, and one that has marked it.
Early == {"start", "user", "exec", "wait", "reap", "kids", "orphan"}
Late == {"mark", "up", "last", "dead"}

\* Page p is on t's child_list, or in t's hands between two sections.
OnList(t, p) == \E i \in DOMAIN children[t] : children[t][i] = p
InHand(t, p) == pc[t] \in {"exec", "orphan"} /\ reg[t].pcb = p

\* Page p holds the pcb of c, and agrees with c on how far c has come.
IsPcbOf(p, c) ==
  /\ c \in Threads /\ mem[p] # Freed
  /\ \/ /\ pc[c] = "start" /\ reg[c].pcb = p
        /\ mem[p].init = 0 /\ mem[p].pid = Nothing
     \/ /\ pc[c] \in (Early \union Late) \ {"start"} /\ pcbOf[c] = p
        /\ mem[p].pid = IF reg[c].success THEN c ELSE Fail
  /\ mem[p].exited <=> pc[c] \in Late
  /\ mem[p].exitcode = reg[c].status

\* Main has no pcb; every other thread has one from start_process on.
HavePcbs ==
  /\ pcbOf[Main] = Nothing /\ pc[Main] \in Early \ {"start"}
  /\ \A t \in Threads : t # Main /\ pc[t] \notin {"none", "start"} => pcbOf[t] \in Pages

\* What the local variables are before they are used and after.
Registers ==
  \A t \in Threads :
    /\ pc[t] \in {"none", "start", "user", "exec", "wait", "reap"} => reg[t].success
    /\ pc[t] \in {"none", "start"} => reg[t].status = Fail
    /\ pc[t] \in {"none", "start"} \/ ~ reg[t].success => children[t] = << >>
    /\ pc[t] # "exec" => reg[t].tid = Nothing

\* The page of a process that has not marked its pcb is its own, and says so.
Owned ==
  \A t \in Threads : t # Main /\ pc[t] \in Early =>
    /\ mem[OwnPage(t)] # Freed /\ ~ mem[OwnPage(t)].exited
    /\ \A u \in Threads : u # t /\ u # Main /\ pc[u] \in Early => OwnPage(u) # OwnPage(t)

\* What is on a list is the pcb of a child that has been loaded, is on no other,
\* and is waited for just by the owner of the list.
Listed ==
  \A t \in Threads, p \in Pages : OnList(t, p) =>
    /\ IsPcbOf(p, mem[p].pid)
    /\ \A u \in Threads : OnList(u, p) => u = t
    /\ mem[p].waiting => pc[t] \in {"wait", "reap"} /\ reg[t].pcb = p

\* It is there once.
Distinct ==
  \A t \in Threads : \A i, j \in DOMAIN children[t] : children[t][i] = children[t][j] => i = j

\* A page in somebody's hands is a pcb, on no list and in nobody else's.
Held ==
  \A t \in Threads, p \in Pages : InHand(t, p) =>
    /\ mem[p] # Freed
    /\ \A u \in Threads : ~ OnList(u, p) /\ (InHand(u, p) => u = t)

\* The parent in exec has the pcb of the thread it created, the parent in wait
\* one of its list.
Working ==
  \A t \in Threads :
    /\ pc[t] = "exec" => IsPcbOf(reg[t].pcb, reg[t].tid) /\ ~ mem[reg[t].pcb].waiting
    /\ pc[t] \in {"wait", "reap"} => OnList(t, reg[t].pcb)

PcbInv == TypeOK /\ HavePcbs /\ Registers /\ Owned /\ Listed /\ Distinct /\ Held /\ Working

-------------------------------------------------------------------------------
\* The first occurrence of a page that is on a list once is the only one.
LEMMA RemoveOnce ==
  ASSUME NEW S, NEW s \in Seq(S), NEW i \in 1 .. Len(s),
         \A j \in 1 .. Len(s) : s[j] = s[i] => j = i
  PROVE  LET r == RemoveFirst(s, s[i])
         IN  /\ r \in Seq(S) /\ Len(r) = Len(s) - 1
             /\ \A j \in 1 .. Len(r) : r[j] = s[IF j < i THEN j ELSE j + 1]
<1>1. SelectInSeq(s, LAMBDA v : v = s[i]) = i
  <2>1. {j \in 1 .. Len(s) : s[j] = s[i]} = {i}
    OBVIOUS
  <2>2. Min({i}) = i
    BY DEF Min
  <2> QED
    BY <2>1, <2>2 DEF SelectInSeq
<1>2. RemoveFirst(s, s[i]) = SubSeq(s, 1, i - 1) \o SubSeq(s, i + 1, Len(s))
  BY <1>1 DEF RemoveFirst, RemoveAt
<1> DEFINE a == SubSeq(s, 1, i - 1)
           b == SubSeq(s, i + 1, Len(s))
<1>3. a \in Seq(S) /\ Len(a) = i - 1 /\ \A j \in 1 .. i - 1 : a[j] = s[j]
  OBVIOUS
<1>4. b \in Seq(S) /\ Len(b) = Len(s) - i /\ \A j \in 1 .. Len(s) - i : b[j] = s[i + j]
  OBVIOUS
<1> HIDE DEF a, b
<1>5. a \o b \in Seq(S) /\ Len(a \o b) = Len(s) - 1
  <2>1. a \in Seq(S) /\ b \in Seq(S)
    BY <1>3, <1>4
  <2>2. a \o b \in Seq(S) /\ Len(a \o b) = Len(a) + Len(b)
    BY <2>1
  <2> QED
    BY <1>3, <1>4, <2>2
<1>6. ASSUME NEW j \in 1 .. Len(s) - 1
      PROVE  (a \o b)[j] = s[IF j < i THEN j ELSE j + 1]
  <2>0. /\ j \in 1 .. Len(a) + Len(b)
        /\ (a \o b)[j] = IF j <= Len(a) THEN a[j] ELSE b[j - Len(a)]
    BY <1>3, <1>4
  <2>1. CASE j < i
    BY <1>3, <2>0, <2>1
  <2>2. CASE ~ (j < i)
    <3>1. (a \o b)[j] = b[j - Len(a)]
      BY <1>3, <2>0, <2>2
    <3>2. j - Len(a) \in 1 .. Len(s) - i /\ i + (j - Len(a)) = j + 1
      BY <1>3, <2>2
    <3> QED
      BY <1>4, <2>2, <3>1, <3>2
  <2> QED
    BY <2>1, <2>2
<1> QED
  BY <1>2, <1>5, <1>6 DEF a, b

\* r is the list s, on which no page is twice, without the one in place i.
Without(s, i, r) ==
  /\ s \in Seq(Pages) /\ r \in Seq(Pages) /\ i \in 1 .. Len(s) /\ Len(r) = Len(s) - 1
  /\ \A j, k \in 1 .. Len(s) : s[j] = s[k] => j = k
  /\ \A j \in 1 .. Len(r) : r[j] = s[IF j < i THEN j ELSE j + 1]

\* What is on such a list.
LEMMA OneLess ==
  ASSUME NEW s, NEW i, NEW r, Without(s, i, r)
  PROVE  /\ \A q : (\E j \in DOMAIN r : r[j] = q) <=>
                     (\E j \in DOMAIN s : s[j] = q) /\ q # s[i]
         /\ \A j, k \in DOMAIN r : r[j] = r[k] => j = k
<1>0. /\ s \in Seq(Pages) /\ r \in Seq(Pages) /\ i \in 1 .. Len(s) /\ Len(r) = Len(s) - 1
      /\ \A j, k \in 1 .. Len(s) : s[j] = s[k] => j = k
      /\ \A j \in 1 .. Len(r) : r[j] = s[IF j < i THEN j ELSE j + 1]
  BY DEF Without
<1>1. DOMAIN s = 1 .. Len(s) /\ Len(s) \in Nat /\ DOMAIN r = 1 .. Len(s) - 1
  BY <1>0
<1>2. \A j \in 1 .. Len(s) - 1 :
        \E k \in 1 .. Len(s) : k = (IF j < i THEN j ELSE j + 1) /\ k # i /\ r[j] = s[k]
  BY <1>0, <1>1
<1>3. ASSUME NEW q, NEW j \in DOMAIN r, r[j] = q
      PROVE  (\E k \in DOMAIN s : s[k] = q) /\ q # s[i]
  BY <1>0, <1>1, <1>2, <1>3
<1>4. ASSUME NEW k \in DOMAIN s, s[k] # s[i]
      PROVE  \E j \in DOMAIN r : r[j] = s[k]
  <2>1. CASE k < i
    <3>1. k \in 1 .. Len(r) /\ r[k] = s[k]
      BY <1>0, <1>1, <2>1
    <3> QED
      BY <1>1, <3>1
  <2>2. CASE ~ (k < i)
    <3>1. k # i /\ k - 1 \in 1 .. Len(r) /\ ~ (k - 1 < i) /\ (k - 1) + 1 = k
      BY <1>0, <1>1, <1>4, <2>2
    <3>2. r[k - 1] = s[k]
      BY <1>0, <3>1
    <3> QED
      BY <1>1, <3>1, <3>2
  <2> QED
    BY <2>1, <2>2
<1>5. ASSUME NEW j \in DOMAIN r, NEW k \in DOMAIN r, r[j] = r[k]
      PROVE  j = k
  <2>1. PICK a \in 1 .. Len(s) : a = (IF j < i THEN j ELSE j + 1) /\ r[j] = s[a]
    BY <1>1, <1>2
  <2>2. PICK b \in 1 .. Len(s) : b = (IF k < i THEN k ELSE k + 1) /\ r[k] = s[b]
    BY <1>1, <1>2
  <2>3. a = b
    BY <1>0, <1>5, <2>1, <2>2
  <2> QED
    BY <1>0, <1>1, <2>1, <2>2, <2>3
<1> QED
  BY <1>3, <1>4, <1>5

\* At first main runs alone, and no page is in use.
LEMMA InitPcb == Init => PcbInv
<1> SUFFICES ASSUME Init PROVE PcbInv
  OBVIOUS
<1>1. TypeOK
  BY NothingAssumption DEF Init, TypeOK, NoReg, Sections
<1>2. HavePcbs
  BY MainAssumption DEF Init, HavePcbs, Early
<1>3. \A t \in Threads : /\ pc[t] = IF t = Main THEN "user" ELSE "none"
                         /\ reg[t] = NoReg /\ children[t] = << >>
  <2>1. \A t \in Threads : pc[t] = IF t = Main THEN "user" ELSE "none"
    BY DEF Init
  <2>2. \A t \in Threads : reg[t] = NoReg /\ children[t] = << >>
    BY DEF Init
  <2> QED
    BY <2>1, <2>2
<1>4. Registers
  BY <1>3 DEF Registers, NoReg
<1>5. Listed /\ Distinct
  BY <1>3 DEF Listed, Distinct, OnList
<1>6. Owned /\ Held /\ Working
  BY <1>3 DEF Owned, Held, Working, InHand, Early
<1> QED
  BY <1>1, <1>2, <1>4, <1>5, <1>6 DEF PcbInv

\* What process_execute fills in is a pcb, and is not a free page.
LEMMA NewPcbType == NewPcb \in Pcb /\ NewPcb # Freed
<1>1. NewPcb \in Pcb
  BY DEF NewPcb, Pcb
<1> QED
  BY <1>1, FreedAssumption

\* A pcb with a field changed to a value of its type is a pcb.
LEMMA PcbFields ==
  ASSUME NEW m \in Pcb
  PROVE  /\ \A n \in Threads \union {Fail, Nothing} : [m EXCEPT !.pid = n] \in Pcb
         /\ \A n \in Threads \union {Fail, Nothing}, i \in Nat :
               [m EXCEPT !.pid = n, !.init = i] \in Pcb
         /\ \A i \in Nat : [m EXCEPT !.init = i] \in Pcb /\ [m EXCEPT !.wait = i] \in Pcb
         /\ \A k \in Codes \union {Fail} : [m EXCEPT !.exitcode = k] \in Pcb
         /\ [m EXCEPT !.waiting = TRUE] \in Pcb
         /\ [m EXCEPT !.exited = TRUE] \in Pcb
         /\ [m EXCEPT !.orphan = TRUE] \in Pcb
  BY DEF Pcb

\* The page a thread works on is a pcb's.
LEMMA PageInUse ==
  ASSUME PcbInv, NEW t \in Threads
  PROVE  /\ pc[t] \in {"start", "exec", "wait", "reap", "orphan"} =>
              reg[t].pcb \in Pages /\ mem[reg[t].pcb] \in Pcb
         /\ t # Main /\ pc[t] \in Early \ {"start"} =>
              pcbOf[t] \in Pages /\ mem[pcbOf[t]] \in Pcb
         /\ \A i \in DOMAIN children[t] : /\ children[t][i] \in Pages
                                          /\ mem[children[t][i]] \in Pcb
<1>1. \A p \in Pages : mem[p] # Freed => mem[p] \in Pcb
  BY DEF PcbInv, TypeOK
<1>2. pc[t] \in {"start", "exec", "wait", "reap", "orphan"} => reg[t].pcb \in Pages
  BY DEF PcbInv, TypeOK
<1>3. \A p \in Pages : OnList(t, p) => mem[p] # Freed
  BY DEF PcbInv, Listed, IsPcbOf
<1>4. pc[t] \in {"exec", "orphan"} => mem[reg[t].pcb] # Freed
  BY <1>2 DEF PcbInv, Held, InHand
<1>5. pc[t] \in {"wait", "reap"} => mem[reg[t].pcb] # Freed
  BY <1>2, <1>3 DEF PcbInv, Working
<1>6. t # Main /\ pc[t] \in Early => mem[OwnPage(t)] # Freed
  BY DEF PcbInv, Owned
<1>7. t # Main /\ pc[t] \in Early \ {"start"} => pcbOf[t] \in Pages
  BY DEF PcbInv, HavePcbs, Early
<1>8. pc[t] = "start" => t # Main
  BY DEF PcbInv, HavePcbs
<1>9. \A i \in DOMAIN children[t] : children[t][i] \in Pages
  BY DEF PcbInv, TypeOK
<1> QED
  BY <1>1, <1>2, <1>3, <1>4, <1>5, <1>6, <1>7, <1>8, <1>9 DEF OwnPage, Early, OnList
\* The registers but one thread's or two threads' stay what they are.
Regs == [pcb : Pages \union {Nothing}, tid : Threads \union {Nothing}, success : BOOLEAN,
         status : Codes \union {Fail}, orphan : BOOLEAN]

\* Registers with a field changed to a value of its type are registers.
LEMMA RegFields ==
  ASSUME NEW r \in Regs
  PROVE  /\ \A p \in Pages \union {Nothing} : /\ [r EXCEPT !.pcb = p] \in Regs
                                              /\ [r EXCEPT !.pcb = p].pcb = p
         /\ \A p \in Pages \union {Nothing}, c \in Threads \union {Nothing} :
               /\ [r EXCEPT !.pcb = p, !.tid = c] \in Regs
               /\ [r EXCEPT !.pcb = p, !.tid = c].pcb = p
         /\ \A b \in BOOLEAN, p \in Pages \union {Nothing} :
               [r EXCEPT !.success = b, !.pcb = p] \in Regs
         /\ \A k \in Codes \union {Fail} : [r EXCEPT !.status = k] \in Regs
         /\ \A b \in BOOLEAN : /\ [r EXCEPT !.orphan = b] \in Regs
                                /\ [r EXCEPT !.orphan = b].pcb = r.pcb
  BY DEF Regs

\* Every step keeps the types.
LEMMA TypeStep ==
  ASSUME PcbInv, Next
  PROVE  TypeOK'
<1>0. /\ pc \in [Threads -> Sections] /\ mem \in [Pages -> Pcb \union {Freed}]
      /\ pcbOf \in [Threads -> Pages \union {Nothing}]
      /\ children \in [Threads -> Seq(Pages)] /\ reg \in [Threads -> Regs]
      /\ filesys \in Threads \union {Nothing}
      /\ \A t \in Threads :
           pc[t] \in {"start", "exec", "wait", "reap", "orphan"} => reg[t].pcb \in Pages
  BY DEF PcbInv, TypeOK, Regs
<1> DEFINE Kept(t) == pc'[t] \in {"start", "exec", "wait", "reap", "orphan"} =>
                        reg'[t].pcb \in Pages
<1>q. ASSUME pc' \in [Threads -> Sections], mem' \in [Pages -> Pcb \union {Freed}],
             pcbOf' \in [Threads -> Pages \union {Nothing}],
             children' \in [Threads -> Seq(Pages)], reg' \in [Threads -> Regs],
             filesys' \in Threads \union {Nothing}, \A t \in Threads : Kept(t)
      PROVE  TypeOK'
  BY <1>q DEF TypeOK, Regs
<1>1. ASSUME NEW t \in Threads, ExecFail(t) PROVE TypeOK'
  BY <1>0, <1>1, <1>q DEF ExecFail
<1>2. ASSUME NEW t \in Threads, NEW c \in Threads, NEW p \in Pages, Exec(t, c, p)
      PROVE  TypeOK'
  <2>1. mem' \in [Pages -> Pcb \union {Freed}]
    BY <1>0, <1>2, NewPcbType DEF Exec
  <2>2. /\ pc' = [pc EXCEPT ![t] = "exec", ![c] = "start"]
        /\ pcbOf' = pcbOf /\ children' = children /\ filesys' \in {filesys, t}
        /\ reg' = [reg EXCEPT ![t].pcb = p, ![t].tid = c, ![c].pcb = p]
    BY <1>2 DEF Exec
  <2>3. reg' \in [Threads -> Regs] /\ \A u \in Threads : Kept(u)
    <3>1. /\ DOMAIN reg' = Threads /\ reg' = [u \in Threads |-> reg'[u]]
          /\ reg'[t] = [reg[t] EXCEPT !.pcb = p, !.tid = c]
          /\ reg'[c] = [reg[c] EXCEPT !.pcb = p]
          /\ \A u \in Threads : u # t /\ u # c => reg'[u] = reg[u]
      BY <1>0, <1>2, <2>2 DEF Exec, MayCall, At
    <3>2. reg'[t] \in Regs /\ reg'[c] \in Regs /\ reg'[t].pcb = p /\ reg'[c].pcb = p
      <4>1. /\ [reg[t] EXCEPT !.pcb = p, !.tid = c] \in Regs
            /\ [reg[t] EXCEPT !.pcb = p, !.tid = c].pcb = p
        BY <1>0 DEF Regs
      <4>2. [reg[c] EXCEPT !.pcb = p] \in Regs /\ [reg[c] EXCEPT !.pcb = p].pcb = p
        BY <1>0, RegFields
      <4> QED
        BY <3>1, <4>1, <4>2
    <3>3. \A u \in Threads : u # t /\ u # c => pc'[u] = pc[u]
      BY <1>0, <2>2
    <3>4. \A u \in Threads : reg'[u] \in Regs
      BY <1>0, <3>1, <3>2
    <3>5. reg' \in [Threads -> Regs]
      BY <3>1, <3>4
    <3>6. \A u \in Threads : Kept(u)
      BY <1>0, <3>1, <3>2, <3>3
    <3> QED
      BY <3>5, <3>6
  <2>4. pc' \in [Threads -> Sections]
    BY <1>0, <2>2 DEF Sections
  <2> QED
    BY <1>0, <1>q, <2>1, <2>2, <2>3, <2>4
<1>3. ASSUME NEW c \in Threads, NEW success \in BOOLEAN, Start(c, success)
      PROVE  TypeOK'
  <2>0. reg[c].pcb \in Pages /\ mem[reg[c].pcb] \in Pcb
    BY <1>3, PageInUse DEF Start, At
  <2>1. /\ mem' = [mem EXCEPT ![reg[c].pcb].pid = IF success THEN c ELSE Fail,
                              ![reg[c].pcb].init = @ + 1]
        /\ pc' = [pc EXCEPT ![c] = IF success THEN "user" ELSE "kids"]
        /\ pcbOf' = [pcbOf EXCEPT ![c] = reg[c].pcb]
        /\ reg' = [reg EXCEPT ![c].success = success, ![c].pcb = Nothing]
        /\ children' = children /\ filesys' = filesys
    BY <1>3 DEF Start, Goto
  <2>2. mem[reg[c].pcb].init + 1 \in Nat
    BY <2>0 DEF Pcb
  <2>3. mem' \in [Pages -> Pcb \union {Freed}]
    BY <1>0, <2>0, <2>1, <2>2, PcbFields
  <2>4. reg' \in [Threads -> Regs] /\ \A u \in Threads : Kept(u)
    BY <1>0, <2>1, RegFields
  <2>5. pc' \in [Threads -> Sections] /\ pcbOf' \in [Threads -> Pages \union {Nothing}]
    BY <1>0, <2>0, <2>1 DEF Sections
  <2> QED
    BY <1>0, <1>q, <2>1, <2>3, <2>4, <2>5
<1>4. ASSUME NEW t \in Threads, ExecDone(t) PROVE TypeOK'
  <2>0. reg[t].pcb \in Pages /\ mem[reg[t].pcb] \in Pcb
    BY <1>4, PageInUse DEF ExecDone, At
  <2>1. /\ mem' = [mem EXCEPT ![reg[t].pcb].init = @ - 1] /\ mem[reg[t].pcb].init > 0
        /\ pc' = [pc EXCEPT ![t] = "user"] /\ pcbOf' = pcbOf
        /\ reg' = [reg EXCEPT ![t].pcb = Nothing, ![t].tid = Nothing]
        /\ filesys' \in {filesys, Nothing}
        /\ \/ children' = [children EXCEPT ![t] = Append(@, reg[t].pcb)]
           \/ children' = children
    BY <1>4 DEF ExecDone, Goto
  <2>2. mem[reg[t].pcb].init - 1 \in Nat
    BY <2>0, <2>1 DEF Pcb
  <2>3. mem' \in [Pages -> Pcb \union {Freed}]
    BY <1>0, <2>0, <2>1, <2>2, PcbFields
  <2>4. reg' \in [Threads -> Regs] /\ \A u \in Threads : Kept(u)
    <3>1. [reg[t] EXCEPT !.pcb = Nothing, !.tid = Nothing] \in Regs
      BY <1>0, RegFields
    <3>2. reg' \in [Threads -> Regs] /\ \A u \in Threads : u # t => reg'[u] = reg[u]
      BY <1>0, <2>1, <3>1
    <3>3. pc'[t] = "user" /\ \A u \in Threads : u # t => pc'[u] = pc[u]
      BY <1>0, <2>1
    <3> QED
      BY <1>0, <3>2, <3>3
  <2>5. pc' \in [Threads -> Sections]
    BY <1>0, <2>1 DEF Sections
  <2>6. children' \in [Threads -> Seq(Pages)]
    <3>1. Append(children[t], reg[t].pcb) \in Seq(Pages)
      BY <1>0, <2>0
    <3> QED
      BY <1>0, <2>1, <3>1
  <2> QED
    BY <1>0, <1>q, <2>1, <2>3, <2>4, <2>5, <2>6
<1>5. ASSUME NEW t \in Threads, NEW c \in Threads, WaitNone(t, c) PROVE TypeOK'
  BY <1>0, <1>5, <1>q DEF WaitNone
<1>6. ASSUME NEW t \in Threads, NEW c \in Threads, Wait(t, c) PROVE TypeOK'
  <2>1. PICK p \in PcbFor(t, c) :
          /\ mem' = [mem EXCEPT ![p].waiting = TRUE]
          /\ reg' = [reg EXCEPT ![t].pcb = p]
          /\ Goto(t, IF mem[p].exited THEN "reap" ELSE "wait")
    BY <1>6 DEF Wait
  <2>2. p \in Pages /\ mem[p] \in Pcb
    BY PageInUse DEF PcbFor, ToSet
  <2>3. mem' \in [Pages -> Pcb \union {Freed}]
    BY <1>0, <2>1, <2>2, PcbFields
  <2>4. reg' \in [Threads -> Regs] /\ \A u \in Threads : Kept(u)
    <3>1. [reg[t] EXCEPT !.pcb = p] \in Regs /\ [reg[t] EXCEPT !.pcb = p].pcb = p
      BY <1>0, <2>2, RegFields
    <3>2. reg' \in [Threads -> Regs] /\ reg'[t].pcb = p
      BY <1>0, <2>1, <3>1
    <3>3. \A u \in Threads : u # t => reg'[u] = reg[u] /\ pc'[u] = pc[u]
      BY <1>0, <2>1 DEF Goto
    <3> QED
      BY <1>0, <2>2, <3>2, <3>3
  <2>5. pc' \in [Threads -> Sections]
    BY <1>0, <2>1 DEF Sections, Goto
  <2> QED
    BY <1>0, <1>6, <1>q, <2>3, <2>4, <2>5 DEF Wait
<1>7. ASSUME NEW t \in Threads, WaitDown(t) PROVE TypeOK'
  <2>0. reg[t].pcb \in Pages /\ mem[reg[t].pcb] \in Pcb
    BY <1>7, PageInUse DEF WaitDown, At
  <2>1. /\ mem' = [mem EXCEPT ![reg[t].pcb].wait = @ - 1] /\ mem[reg[t].pcb].wait > 0
        /\ pc[t] = "wait" /\ pc' = [pc EXCEPT ![t] = "reap"]
        /\ pcbOf' = pcbOf /\ children' = children /\ reg' = reg /\ filesys' = filesys
    BY <1>7 DEF WaitDown, Goto, At
  <2>2. mem[reg[t].pcb].wait - 1 \in Nat
    BY <2>0, <2>1 DEF Pcb
  <2>3. mem' \in [Pages -> Pcb \union {Freed}]
    BY <1>0, <2>0, <2>1, <2>2, PcbFields
  <2>4. pc' \in [Threads -> Sections] /\ \A u \in Threads : Kept(u)
    BY <1>0, <2>0, <2>1 DEF Sections
  <2> QED
    BY <1>0, <1>q, <2>1, <2>3, <2>4
<1>8. ASSUME NEW t \in Threads, Reap(t) PROVE TypeOK'
  <2>0. reg[t].pcb \in Pages /\ pc[t] = "reap"
    BY <1>0, <1>8 DEF Reap, At
  <2>1. CASE panic' = "not exited" /\ UNCHANGED << children, ret, mem, reg, pc >>
    BY <1>0, <1>8, <1>q, <2>1 DEF Reap
  <2>2. CASE mem[reg[t].pcb].exited
    <3>1. /\ mem' = [mem EXCEPT ![reg[t].pcb] = Freed]
          /\ reg' = [reg EXCEPT ![t].pcb = Nothing]
          /\ pc' = [pc EXCEPT ![t] = "user"]
          /\ children' = [children EXCEPT ![t] = RemoveFirst(@, reg[t].pcb)]
          /\ pcbOf' = pcbOf /\ filesys' = filesys
      BY <1>8, <2>2 DEF Reap, Goto
    <3>2. RemoveFirst(children[t], reg[t].pcb) \in Seq(Pages)
      <4>1. PICK i \in DOMAIN children[t] : children[t][i] = reg[t].pcb
        BY <2>0 DEF PcbInv, Working, OnList
      <4>2. \A j \in 1 .. Len(children[t]) : children[t][j] = children[t][i] => j = i
        BY <4>1 DEF PcbInv, Distinct
      <4> QED
        BY <1>0, <4>1, <4>2, RemoveOnce
    <3>3. mem' \in [Pages -> Pcb \union {Freed}] /\ children' \in [Threads -> Seq(Pages)]
      BY <1>0, <2>0, <3>1, <3>2
    <3>4. /\ reg' \in [Threads -> Regs] /\ pc' \in [Threads -> Sections]
          /\ \A u \in Threads : Kept(u)
      BY <1>0, <3>1, RegFields DEF Sections
    <3> QED
      BY <1>0, <1>q, <3>1, <3>3, <3>4
  <2> QED
    BY <1>8, <2>1, <2>2 DEF Reap
<1>9. ASSUME NEW t \in Threads, NEW k \in Codes \union {Fail}, Exit(t, k)
      PROVE  TypeOK'
  <2>1. /\ pc[t] = "user" /\ pc' = [pc EXCEPT ![t] = "kids"]
        /\ reg' = [reg EXCEPT ![t].status = k]
        /\ mem' = IF pcbOf[t] = Nothing THEN mem
                  ELSE [mem EXCEPT ![pcbOf[t]].exitcode = k]
        /\ pcbOf' = pcbOf /\ children' = children /\ filesys' = filesys
    BY <1>9 DEF Exit, MayCall, At, Goto
  <2>2. pcbOf[t] # Nothing => pcbOf[t] \in Pages /\ mem[pcbOf[t]] \in Pcb
    BY <2>1, PageInUse DEF PcbInv, HavePcbs, Early
  <2>3. mem' \in [Pages -> Pcb \union {Freed}]
    BY <1>0, <2>1, <2>2, PcbFields
  <2>4. /\ reg' \in [Threads -> Regs] /\ pc' \in [Threads -> Sections]
        /\ \A u \in Threads : Kept(u)
    BY <1>0, <2>1, RegFields DEF Sections
  <2> QED
    BY <1>0, <1>q, <2>1, <2>3, <2>4
<1>10. ASSUME NEW t \in Threads, ExitChild(t) PROVE TypeOK'
  <2> DEFINE p == Head(children[t])
  <2>0. p \in Pages /\ Tail(children[t]) \in Seq(Pages)
    BY <1>0, <1>10 DEF ExitChild
  <2> HIDE DEF p
  <2>1. /\ children' = [children EXCEPT ![t] = Tail(@)]
        /\ \/ mem' = [mem EXCEPT ![p] = Freed] /\ UNCHANGED << pc, reg >>
           \/ /\ pc' = [pc EXCEPT ![t] = "orphan"]
              /\ reg' = [reg EXCEPT ![t].pcb = p]
              /\ UNCHANGED mem
        /\ pcbOf' = pcbOf /\ filesys' = filesys
    BY <1>10 DEF ExitChild, Goto, p
  <2>2. mem' \in [Pages -> Pcb \union {Freed}] /\ children' \in [Threads -> Seq(Pages)]
    BY <1>0, <2>0, <2>1
  <2>3. /\ reg' \in [Threads -> Regs] /\ pc' \in [Threads -> Sections]
        /\ \A u \in Threads : Kept(u)
    <3>1. [reg[t] EXCEPT !.pcb = p] \in Regs /\ [reg[t] EXCEPT !.pcb = p].pcb = p
      BY <1>0, <2>0, RegFields
    <3>2. CASE pc' = pc /\ reg' = reg
      BY <1>0, <3>2
    <3>3. CASE pc' = [pc EXCEPT ![t] = "orphan"] /\ reg' = [reg EXCEPT ![t].pcb = p]
      <4>1. reg' \in [Threads -> Regs] /\ reg'[t].pcb = p /\ pc' \in [Threads -> Sections]
        BY <1>0, <3>1, <3>3 DEF Sections
      <4>2. \A u \in Threads : u # t => reg'[u] = reg[u] /\ pc'[u] = pc[u]
        BY <1>0, <3>3
      <4> QED
        BY <1>0, <2>0, <4>1, <4>2
    <3> QED
      BY <2>1, <3>2, <3>3
  <2> QED
    BY <1>0, <1>q, <2>1, <2>2, <2>3
<1>11. ASSUME NEW t \in Threads, ExitOrphan(t) PROVE TypeOK'
  <2>0. reg[t].pcb \in Pages /\ mem[reg[t].pcb] \in Pcb
    BY <1>11, PageInUse DEF ExitOrphan, At
  <2>1. /\ mem' = [mem EXCEPT ![reg[t].pcb].orphan = TRUE]
        /\ pc' = [pc EXCEPT ![t] = "kids"]
        /\ reg' = [reg EXCEPT ![t].pcb = Nothing]
        /\ pcbOf' = pcbOf /\ children' = children /\ filesys' = filesys
    BY <1>11 DEF ExitOrphan, Goto
  <2>2. mem' \in [Pages -> Pcb \union {Freed}]
    BY <1>0, <2>0, <2>1, PcbFields
  <2>3. /\ reg' \in [Threads -> Regs] /\ pc' \in [Threads -> Sections]
        /\ \A u \in Threads : Kept(u)
    BY <1>0, <2>1, RegFields DEF Sections
  <2> QED
    BY <1>0, <1>q, <2>1, <2>2, <2>3
<1>12. ASSUME NEW t \in Threads, ExitMark(t) PROVE TypeOK'
  <2>1. /\ pc[t] = "kids" /\ UNCHANGED << pcbOf, children, reg, filesys >>
        /\ \/ UNCHANGED << mem, pc >>
           \/ /\ pcbOf[t] # Nothing
              /\ mem' = [mem EXCEPT ![pcbOf[t]].exited = TRUE]
              /\ pc' = [pc EXCEPT ![t] = "mark"]
    BY <1>12 DEF ExitMark, At, Goto
  <2>2. pcbOf[t] # Nothing => pcbOf[t] \in Pages /\ mem[pcbOf[t]] \in Pcb
    BY <2>1, PageInUse DEF PcbInv, HavePcbs, Early
  <2>3. mem' \in [Pages -> Pcb \union {Freed}]
    BY <1>0, <2>1, <2>2, PcbFields
  <2>4. pc' \in [Threads -> Sections] /\ \A u \in Threads : Kept(u)
    BY <1>0, <2>1 DEF Sections
  <2> QED
    BY <1>0, <1>q, <2>1, <2>3, <2>4
<1>13. ASSUME NEW t \in Threads, ExitRead(t) \/ ExitUp(t) \/ ExitLast(t) PROVE TypeOK'
  <2>0. pc[t] \in {"mark", "up", "last"} /\ t # Main
    BY <1>13 DEF ExitRead, ExitUp, ExitLast, At, PcbInv, HavePcbs, Early
  <2>1. pcbOf[t] \in Pages
    BY <2>0 DEF PcbInv, HavePcbs
  <2>2. /\ UNCHANGED << pcbOf, children, filesys >>
        /\ pc' = pc \/ \E l \in {"up", "last", "dead"} : pc' = [pc EXCEPT ![t] = l]
    BY <1>13 DEF ExitRead, ExitUp, ExitLast, Goto
  <2>3. mem' \in [Pages -> Pcb \union {Freed}]
    <3>1. CASE mem' = mem
      BY <1>0, <3>1
    <3>2. CASE ExitUp(t) /\ mem[pcbOf[t]] # Freed
      <4>1. mem[pcbOf[t]] \in Pcb
        BY <1>0, <2>1, <3>2
      <4>2. mem[pcbOf[t]].wait + 1 \in Nat
        BY <4>1 DEF Pcb
      <4>3. mem' = [mem EXCEPT ![pcbOf[t]].wait = @ + 1]
        BY <3>2 DEF ExitUp
      <4> QED
        BY <1>0, <2>1, <4>1, <4>2, <4>3, PcbFields
    <3> QED
      BY <1>13, <3>1, <3>2 DEF ExitRead, ExitUp, ExitLast
  <2>4. reg' = reg \/ \E b \in BOOLEAN : reg' = [reg EXCEPT ![t].orphan = b]
    <3>1. CASE ExitRead(t)
      <4>1. mem[pcbOf[t]] # Freed => mem[pcbOf[t]].orphan \in BOOLEAN
        BY <1>0, <2>1 DEF Pcb
      <4> QED
        BY <3>1, <4>1 DEF ExitRead
    <3> QED
      BY <1>13, <3>1 DEF ExitUp, ExitLast
  <2>5. /\ reg' \in [Threads -> Regs] /\ \A u \in Threads : reg'[u].pcb = reg[u].pcb
        /\ pc' \in [Threads -> Sections]
    <3>1. \A b \in BOOLEAN : /\ [reg[t] EXCEPT !.orphan = b] \in Regs
                             /\ [reg[t] EXCEPT !.orphan = b].pcb = reg[t].pcb
      BY <1>0, RegFields
    <3>2. reg' \in [Threads -> Regs] /\ \A u \in Threads : reg'[u].pcb = reg[u].pcb
      BY <1>0, <2>4, <3>1
    <3>3. pc' \in [Threads -> Sections]
      BY <1>0, <2>2 DEF Sections
    <3> QED
      BY <3>2, <3>3
  <2>6. \A u \in Threads : Kept(u)
    BY <1>0, <2>0, <2>2, <2>5
  <2> QED
    BY <1>0, <1>q, <2>2, <2>3, <2>5, <2>6
<1> QED
  BY <1>1, <1>2, <1>3, <1>4, <1>5, <1>6, <1>7, <1>8, <1>9, <1>10, <1>11, <1>12, <1>13
     DEF Next, KernelStep
\* What IsPcbOf and Owned say of a page, and of a thread.
SamePage(p) ==
  /\ mem'[p] = Freed <=> mem[p] = Freed
  /\ mem[p] # Freed =>
       /\ mem'[p].pid = mem[p].pid /\ mem'[p].init = mem[p].init
       /\ mem'[p].exited = mem[p].exited /\ mem'[p].exitcode = mem[p].exitcode

SameLife(t) ==
  /\ \A L \in {{"none"}, {"start"}, Early, Late} : pc'[t] \in L <=> pc[t] \in L
  /\ pcbOf'[t] = pcbOf[t]
  /\ pc[t] = "start" => reg'[t].pcb = reg[t].pcb
  /\ reg'[t].success = reg[t].success
  /\ t # Main => reg'[t].status = reg[t].status

\* If both are the same, the page is still the pcb of that thread.
LEMMA SamePcb ==
  ASSUME PcbInv, NEW p \in Pages, NEW c, IsPcbOf(p, c), SamePage(p), SameLife(c)
  PROVE  IsPcbOf(p, c)'
<1>1. c # Main
  BY NothingAssumption DEF IsPcbOf, PcbInv, HavePcbs
<1> QED
  BY <1>1 DEF IsPcbOf, SamePage, SameLife, Early, Late

\* A step that only changes what is in somebody's hands, on a list or waited
\* for keeps every page with its owner.
LEMMA SameOwners ==
  ASSUME PcbInv, \A t \in Threads : SameLife(t), \A p \in Pages : SamePage(p)
  PROVE  /\ HavePcbs' /\ Owned'
         /\ \A p \in Pages, c \in Threads : IsPcbOf(p, c) =>
              IsPcbOf(p, c)' /\ mem'[p].pid = mem[p].pid
<1>1. HavePcbs'
  BY MainAssumption DEF PcbInv, HavePcbs, SameLife, Early, Late
<1>2. Owned'
  BY PageInUse DEF PcbInv, Owned, OwnPage, SameLife, SamePage, Early, Late
<1>3. \A p \in Pages, c \in Threads : IsPcbOf(p, c) =>
              IsPcbOf(p, c)' /\ mem'[p].pid = mem[p].pid
  BY SamePcb DEF IsPcbOf, SamePage
<1> QED
  BY <1>1, <1>2, <1>3

\* A thread that has the same in hand and waits for the same as before.
SameWork(t) ==
  /\ \A l \in {"exec", "orphan"} : pc'[t] = l <=> pc[t] = l
  /\ pc'[t] \in {"wait", "reap"} <=> pc[t] \in {"wait", "reap"}
  /\ reg'[t].pcb = reg[t].pcb /\ reg'[t].tid = reg[t].tid

\* If nothing of all that changes, the invariant is kept.
LEMMA CalmStep ==
  ASSUME PcbInv, TypeOK', children' = children, Registers',
         \A t \in Threads : SameLife(t) /\ SameWork(t),
         \A p \in Pages : SamePage(p) /\ (mem[p] # Freed => mem'[p].waiting = mem[p].waiting)
  PROVE  PcbInv'
<1>0. \A t, p : OnList(t, p)' <=> OnList(t, p)
  BY DEF OnList
<1>1. \A t \in Threads : \A p : InHand(t, p)' <=> InHand(t, p)
  BY DEF InHand, SameWork
<1>2. /\ HavePcbs' /\ Owned'
      /\ \A p \in Pages, c \in Threads : IsPcbOf(p, c) =>
           IsPcbOf(p, c)' /\ mem'[p].pid = mem[p].pid
  BY SameOwners
<1>3. Listed'
  <2> SUFFICES ASSUME NEW t \in Threads, NEW p \in Pages, OnList(t, p)'
               PROVE  /\ IsPcbOf(p, mem[p].pid)'
                      /\ \A u \in Threads : OnList(u, p)' => u = t
                      /\ mem'[p].waiting => pc'[t] \in {"wait", "reap"} /\ reg'[t].pcb = p
    BY DEF Listed
  <2>1. /\ IsPcbOf(p, mem[p].pid) /\ \A u \in Threads : OnList(u, p) => u = t
        /\ mem[p].waiting => pc[t] \in {"wait", "reap"} /\ reg[t].pcb = p
    BY <1>0 DEF PcbInv, Listed
  <2>2. mem[p] # Freed /\ mem[p].pid \in Threads
    BY <2>1 DEF IsPcbOf
  <2>3. IsPcbOf(p, mem[p].pid)'
    BY <1>2, <2>1, <2>2
  <2> QED
    BY <1>0, <2>1, <2>2, <2>3 DEF SameWork
<1>4. Distinct'
  BY DEF PcbInv, Distinct
<1>5. Held'
  BY <1>0, <1>1 DEF PcbInv, Held, SamePage
<1>6. Working'
  <2> SUFFICES ASSUME NEW t \in Threads
               PROVE  /\ pc'[t] = "exec" => /\ IsPcbOf(reg[t].pcb, reg[t].tid)'
                                            /\ ~ mem'[reg'[t].pcb].waiting
                      /\ pc'[t] \in {"wait", "reap"} => OnList(t, reg[t].pcb)'
    BY DEF Working
  <2>1. CASE pc'[t] = "exec"
    <3>1. pc[t] = "exec" /\ reg'[t].pcb = reg[t].pcb /\ reg'[t].tid = reg[t].tid
      BY <2>1 DEF SameWork
    <3>2. reg[t].pcb \in Pages
      BY <3>1, PageInUse
    <3>3. IsPcbOf(reg[t].pcb, reg[t].tid) /\ ~ mem[reg[t].pcb].waiting
      BY <3>1 DEF PcbInv, Working
    <3>4. IsPcbOf(reg[t].pcb, reg[t].tid)' /\ mem[reg[t].pcb] # Freed
      BY <1>2, <3>1, <3>2, <3>3 DEF IsPcbOf
    <3> QED
      BY <2>1, <3>1, <3>2, <3>3, <3>4
  <2>2. CASE pc'[t] \in {"wait", "reap"}
    BY <1>0, <2>2 DEF PcbInv, Working, SameWork
  <2> QED
    BY <2>1, <2>2
<1> QED
  BY <1>2, <1>3, <1>4, <1>5, <1>6 DEF PcbInv
\* The types that the steps below rest on.
LEMMA Typed ==
  ASSUME PcbInv
  PROVE  /\ pc \in [Threads -> Sections] /\ mem \in [Pages -> Pcb \union {Freed}]
         /\ pcbOf \in [Threads -> Pages \union {Nothing}]
         /\ children \in [Threads -> Seq(Pages)] /\ reg \in [Threads -> Regs]
  BY DEF PcbInv, TypeOK, Regs

\* The steps that leave threads, pages and lists as they are.
LEMMA StillStep ==
  ASSUME PcbInv, TypeOK', UNCHANGED << pc, mem, pcbOf, children, reg >>
  PROVE  PcbInv'
<1>1. Registers'
  BY DEF PcbInv, Registers
<1>2. \A t \in Threads : SameLife(t) /\ SameWork(t)
  BY DEF SameLife, SameWork
<1>3. \A p \in Pages : SamePage(p)
  BY DEF SamePage
<1> QED
  BY <1>1, <1>2, <1>3, CalmStep

\* sema_wait goes up and down, and a process that has marked its pcb goes on.
LEMMA SemaStep ==
  ASSUME PcbInv, TypeOK', NEW t \in Threads,
         WaitDown(t) \/ ExitRead(t) \/ ExitUp(t) \/ ExitLast(t)
  PROVE  PcbInv'
<1>0. /\ pc \in [Threads -> Sections] /\ mem \in [Pages -> Pcb \union {Freed}]
      /\ reg \in [Threads -> Regs]
  BY Typed
<1>1. children' = children /\ pcbOf' = pcbOf
  BY DEF WaitDown, ExitRead, ExitUp, ExitLast
<1>2. /\ \A u \in Threads : u # t => pc'[u] = pc[u]
      /\ \/ pc[t] = "wait" /\ pc'[t] = "reap"
         \/ pc[t] \in Late /\ pc'[t] \in Late
  BY <1>0 DEF WaitDown, ExitRead, ExitUp, ExitLast, At, Goto, Late
<1>3. \A u \in Threads : /\ reg'[u].pcb = reg[u].pcb /\ reg'[u].tid = reg[u].tid
                         /\ reg'[u].success = reg[u].success
                         /\ reg'[u].status = reg[u].status
  <2>1. reg' = reg \/ \E b : reg' = [reg EXCEPT ![t].orphan = b]
    BY DEF WaitDown, ExitRead, ExitUp, ExitLast
  <2> QED
    BY <1>0, <2>1 DEF Regs
<1>4. \A p \in Pages : /\ SamePage(p)
                       /\ mem[p] # Freed => mem'[p].waiting = mem[p].waiting
  <2>1. CASE mem' = mem
    BY <2>1 DEF SamePage
  <2>2. CASE mem' # mem
    <3>1. PICK p \in Pages, n \in Nat :
            mem[p] \in Pcb /\ mem' = [mem EXCEPT ![p].wait = n]
      <4>1. CASE WaitDown(t)
        <5>1. reg[t].pcb \in Pages /\ mem[reg[t].pcb] \in Pcb
          BY <4>1, PageInUse DEF WaitDown, At
        <5>2. mem[reg[t].pcb].wait - 1 \in Nat
          BY <4>1, <5>1 DEF WaitDown, Pcb
        <5> QED
          BY <4>1, <5>1, <5>2 DEF WaitDown
      <4>2. CASE ExitUp(t)
        <5>1. pcbOf[t] \in Pages
          BY <4>2 DEF ExitUp, At, PcbInv, HavePcbs, Early
        <5>2. mem[pcbOf[t]] \in Pcb
          BY <1>0, <2>2, <4>2, <5>1 DEF ExitUp
        <5>3. mem[pcbOf[t]].wait + 1 \in Nat
          BY <5>2 DEF Pcb
        <5> QED
          BY <2>2, <4>2, <5>1, <5>2, <5>3 DEF ExitUp
      <4> QED
        BY <2>2, <4>1, <4>2 DEF ExitRead, ExitLast
    <3>2. /\ \A q \in Pages : q # p => mem'[q] = mem[q]
          /\ mem'[p] = [mem[p] EXCEPT !.wait = n]
      BY <1>0, <3>1
    <3>3. mem'[p] # Freed /\ mem[p] # Freed
      <4>1. [mem[p] EXCEPT !.wait = n] \in Pcb
        BY <3>1 DEF Pcb
      <4> QED
        BY <3>1, <3>2, <4>1, FreedAssumption
    <3>4. SamePage(p) /\ mem'[p].waiting = mem[p].waiting
      BY <3>1, <3>2, <3>3 DEF SamePage, Pcb
    <3> QED
      BY <3>2, <3>4 DEF SamePage
  <2> QED
    BY <2>1, <2>2
<1>5. Registers'
  BY <1>1, <1>2, <1>3 DEF PcbInv, Registers, Late
<1>6. \A u \in Threads : SameLife(u) /\ SameWork(u)
  BY <1>1, <1>2, <1>3 DEF SameLife, SameWork, Early, Late
<1> QED
  BY <1>1, <1>4, <1>5, <1>6, CalmStep
\* wait takes a child that nobody waits for from its own list.
LEMMA WaitStep ==
  ASSUME PcbInv, TypeOK', NEW t \in Threads, NEW c \in Threads, Wait(t, c)
  PROVE  PcbInv'
<1>0. /\ pc \in [Threads -> Sections] /\ mem \in [Pages -> Pcb \union {Freed}]
      /\ reg \in [Threads -> Regs]
  BY Typed
<1>1. PICK p \in PcbFor(t, c) :
        /\ mem' = [mem EXCEPT ![p].waiting = TRUE]
        /\ reg' = [reg EXCEPT ![t].pcb = p]
        /\ Goto(t, IF mem[p].exited THEN "reap" ELSE "wait")
  BY DEF Wait
<1>2. p \in Pages /\ mem[p] \in Pcb /\ OnList(t, p)
  BY PageInUse DEF PcbFor, ToSet, OnList
<1>3. /\ pc[t] = "user" /\ pc'[t] \in {"wait", "reap"}
      /\ \A u \in Threads : u # t => pc'[u] = pc[u]
  BY <1>0, <1>1 DEF Wait, At, Goto
<1>4. children' = children /\ pcbOf' = pcbOf
  BY DEF Wait
<1>5. /\ reg'[t].pcb = p /\ \A u \in Threads : u # t => reg'[u] = reg[u]
      /\ \A u \in Threads : /\ reg'[u].tid = reg[u].tid /\ reg'[u].status = reg[u].status
                            /\ reg'[u].success = reg[u].success
  BY <1>0, <1>1 DEF Regs
<1>6. [mem[p] EXCEPT !.waiting = TRUE] \in Pcb
  BY <1>2 DEF Pcb
<1>7. /\ mem'[p] # Freed /\ \A q \in Pages : q # p => mem'[q] = mem[q]
      /\ mem'[p].pid = mem[p].pid /\ mem'[p].init = mem[p].init
      /\ mem'[p].exited = mem[p].exited /\ mem'[p].exitcode = mem[p].exitcode
  BY <1>0, <1>1, <1>2, <1>6, FreedAssumption DEF Pcb
<1>8. \A q \in Pages : SamePage(q)
  BY <1>2, <1>7, FreedAssumption DEF SamePage
<1>9. \A u \in Threads : SameLife(u)
  BY <1>3, <1>4, <1>5 DEF SameLife, Early, Late
<1>10. /\ HavePcbs' /\ Owned'
       /\ \A q \in Pages, d \in Threads : IsPcbOf(q, d) =>
            IsPcbOf(q, d)' /\ mem'[q].pid = mem[q].pid
  BY <1>8, <1>9, SameOwners
<1>11. \A u, q : OnList(u, q)' <=> OnList(u, q)
  BY <1>4 DEF OnList
<1>12. Registers'
  BY <1>3, <1>4, <1>5 DEF PcbInv, Registers
<1>13. Listed'
  <2> SUFFICES ASSUME NEW u \in Threads, NEW q \in Pages, OnList(u, q)
               PROVE  /\ IsPcbOf(q, mem[q].pid)'
                      /\ \A v \in Threads : OnList(v, q) => v = u
                      /\ mem'[q].waiting => pc'[u] \in {"wait", "reap"} /\ reg'[u].pcb = q
    BY <1>11 DEF Listed
  <2>1. /\ IsPcbOf(q, mem[q].pid) /\ \A v \in Threads : OnList(v, q) => v = u
        /\ mem[q].waiting => pc[u] \in {"wait", "reap"} /\ reg[u].pcb = q
    BY DEF PcbInv, Listed
  <2>2. IsPcbOf(q, mem[q].pid)'
    BY <1>10, <2>1 DEF IsPcbOf
  <2>3. mem'[q].waiting => pc'[u] \in {"wait", "reap"} /\ reg'[u].pcb = q
    BY <1>2, <1>3, <1>5, <1>7, <2>1
  <2> QED
    BY <2>1, <2>2, <2>3
<1>14. Distinct' /\ Held'
  <2>1. \A u \in Threads : \A q : InHand(u, q)' => InHand(u, q)
    BY <1>3, <1>5 DEF InHand
  <2> QED
    BY <1>4, <1>8, <1>11, <2>1 DEF PcbInv, Distinct, Held, SamePage
<1>15. Working'
  <2> SUFFICES ASSUME NEW u \in Threads
               PROVE  /\ pc'[u] = "exec" => /\ IsPcbOf(reg[u].pcb, reg[u].tid)'
                                            /\ ~ mem'[reg'[u].pcb].waiting
                      /\ pc'[u] \in {"wait", "reap"} => OnList(u, reg[u].pcb)'
    BY DEF Working
  <2>1. CASE u = t
    BY <1>2, <1>3, <1>5, <1>11, <2>1
  <2>2. CASE u # t
    <3>1. pc'[u] = pc[u] /\ reg'[u] = reg[u]
      BY <1>3, <1>5, <2>2
    <3>2. CASE pc[u] = "exec"
      <4>1. /\ reg[u].pcb \in Pages /\ ~ OnList(t, reg[u].pcb)
            /\ IsPcbOf(reg[u].pcb, reg[u].tid) /\ ~ mem[reg[u].pcb].waiting
        BY <3>2, PageInUse DEF PcbInv, Working, Held, InHand
      <4>2. IsPcbOf(reg[u].pcb, reg[u].tid)'
        BY <1>10, <3>1, <4>1 DEF IsPcbOf
      <4> QED
        BY <1>2, <1>7, <3>1, <3>2, <4>1, <4>2
    <3> QED
      BY <1>11, <3>1, <3>2 DEF PcbInv, Working
  <2> QED
    BY <2>1, <2>2
<1> QED
  BY <1>10, <1>12, <1>13, <1>14, <1>15 DEF PcbInv

\* An orphan's page goes out of its parent's hands.
LEMMA OrphanStep ==
  ASSUME PcbInv, TypeOK', NEW t \in Threads, ExitOrphan(t)
  PROVE  PcbInv'
<1>0. /\ pc \in [Threads -> Sections] /\ mem \in [Pages -> Pcb \union {Freed}]
      /\ reg \in [Threads -> Regs]
  BY Typed
<1> DEFINE p == reg[t].pcb
<1>1. p \in Pages /\ mem[p] \in Pcb /\ InHand(t, p)
  BY PageInUse DEF ExitOrphan, At, InHand
<1>2. /\ mem' = [mem EXCEPT ![p].orphan = TRUE]
      /\ pc' = [pc EXCEPT ![t] = "kids"] /\ pc[t] = "orphan"
      /\ reg' = [reg EXCEPT ![t].pcb = Nothing]
      /\ pcbOf' = pcbOf /\ children' = children
  BY DEF ExitOrphan, Goto, At
<1> HIDE DEF p
<1>3. [mem[p] EXCEPT !.orphan = TRUE] \in Pcb
  BY <1>1 DEF Pcb
<1>4. /\ \A q \in Pages : q # p => mem'[q] = mem[q]
      /\ mem'[p] # Freed /\ mem[p] # Freed
      /\ mem'[p].pid = mem[p].pid /\ mem'[p].init = mem[p].init
      /\ mem'[p].exited = mem[p].exited /\ mem'[p].exitcode = mem[p].exitcode
      /\ mem'[p].waiting = mem[p].waiting
  BY <1>0, <1>1, <1>2, <1>3, FreedAssumption DEF Pcb
<1>5. \A q \in Pages : SamePage(q) /\ mem'[q].waiting = mem[q].waiting
  BY <1>4 DEF SamePage
<1>6. /\ pc'[t] = "kids" /\ \A u \in Threads : u # t => pc'[u] = pc[u] /\ reg'[u] = reg[u]
      /\ \A u \in Threads : /\ reg'[u].tid = reg[u].tid /\ reg'[u].status = reg[u].status
                            /\ reg'[u].success = reg[u].success
  BY <1>0, <1>2 DEF Regs
<1>7. \A u \in Threads : SameLife(u)
  BY <1>2, <1>6 DEF SameLife, Early, Late
<1>8. /\ HavePcbs' /\ Owned'
      /\ \A q \in Pages, d \in Threads : IsPcbOf(q, d) =>
           IsPcbOf(q, d)' /\ mem'[q].pid = mem[q].pid
  BY <1>5, <1>7, SameOwners
<1>9. \A u, q : OnList(u, q)' <=> OnList(u, q)
  BY <1>2 DEF OnList
<1>10. Registers'
  BY <1>2, <1>6 DEF PcbInv, Registers
<1>11. Listed'
  <2> SUFFICES ASSUME NEW u \in Threads, NEW q \in Pages, OnList(u, q)
               PROVE  /\ IsPcbOf(q, mem[q].pid)'
                      /\ \A v \in Threads : OnList(v, q) => v = u
                      /\ mem'[q].waiting => pc'[u] \in {"wait", "reap"} /\ reg'[u].pcb = q
    BY <1>9 DEF Listed
  <2>1. /\ IsPcbOf(q, mem[q].pid) /\ \A v \in Threads : OnList(v, q) => v = u
        /\ mem[q].waiting => pc[u] \in {"wait", "reap"} /\ reg[u].pcb = q
    BY DEF PcbInv, Listed
  <2>2. IsPcbOf(q, mem[q].pid)'
    BY <1>8, <2>1 DEF IsPcbOf
  <2> QED
    BY <1>2, <1>5, <1>6, <2>1, <2>2
<1>12. Distinct' /\ Held'
  <2>1. \A u \in Threads : \A q : InHand(u, q)' => InHand(u, q)
    BY <1>6 DEF InHand
  <2> QED
    BY <1>2, <1>5, <1>9, <2>1 DEF PcbInv, Distinct, Held, SamePage
<1>13. Working'
  <2> SUFFICES ASSUME NEW u \in Threads, u # t
               PROVE  /\ pc'[u] = "exec" => /\ IsPcbOf(reg[u].pcb, reg[u].tid)'
                                            /\ ~ mem'[reg'[u].pcb].waiting
                      /\ pc'[u] \in {"wait", "reap"} => OnList(u, reg[u].pcb)'
    BY <1>6 DEF Working
  <2>1. pc'[u] = pc[u] /\ reg'[u] = reg[u]
    BY <1>6
  <2>2. CASE pc[u] = "exec"
    <3>1. /\ reg[u].pcb \in Pages
          /\ IsPcbOf(reg[u].pcb, reg[u].tid) /\ ~ mem[reg[u].pcb].waiting
      BY <2>2, PageInUse DEF PcbInv, Working
    <3>2. IsPcbOf(reg[u].pcb, reg[u].tid)'
      BY <1>8, <2>1, <3>1 DEF IsPcbOf
    <3> QED
      BY <1>5, <2>1, <2>2, <3>1, <3>2
  <2> QED
    BY <1>9, <2>1, <2>2 DEF PcbInv, Working
<1> QED
  BY <1>8, <1>10, <1>11, <1>12, <1>13 DEF PcbInv
\* The page of a process that has not marked its pcb is nobody else's pcb.
LEMMA SoleOwner ==
  ASSUME PcbInv, NEW t \in Threads, t # Main, pc[t] \in Early,
         NEW p \in Pages, OwnPage(t) = p, NEW c, IsPcbOf(p, c)
  PROVE  c = t
<1>1. c \in Threads /\ pc[c] \in Early \union Late
  BY DEF IsPcbOf, Early
<1>2. c # Main
  BY NothingAssumption DEF IsPcbOf, PcbInv, HavePcbs
<1>3. pc[c] \in Early
  BY <1>1 DEF IsPcbOf, PcbInv, Owned
<1>4. OwnPage(c) = p
  BY <1>1 DEF IsPcbOf, OwnPage
<1> QED
  BY <1>1, <1>2, <1>3, <1>4 DEF PcbInv, Owned

\* A thread that works on its own pcb, and on nothing else, keeps the invariant
\* if the pcb still agrees with it: what others hold is not its pcb, or is.
LEMMA OwnStep ==
  ASSUME PcbInv, TypeOK', HavePcbs', Registers', Owned', children' = children,
         NEW t \in Threads, t # Main, pc[t] \in {"start", "user", "kids"},
         pc'[t] \in {"user", "kids", "mark"}, NEW p \in Pages, OwnPage(t) = p,
         IsPcbOf(p, t) => IsPcbOf(p, t)',
         pc[t] # "start" => mem'[p].pid = mem[p].pid,
         mem'[p] # Freed, mem'[p].waiting = mem[p].waiting, pcbOf'[t] = p,
         \A q \in Pages : q # p => mem'[q] = mem[q],
         \A u \in Threads : u # t => /\ pc'[u] = pc[u] /\ reg'[u] = reg[u]
                                     /\ pcbOf'[u] = pcbOf[u]
  PROVE  PcbInv'
<1>1. \A q \in Pages, c \in Threads : IsPcbOf(q, c) => IsPcbOf(q, c)'
  <2> SUFFICES ASSUME NEW q \in Pages, NEW c \in Threads, IsPcbOf(q, c)
               PROVE  IsPcbOf(q, c)'
    OBVIOUS
  <2>1. CASE c = t
    <3>1. q = p
      BY <2>1 DEF IsPcbOf, OwnPage
    <3> QED
      BY <2>1, <3>1
  <2>2. CASE c # t
    <3>1. q # p
      BY <2>2, SoleOwner DEF Early
    <3> QED
      BY <2>2, <3>1 DEF IsPcbOf
  <2> QED
    BY <2>1, <2>2
<1>2. \A u, q : OnList(u, q)' <=> OnList(u, q)
  BY DEF OnList
<1>3. \A u \in Threads : \A q : InHand(u, q)' <=> InHand(u, q)
  BY DEF InHand
<1>4. \A u \in Threads : OnList(u, p) => pc[t] # "start"
  <2> SUFFICES ASSUME NEW u \in Threads, OnList(u, p), pc[t] = "start" PROVE FALSE
    OBVIOUS
  <2>1. IsPcbOf(p, mem[p].pid)
    BY DEF PcbInv, Listed
  <2>2. mem[p].pid = t /\ t \in Threads
    BY <2>1, SoleOwner DEF Early
  <2> QED
    BY <2>1, <2>2, NothingAssumption DEF IsPcbOf, Early
<1>5. Listed'
  <2> SUFFICES ASSUME NEW u \in Threads, NEW q \in Pages, OnList(u, q)
               PROVE  /\ IsPcbOf(q, mem[q].pid)'
                      /\ \A v \in Threads : OnList(v, q) => v = u
                      /\ mem'[q].waiting => pc'[u] \in {"wait", "reap"} /\ reg'[u].pcb = q
    BY <1>2 DEF Listed
  <2>1. /\ IsPcbOf(q, mem[q].pid) /\ \A v \in Threads : OnList(v, q) => v = u
        /\ mem[q].waiting => pc[u] \in {"wait", "reap"} /\ reg[u].pcb = q
    BY DEF PcbInv, Listed
  <2>2. mem'[q].pid = mem[q].pid /\ mem'[q].waiting = mem[q].waiting
    BY <1>4
  <2>3. IsPcbOf(q, mem[q].pid)'
    BY <1>1, <2>1, <2>2 DEF IsPcbOf
  <2> QED
    BY <2>1, <2>2, <2>3
<1>6. Distinct' /\ Held'
  BY <1>2, <1>3 DEF PcbInv, Distinct, Held
<1>7. Working'
  <2> SUFFICES ASSUME NEW u \in Threads, u # t
               PROVE  /\ pc'[u] = "exec" => /\ IsPcbOf(reg[u].pcb, reg[u].tid)'
                                            /\ ~ mem'[reg'[u].pcb].waiting
                      /\ pc'[u] \in {"wait", "reap"} => OnList(u, reg[u].pcb)'
    BY DEF Working
  <2>1. CASE pc[u] = "exec"
    <3>1. /\ reg[u].pcb \in Pages
          /\ IsPcbOf(reg[u].pcb, reg[u].tid) /\ ~ mem[reg[u].pcb].waiting
      BY <2>1, PageInUse DEF PcbInv, Working
    <3>2. IsPcbOf(reg[u].pcb, reg[u].tid)' /\ mem'[reg[u].pcb].waiting = mem[reg[u].pcb].waiting
      BY <1>1, <3>1 DEF IsPcbOf
    <3> QED
      BY <2>1, <3>1, <3>2
  <2> QED
    BY <1>2, <2>1 DEF PcbInv, Working
<1> QED
  BY <1>5, <1>6, <1>7 DEF PcbInv
\* start_process enters the pcb as its thread's, and its answer in the pcb.
LEMMA StartStep ==
  ASSUME PcbInv, TypeOK', NEW c \in Threads, NEW success \in BOOLEAN, Start(c, success)
  PROVE  PcbInv'
<1>0. /\ pc \in [Threads -> Sections] /\ mem \in [Pages -> Pcb \union {Freed}]
      /\ reg \in [Threads -> Regs] /\ pcbOf \in [Threads -> Pages \union {Nothing}]
  BY Typed
<1>p. PICK p : p = reg[c].pcb
  OBVIOUS
<1> DEFINE pid == IF success THEN c ELSE Fail
<1>1. /\ p \in Pages /\ mem[p] \in Pcb /\ pc[c] = "start" /\ c # Main
      /\ OwnPage(c) = p
  BY <1>p, PageInUse DEF Start, At, PcbInv, HavePcbs, OwnPage
<1>2. /\ mem' = [mem EXCEPT ![p].pid = pid, ![p].init = @ + 1]
      /\ pc' = [pc EXCEPT ![c] = IF success THEN "user" ELSE "kids"]
      /\ pcbOf' = [pcbOf EXCEPT ![c] = p]
      /\ reg' = [reg EXCEPT ![c].success = success, ![c].pcb = Nothing]
      /\ children' = children
  BY <1>p DEF Start, Goto
<1>3. pid \in Threads \union {Fail}
  OBVIOUS
<1> HIDE DEF pid
<1>4. [mem[p] EXCEPT !.pid = pid, !.init = mem[p].init + 1] \in Pcb
  <2>1. mem[p].init + 1 \in Nat
    BY <1>1 DEF Pcb
  <2> QED
    BY <1>1, <1>3, <2>1, PcbFields
<1>5. /\ \A q \in Pages : q # p => mem'[q] = mem[q]
      /\ mem'[p] # Freed /\ mem'[p].pid = pid
      /\ mem'[p].exited = mem[p].exited /\ mem'[p].exitcode = mem[p].exitcode
      /\ mem'[p].waiting = mem[p].waiting
  BY <1>0, <1>1, <1>2, <1>4, FreedAssumption DEF Pcb
<1>s. /\ pc'[c] = IF success THEN "user" ELSE "kids"
      /\ reg'[c].success = success
  BY <1>0, <1>2 DEF Regs
<1>6. /\ pc'[c] \in {"user", "kids"} /\ (pc'[c] = "user" => reg'[c].success)
      /\ pid = IF reg'[c].success THEN c ELSE Fail
  BY <1>s DEF pid
<1>o. /\ children' = children
      /\ pcbOf'[c] = p /\ reg'[c].status = reg[c].status /\ reg'[c].tid = reg[c].tid
      /\ \A u \in Threads : u # c => /\ pc'[u] = pc[u] /\ reg'[u] = reg[u]
                                     /\ pcbOf'[u] = pcbOf[u]
  BY <1>0, <1>2 DEF Regs
<1>7. IsPcbOf(p, c) => IsPcbOf(p, c)'
  BY <1>1, <1>5, <1>6, <1>o DEF IsPcbOf, Early, Late
<1>8. HavePcbs'
  BY <1>1, <1>6, <1>o, MainAssumption DEF PcbInv, HavePcbs
<1>9. Registers'
  <2>1. children[c] = << >> /\ reg[c].tid = Nothing
    BY <1>1 DEF PcbInv, Registers
  <2> QED
    BY <1>6, <1>o, <2>1 DEF PcbInv, Registers
<1>10. Owned'
  <2>1. \A u \in Threads : u # Main /\ pc'[u] \in Early =>
          pc[u] \in Early /\ OwnPage(u)' = OwnPage(u) /\ OwnPage(u) \in Pages
    BY <1>1, <1>6, <1>o, PageInUse DEF OwnPage, Early
  <2>2. mem'[p].exited = FALSE
    BY <1>1, <1>5 DEF PcbInv, Owned, Early, Pcb
  <2> QED
    BY <1>1, <1>5, <2>1, <2>2 DEF PcbInv, Owned
<1> QED
  BY <1>1, <1>2, <1>5, <1>6, <1>o, <1>7, <1>8, <1>9, <1>10, OwnStep

\* sys_exit leaves the status in the pcb, and ExitMark says that it is there.
LEMMA ExitStep ==
  ASSUME PcbInv, TypeOK', NEW t \in Threads,
         (\E k \in Codes \union {Fail} : Exit(t, k)) \/ ExitMark(t)
  PROVE  PcbInv'
<1>0. /\ pc \in [Threads -> Sections] /\ mem \in [Pages -> Pcb \union {Freed}]
      /\ reg \in [Threads -> Regs] /\ pcbOf \in [Threads -> Pages \union {Nothing}]
  BY Typed
<1>1. CASE t = Main
  <2>1. pcbOf[t] = Nothing /\ mem' = mem /\ pcbOf' = pcbOf /\ children' = children
    BY <1>1 DEF PcbInv, HavePcbs, Exit, ExitMark
  <2>2. CASE ExitMark(t)
    BY <2>1, <2>2, StillStep DEF ExitMark
  <2>3. CASE \E k \in Codes \union {Fail} : Exit(t, k)
    <3>1. PICK k \in Codes \union {Fail} : Exit(t, k)
      BY <2>3
    <3>2. /\ pc[t] = "user" /\ pc'[t] = "kids"
          /\ reg'[t].pcb = reg[t].pcb /\ reg'[t].tid = reg[t].tid
          /\ reg'[t].success = reg[t].success
          /\ \A u \in Threads : u # t => pc'[u] = pc[u] /\ reg'[u] = reg[u]
      BY <1>0, <3>1 DEF Exit, MayCall, At, Goto, Regs
    <3>3. Registers' /\ \A u \in Threads : SameLife(u) /\ SameWork(u)
      <4>1. Registers'
        BY <2>1, <3>2 DEF PcbInv, Registers
      <4>2. \A u \in Threads : SameLife(u) /\ SameWork(u)
        BY <1>1, <2>1, <3>2 DEF SameLife, SameWork, Early, Late
      <4> QED
        BY <4>1, <4>2
    <3>4. \A p \in Pages : SamePage(p)
      BY <2>1 DEF SamePage
    <3> QED
      BY <2>1, <3>3, <3>4, CalmStep
  <2> QED
    BY <2>2, <2>3
<1>2. CASE t # Main
  <2>p. PICK p : p = pcbOf[t]
    OBVIOUS
  <2>1. /\ p \in Pages /\ mem[p] \in Pcb /\ pc[t] \in {"user", "kids"}
        /\ OwnPage(t) = p /\ p # Nothing
    BY <1>2, <2>p, PageInUse, NothingAssumption
       DEF Exit, ExitMark, MayCall, At, Early, OwnPage
  <2>2. /\ pcbOf' = pcbOf /\ pcbOf'[t] = p /\ children' = children
        /\ pc'[t] \in {"kids", "mark"} /\ \A u \in Threads : u # t => pc'[u] = pc[u]
        /\ (pc[t] = "user" <=> pc'[t] = "kids")
    BY <1>0, <2>p, <2>1 DEF Exit, ExitMark, MayCall, At, Goto
  <2>3. /\ mem'[p] # Freed /\ mem'[p].pid = mem[p].pid
        /\ mem'[p].waiting = mem[p].waiting
        /\ mem'[p].exited <=> mem[p].exited \/ pc'[t] = "mark"
        /\ mem'[p].exitcode = IF pc[t] = "user" THEN reg'[t].status ELSE mem[p].exitcode
        /\ \A q \in Pages : q # p => mem'[q] = mem[q]
    <3>1. CASE ExitMark(t)
      <4>1. mem' = [mem EXCEPT ![p].exited = TRUE] /\ pc'[t] = "mark" /\ pc[t] = "kids"
        BY <1>0, <2>p, <2>1, <3>1 DEF ExitMark, At, Goto
      <4>2. [mem[p] EXCEPT !.exited = TRUE] \in Pcb
        BY <2>1 DEF Pcb
      <4> QED
        BY <1>0, <2>1, <4>1, <4>2, FreedAssumption DEF Pcb
    <3>2. CASE \E k \in Codes \union {Fail} : Exit(t, k)
      <4>1. PICK k \in Codes \union {Fail} : Exit(t, k)
        BY <3>2
      <4>2. /\ mem' = [mem EXCEPT ![p].exitcode = k]
            /\ pc'[t] = "kids" /\ pc[t] = "user" /\ reg'[t].status = k
        BY <1>0, <2>p, <2>1, <4>1 DEF Exit, MayCall, At, Goto, Regs
      <4>3. [mem[p] EXCEPT !.exitcode = k] \in Pcb
        BY <2>1 DEF Pcb
      <4> QED
        BY <1>0, <2>1, <4>2, <4>3, FreedAssumption DEF Pcb
    <3> QED
      BY <3>1, <3>2
  <2>4. /\ pc[t] = "kids" => reg'[t].status = reg[t].status
        /\ reg'[t].success = reg[t].success
        /\ reg'[t].tid = reg[t].tid
        /\ \A u \in Threads : u # t => reg'[u] = reg[u]
    BY <1>0 DEF Exit, ExitMark, MayCall, At, Regs
  <2>5. IsPcbOf(p, t) => IsPcbOf(p, t)'
    BY <2>1, <2>2, <2>3, <2>4 DEF IsPcbOf, Early, Late
  <2>6. HavePcbs'
    BY <1>2, <2>1, <2>2, MainAssumption DEF PcbInv, HavePcbs
  <2>7. Registers'
    BY <2>1, <2>2, <2>4 DEF PcbInv, Registers
  <2>8. Owned'
    <3>1. \A u \in Threads : u # Main /\ pc'[u] \in Early =>
            /\ pc[u] \in Early /\ OwnPage(u)' = OwnPage(u) /\ OwnPage(u) \in Pages
            /\ u = t => pc'[t] = "kids"
      BY <2>1, <2>2, <2>4, PageInUse DEF OwnPage, Early
    <3> QED
      BY <1>2, <2>1, <2>3, <3>1 DEF PcbInv, Owned, Early
  <2> QED
    BY <1>2, <2>1, <2>2, <2>3, <2>4, <2>5, <2>6, <2>7, <2>8, OwnStep
<1> QED
  BY <1>1, <1>2
\* process_execute puts a new pcb on a page that nobody refers to.
LEMMA ExecStep ==
  ASSUME PcbInv, TypeOK', NEW t \in Threads, NEW c \in Threads, NEW p \in Pages,
         Exec(t, c, p)
  PROVE  PcbInv'
<1>0. /\ pc \in [Threads -> Sections] /\ mem \in [Pages -> Pcb \union {Freed}]
      /\ reg \in [Threads -> Regs]
  BY Typed
<1>1. /\ pc[t] = "user" /\ pc[c] = "none" /\ c # t /\ c # Main /\ mem[p] = Freed
  BY DEF Exec, MayCall, At, PcbInv, HavePcbs, Early
<1>2. /\ mem'[p] = NewPcb /\ \A q \in Pages : q # p => mem'[q] = mem[q]
      /\ pcbOf' = pcbOf /\ children' = children
  BY <1>0 DEF Exec
<1>3. /\ pc'[t] = "exec" /\ pc'[c] = "start"
      /\ \A u \in Threads : u \notin {t, c} => pc'[u] = pc[u] /\ reg'[u] = reg[u]
  BY <1>0, <1>1 DEF Exec
<1>4. /\ reg'[t].pcb = p /\ reg'[t].tid = c /\ reg'[c].pcb = p /\ reg'[c].tid = reg[c].tid
      /\ \A u \in Threads : /\ reg'[u].success = reg[u].success
                            /\ reg'[u].status = reg[u].status
  BY <1>0, <1>1 DEF Exec, Regs
<1>5. /\ mem'[p] # Freed /\ mem'[p].pid = Nothing /\ mem'[p].init = 0
      /\ mem'[p].exited = FALSE /\ mem'[p].waiting = FALSE /\ mem'[p].exitcode = Fail
  BY <1>2, NewPcbType DEF NewPcb
<1>6. \A q \in Pages, d \in Threads : IsPcbOf(q, d) =>
        IsPcbOf(q, d)' /\ q # p /\ mem'[q] = mem[q]
  BY <1>1, <1>2, <1>3, <1>4 DEF IsPcbOf, Early, Late
<1>7. IsPcbOf(p, c)'
  <2>1. reg[c].status = Fail
    BY <1>1 DEF PcbInv, Registers
  <2> QED
    BY <1>3, <1>4, <1>5, <2>1 DEF IsPcbOf, Late
<1>8. \A u, q : OnList(u, q)' <=> OnList(u, q)
  BY <1>2 DEF OnList
<1>9. HavePcbs'
  BY <1>1, <1>2, <1>3, MainAssumption DEF PcbInv, HavePcbs, Early
<1>10. Registers'
  BY <1>1, <1>2, <1>3, <1>4 DEF PcbInv, Registers
<1>11. Owned'
  <2>1. \A u \in Threads : u # Main /\ u # c /\ pc'[u] \in Early =>
          /\ pc[u] \in Early /\ OwnPage(u)' = OwnPage(u) /\ OwnPage(u) \in Pages
          /\ OwnPage(u) # p
    BY <1>1, <1>2, <1>3, PageInUse DEF OwnPage, Early, PcbInv, Owned
  <2>2. OwnPage(c)' = p
    BY <1>3, <1>4 DEF OwnPage
  <2> QED
    BY <1>2, <1>5, <2>1, <2>2 DEF PcbInv, Owned
<1>12. Listed'
  <2> SUFFICES ASSUME NEW u \in Threads, NEW q \in Pages, OnList(u, q)
               PROVE  /\ IsPcbOf(q, mem[q].pid)'
                      /\ \A v \in Threads : OnList(v, q) => v = u
                      /\ mem'[q].waiting => pc'[u] \in {"wait", "reap"} /\ reg'[u].pcb = q
    BY <1>8 DEF Listed
  <2>1. /\ IsPcbOf(q, mem[q].pid) /\ \A v \in Threads : OnList(v, q) => v = u
        /\ mem[q].waiting => pc[u] \in {"wait", "reap"} /\ reg[u].pcb = q
    BY DEF PcbInv, Listed
  <2>2. IsPcbOf(q, mem[q].pid)' /\ mem'[q] = mem[q]
    BY <1>6, <2>1 DEF IsPcbOf
  <2> QED
    BY <1>1, <1>3, <2>1, <2>2
<1>13. Distinct'
  BY <1>2 DEF PcbInv, Distinct
<1>14. \A u \in Threads : \A q \in Pages : OnList(u, q) => q # p
  BY <1>1 DEF PcbInv, Listed, IsPcbOf
<1>15. Held'
  <2>1. \A u \in Threads : \A q \in Pages : InHand(u, q)' =>
          (u = t /\ q = p) \/ (u # t /\ InHand(u, q) /\ q # p)
    BY <1>1, <1>3, <1>4 DEF InHand, PcbInv, Held
  <2> QED
    BY <1>2, <1>5, <1>8, <1>14, <2>1 DEF PcbInv, Held
<1>16. Working'
  <2> SUFFICES ASSUME NEW u \in Threads
               PROVE  /\ pc'[u] = "exec" => /\ IsPcbOf(reg[u].pcb, reg[u].tid)'
                                            /\ ~ mem'[reg'[u].pcb].waiting
                      /\ pc'[u] \in {"wait", "reap"} => OnList(u, reg[u].pcb)'
    BY DEF Working
  <2>1. CASE u = t
    BY <1>3, <1>4, <1>5, <1>7, <2>1
  <2>2. CASE u = c
    BY <1>3, <2>2
  <2>3. CASE u \notin {t, c}
    <3>1. pc'[u] = pc[u] /\ reg'[u] = reg[u]
      BY <1>3, <2>3
    <3>2. CASE pc[u] = "exec"
      <4>1. /\ reg[u].pcb \in Pages
            /\ IsPcbOf(reg[u].pcb, reg[u].tid) /\ ~ mem[reg[u].pcb].waiting
        BY <3>2, PageInUse DEF PcbInv, Working
      <4>2. IsPcbOf(reg[u].pcb, reg[u].tid)' /\ mem'[reg[u].pcb] = mem[reg[u].pcb]
        BY <1>6, <3>1, <4>1 DEF IsPcbOf
      <4> QED
        BY <3>1, <3>2, <4>1, <4>2
    <3> QED
      BY <1>8, <3>1, <3>2 DEF PcbInv, Working
  <2> QED
    BY <2>1, <2>2, <2>3
<1> QED
  BY <1>9, <1>10, <1>11, <1>12, <1>13, <1>15, <1>16 DEF PcbInv

\* A page goes on the child_list it is meant for, out of the parent's hands.
LEMMA ExecDoneStep ==
  ASSUME PcbInv, TypeOK', NEW t \in Threads, ExecDone(t)
  PROVE  PcbInv'
<1>0. /\ pc \in [Threads -> Sections] /\ mem \in [Pages -> Pcb \union {Freed}]
      /\ reg \in [Threads -> Regs] /\ children \in [Threads -> Seq(Pages)]
  BY Typed
<1>p. PICK p, c : p = reg[t].pcb /\ c = reg[t].tid
  OBVIOUS
<1>1. /\ p \in Pages /\ mem[p] \in Pcb /\ pc[t] = "exec" /\ InHand(t, p)
      /\ mem[p].init > 0
  BY <1>p, PageInUse DEF ExecDone, At, InHand
<1>2. /\ IsPcbOf(p, c) /\ ~ mem[p].waiting /\ c \in Threads
      /\ \A u \in Threads : ~ OnList(u, p) /\ (InHand(u, p) => u = t)
  BY <1>p, <1>1 DEF PcbInv, Working, Held, IsPcbOf
<1>3. /\ mem' = [mem EXCEPT ![p].init = @ - 1]
      /\ pc' = [pc EXCEPT ![t] = "user"] /\ pcbOf' = pcbOf
      /\ reg' = [reg EXCEPT ![t].pcb = Nothing, ![t].tid = Nothing]
      /\ children' = IF mem[p].pid # Fail
                     THEN [children EXCEPT ![t] = Append(@, p)] ELSE children
  BY <1>p DEF ExecDone, Goto
<1>4. [mem[p] EXCEPT !.init = mem[p].init - 1] \in Pcb
  <2>1. mem[p].init - 1 \in Nat
    BY <1>1 DEF Pcb
  <2> QED
    BY <1>1, <2>1, PcbFields
<1>5. /\ mem'[p] # Freed /\ mem[p] # Freed
      /\ mem'[p].pid = mem[p].pid /\ mem'[p].waiting = mem[p].waiting
      /\ mem'[p].exited = mem[p].exited /\ mem'[p].exitcode = mem[p].exitcode
      /\ \A q \in Pages : q # p => mem'[q] = mem[q]
  BY <1>0, <1>1, <1>3, <1>4, FreedAssumption DEF Pcb
<1>6. /\ pcbOf' = pcbOf
      /\ pc'[t] = "user" /\ \A u \in Threads : u # t => pc'[u] = pc[u] /\ reg'[u] = reg[u]
      /\ reg'[t].tid = Nothing
      /\ reg'[t].success = reg[t].success /\ reg'[t].status = reg[t].status
  BY <1>0, <1>3 DEF Regs
<1>7. \A u \in Threads : u # t => children'[u] = children[u]
  BY <1>0, <1>3
<1>8. /\ \A q : OnList(t, q)' => OnList(t, q) \/ (q = p /\ mem[p].pid # Fail)
      /\ \A i, j \in DOMAIN children'[t] : children'[t][i] = children'[t][j] => i = j
  <2>1. CASE mem[p].pid = Fail
    BY <1>3, <2>1 DEF OnList, PcbInv, Distinct
  <2>2. CASE mem[p].pid # Fail
    <3>1. /\ children'[t] = Append(children[t], p) /\ children[t] \in Seq(Pages)
      BY <1>0, <1>3, <2>2
    <3>2. /\ DOMAIN children'[t] = 1 .. Len(children[t]) + 1
          /\ DOMAIN children[t] = 1 .. Len(children[t]) /\ Len(children[t]) \in Nat
          /\ \A i \in 1 .. Len(children[t]) : children'[t][i] = children[t][i]
          /\ children'[t][Len(children[t]) + 1] = p
      BY <1>1, <3>1
    <3>3. \A i \in DOMAIN children[t] : children[t][i] # p
      BY <1>2 DEF OnList
    <3>4. \A i, j \in DOMAIN children[t] : children[t][i] = children[t][j] => i = j
      BY DEF PcbInv, Distinct
    <3>5. \A i \in DOMAIN children'[t] : i \in DOMAIN children[t] \/ i = Len(children[t]) + 1
      BY <3>2
    <3>6. \A i, j \in DOMAIN children'[t] : children'[t][i] = children'[t][j] => i = j
      BY <3>2, <3>3, <3>4, <3>5
    <3>7. \A q : OnList(t, q)' => OnList(t, q) \/ q = p
      BY <3>2, <3>5 DEF OnList
    <3> QED
      BY <2>2, <3>6, <3>7
  <2> QED
    BY <2>1, <2>2
<1>9. \A u \in Threads : \A q : OnList(u, q)' =>
        OnList(u, q) \/ (u = t /\ q = p /\ mem[p].pid = c)
  <2>1. mem[p].pid # Fail => mem[p].pid = c
    BY <1>1, <1>2 DEF IsPcbOf
  <2> QED
    BY <1>7, <1>8, <2>1 DEF OnList
<1>w. \A u \in Threads : \A q : u # t => (OnList(u, q)' <=> OnList(u, q))
  BY <1>7 DEF OnList
<1>10. \A q \in Pages, d \in Threads : IsPcbOf(q, d) =>
         IsPcbOf(q, d)' /\ mem'[q].pid = mem[q].pid /\ mem'[q].waiting = mem[q].waiting
  BY <1>1, <1>5, <1>6 DEF IsPcbOf, Early, Late
<1>11. HavePcbs' /\ Registers'
  <2>1. \A u \in Threads : children'[u] = << >> \/ children'[u] = children[u] \/ u = t
    BY <1>7
  <2>2. reg[t].success
    BY <1>1 DEF PcbInv, Registers
  <2>3. HavePcbs'
    BY <1>1, <1>6, MainAssumption DEF PcbInv, HavePcbs, Early
  <2>4. Registers'
    BY <1>1, <1>6, <1>7, <2>2 DEF PcbInv, Registers
  <2> QED
    BY <2>3, <2>4
<1>12. Owned'
  <2>1. \A u \in Threads : u # Main /\ pc'[u] \in Early =>
          pc[u] \in Early /\ OwnPage(u)' = OwnPage(u) /\ OwnPage(u) \in Pages
    BY <1>1, <1>6, PageInUse DEF OwnPage, Early
  <2> QED
    BY <1>5, <2>1 DEF PcbInv, Owned
<1>13. Listed'
  <2> SUFFICES ASSUME NEW u \in Threads, NEW q \in Pages, OnList(u, q)'
               PROVE  /\ IsPcbOf(q, mem[q].pid)'
                      /\ \A v \in Threads : OnList(v, q)' => v = u
                      /\ mem'[q].waiting => pc'[u] \in {"wait", "reap"} /\ reg'[u].pcb = q
    BY DEF Listed
  <2>1. CASE OnList(u, q)
    <3>1. /\ IsPcbOf(q, mem[q].pid) /\ \A v \in Threads : OnList(v, q) => v = u
          /\ mem[q].waiting => pc[u] \in {"wait", "reap"} /\ reg[u].pcb = q
      BY <2>1 DEF PcbInv, Listed
    <3>2. IsPcbOf(q, mem[q].pid)' /\ mem'[q].waiting = mem[q].waiting
      BY <1>10, <3>1 DEF IsPcbOf
    <3>3. q # p
      BY <1>2, <2>1
    <3> QED
      BY <1>1, <1>6, <1>9, <3>1, <3>2, <3>3
  <2>2. CASE u = t /\ q = p /\ mem[p].pid = c
    BY <1>2, <1>9, <1>10, <2>2
  <2> QED
    BY <1>9, <2>1, <2>2
<1>14. Distinct'
  BY <1>7, <1>8 DEF PcbInv, Distinct
<1>15. Held'
  <2>1. \A u \in Threads : \A q : InHand(u, q)' => u # t /\ InHand(u, q)
    BY <1>6 DEF InHand
  <2>2. \A u \in Threads : \A q \in Pages : InHand(u, q)' =>
          q # p /\ mem'[q] = mem[q]
    BY <1>2, <1>5, <2>1
  <2> QED
    BY <1>9, <2>1, <2>2 DEF PcbInv, Held
<1>16. Working'
  <2> SUFFICES ASSUME NEW u \in Threads, u # t
               PROVE  /\ pc'[u] = "exec" => /\ IsPcbOf(reg[u].pcb, reg[u].tid)'
                                            /\ ~ mem'[reg'[u].pcb].waiting
                      /\ pc'[u] \in {"wait", "reap"} => OnList(u, reg[u].pcb)'
    BY <1>6 DEF Working
  <2>1. pc'[u] = pc[u] /\ reg'[u] = reg[u]
    BY <1>6
  <2>2. CASE pc[u] = "exec"
    <3>1. /\ reg[u].pcb \in Pages
          /\ IsPcbOf(reg[u].pcb, reg[u].tid) /\ ~ mem[reg[u].pcb].waiting
      BY <2>2, PageInUse DEF PcbInv, Working
    <3>2. IsPcbOf(reg[u].pcb, reg[u].tid)' /\ mem'[reg[u].pcb].waiting = mem[reg[u].pcb].waiting
      BY <1>10, <2>1, <3>1 DEF IsPcbOf
    <3> QED
      BY <2>1, <2>2, <3>1, <3>2
  <2> QED
    BY <1>w, <2>1, <2>2 DEF PcbInv, Working
<1> QED
  BY <1>11, <1>12, <1>13, <1>14, <1>15, <1>16 DEF PcbInv
\* A parent frees the pcb of a child that has exited, and its page leaves the list.
LEMMA FreeStep ==
  ASSUME PcbInv, TypeOK', NEW t \in Threads, NEW p \in Pages,
         OnList(t, p), mem[p].exited,
         \A q \in Pages : q # p => mem'[q] = mem[q],
         \A u \in Threads : /\ pcbOf'[u] = pcbOf[u]
                            /\ u # t => /\ pc'[u] = pc[u] /\ reg'[u] = reg[u]
                                        /\ children'[u] = children[u],
         \A q : OnList(t, q)' => OnList(t, q) /\ q # p,
         \A i, j \in DOMAIN children'[t] : children'[t][i] = children'[t][j] => i = j,
         \/ pc[t] = "kids" /\ pc'[t] = "kids"
         \/ pc[t] = "reap" /\ pc'[t] = "user" /\ reg[t].pcb = p,
         reg'[t].tid = reg[t].tid, reg'[t].success = reg[t].success,
         reg'[t].status = reg[t].status
  PROVE  PcbInv'
<1>1. /\ IsPcbOf(p, mem[p].pid) /\ \A u \in Threads : OnList(u, p) => u = t
      /\ \A u \in Threads : ~ InHand(u, p)
      /\ \A q \in Pages : OnList(t, q) /\ q # p => ~ mem[q].waiting
  BY DEF PcbInv, Listed, Held
<1>2. children[t] # << >>
  BY DEF OnList
<1>3. \A u \in Threads : \A q : OnList(u, q)' => OnList(u, q) /\ q # p
  BY <1>1 DEF OnList
<1>w. \A u \in Threads : \A q : u # t /\ OnList(u, q) => OnList(u, q)'
  BY DEF OnList
<1>4. \A u \in Threads : u # Main /\ pc[u] \in Early => OwnPage(u) # p
  BY DEF PcbInv, Owned
<1>5. \A q \in Pages : \A c \in Threads : IsPcbOf(q, c) /\ q # p => IsPcbOf(q, c)'
  <2> SUFFICES ASSUME NEW q \in Pages, NEW c \in Threads, IsPcbOf(q, c), q # p
               PROVE  IsPcbOf(q, c)'
    OBVIOUS
  <2>1. CASE c = t
    BY <2>1 DEF IsPcbOf, Early, Late
  <2>2. CASE c # t
    BY <2>2 DEF IsPcbOf
  <2> QED
    BY <2>1, <2>2
<1>6. HavePcbs'
  BY MainAssumption DEF PcbInv, HavePcbs, Early
<1>7. Registers'
  BY <1>2 DEF PcbInv, Registers
<1>8. Owned'
  <2>1. \A u \in Threads : u # Main /\ pc'[u] \in Early =>
          /\ pc[u] \in Early /\ OwnPage(u)' = OwnPage(u) /\ OwnPage(u) \in Pages
          /\ OwnPage(u) # p
    BY <1>4, PageInUse DEF OwnPage, Early
  <2> QED
    BY <2>1 DEF PcbInv, Owned
<1>9. Listed'
  <2> SUFFICES ASSUME NEW u \in Threads, NEW q \in Pages, OnList(u, q)'
               PROVE  /\ IsPcbOf(q, mem[q].pid)'
                      /\ \A v \in Threads : OnList(v, q)' => v = u
                      /\ mem'[q].waiting => pc'[u] \in {"wait", "reap"} /\ reg'[u].pcb = q
    BY DEF Listed
  <2>1. /\ OnList(u, q) /\ q # p /\ mem'[q] = mem[q]
    BY <1>3
  <2>2. /\ IsPcbOf(q, mem[q].pid) /\ \A v \in Threads : OnList(v, q) => v = u
        /\ mem[q].waiting => pc[u] \in {"wait", "reap"} /\ reg[u].pcb = q
    BY <2>1 DEF PcbInv, Listed
  <2>3. IsPcbOf(q, mem[q].pid)'
    BY <1>5, <2>1, <2>2 DEF IsPcbOf
  <2>4. CASE u = t
    BY <1>1, <1>3, <2>1, <2>2, <2>3, <2>4
  <2>5. CASE u # t
    BY <1>3, <2>1, <2>2, <2>3, <2>5
  <2> QED
    BY <2>4, <2>5
<1>10. Distinct'
  BY DEF PcbInv, Distinct
<1>11. Held'
  <2>1. \A u \in Threads : \A q \in Pages : InHand(u, q)' =>
          InHand(u, q) /\ mem'[q] = mem[q]
    BY <1>1 DEF InHand
  <2> QED
    BY <1>3, <2>1 DEF PcbInv, Held
<1>12. Working'
  <2> SUFFICES ASSUME NEW u \in Threads, u # t
               PROVE  /\ pc'[u] = "exec" => /\ IsPcbOf(reg[u].pcb, reg[u].tid)'
                                            /\ ~ mem'[reg'[u].pcb].waiting
                      /\ pc'[u] \in {"wait", "reap"} => OnList(u, reg[u].pcb)'
    BY DEF Working
  <2>1. pc'[u] = pc[u] /\ reg'[u] = reg[u]
    OBVIOUS
  <2>2. CASE pc[u] = "exec"
    <3>1. /\ reg[u].pcb \in Pages /\ reg[u].pcb # p
          /\ IsPcbOf(reg[u].pcb, reg[u].tid) /\ ~ mem[reg[u].pcb].waiting
      BY <1>1, <2>2, PageInUse DEF PcbInv, Working, InHand
    <3>2. IsPcbOf(reg[u].pcb, reg[u].tid)' /\ mem'[reg[u].pcb] = mem[reg[u].pcb]
      BY <1>5, <2>1, <3>1 DEF IsPcbOf
    <3> QED
      BY <2>1, <2>2, <3>1, <3>2
  <2> QED
    BY <1>w, <2>1, <2>2 DEF PcbInv, Working
<1> QED
  BY <1>6, <1>7, <1>8, <1>9, <1>10, <1>11, <1>12 DEF PcbInv
\* The page that process_wait frees is the one that leaves the list.
LEMMA ReapList ==
  ASSUME PcbInv, NEW t \in Threads, Reap(t), NEW p, p = reg[t].pcb, mem[p].exited
  PROVE  /\ \A q : OnList(t, q)' <=> OnList(t, q) /\ q # p
         /\ \A j, k \in DOMAIN children'[t] : children'[t][j] = children'[t][k] => j = k
<1>1. children \in [Threads -> Seq(Pages)] /\ OnList(t, p)
  BY Typed DEF Reap, At, PcbInv, Working
<1>2. PICK s \in Seq(Pages) : s = children[t]
  BY <1>1
<1>3. \A j, k \in 1 .. Len(s) : s[j] = s[k] => j = k
  BY <1>2 DEF PcbInv, Distinct
<1>4. PICK i \in 1 .. Len(s) : s[i] = p
  BY <1>1, <1>2 DEF OnList
<1>5. PICK r :
        /\ r \in Seq(Pages) /\ r = RemoveFirst(s, p) /\ Len(r) = Len(s) - 1
        /\ \A j \in 1 .. Len(r) : r[j] = s[IF j < i THEN j ELSE j + 1]
  BY <1>3, <1>4, RemoveOnce
<1>6. children'[t] = r
  <2>1. children' = [children EXCEPT ![t] = RemoveFirst(@, p)]
    BY DEF Reap
  <2> QED
    BY <1>1, <1>2, <1>5, <2>1
<1>7. /\ \A q : (\E j \in DOMAIN r : r[j] = q) <=>
                  (\E j \in DOMAIN s : s[j] = q) /\ q # s[i]
      /\ \A j, k \in DOMAIN r : r[j] = r[k] => j = k
  <2>1. Without(s, i, r)
    BY <1>2, <1>3, <1>4, <1>5 DEF Without
  <2> QED
    BY <2>1, OneLess
<1>8. \A q : /\ OnList(t, q)' <=> \E j \in DOMAIN r : r[j] = q
             /\ OnList(t, q) <=> \E j \in DOMAIN s : s[j] = q
  BY <1>2, <1>6 DEF OnList
<1> QED
  <2>1. \A q : OnList(t, q)' <=> OnList(t, q) /\ q # p
    BY <1>4, <1>7, <1>8
  <2>2. \A j, k \in DOMAIN children'[t] : children'[t][j] = children'[t][k] => j = k
    BY <1>6, <1>7
  <2> QED
    BY <2>1, <2>2

\* So is the first page of the list in process_exit.
LEMMA ChildList ==
  ASSUME PcbInv, NEW t \in Threads, ExitChild(t), NEW p, p = Head(children[t])
  PROVE  /\ p \in Pages /\ OnList(t, p)
         /\ \A q : OnList(t, q)' <=> OnList(t, q) /\ q # p
         /\ \A j, k \in DOMAIN children'[t] : children'[t][j] = children'[t][k] => j = k
<1>1. children \in [Threads -> Seq(Pages)]
  BY Typed
<1>2. PICK s \in Seq(Pages) : s = children[t]
  BY <1>1
<1>3. \A j, k \in 1 .. Len(s) : s[j] = s[k] => j = k
  BY <1>2 DEF PcbInv, Distinct
<1>4. s # << >> /\ children'[t] = Tail(s)
  BY <1>1, <1>2 DEF ExitChild
<1>5. 1 \in 1 .. Len(s) /\ s[1] = p /\ p \in Pages
  BY <1>2, <1>4
<1>6. PICK r \in Seq(Pages) : r = Tail(s)
  BY <1>4
<1>7. Len(r) = Len(s) - 1 /\ \A j \in 1 .. Len(r) : r[j] = s[j + 1]
  BY <1>4, <1>6
<1>8. /\ \A q : (\E j \in DOMAIN r : r[j] = q) <=>
                  (\E j \in DOMAIN s : s[j] = q) /\ q # s[1]
      /\ \A j, k \in DOMAIN r : r[j] = r[k] => j = k
  <2>1. Without(s, 1, r)
    BY <1>2, <1>3, <1>5, <1>6, <1>7 DEF Without
  <2> QED
    BY <2>1, OneLess
<1>9. \A q : /\ OnList(t, q)' <=> \E j \in DOMAIN r : r[j] = q
             /\ OnList(t, q) <=> \E j \in DOMAIN s : s[j] = q
  BY <1>2, <1>4, <1>6 DEF OnList
<1> QED
  <2>1. \A q : OnList(t, q)' <=> OnList(t, q) /\ q # p
    BY <1>5, <1>8, <1>9
  <2>2. \A j, k \in DOMAIN children'[t] : children'[t][j] = children'[t][k] => j = k
    BY <1>4, <1>6, <1>8
  <2>3. OnList(t, p)
    <3>1. 1 \in DOMAIN s
      BY <1>5
    <3> QED
      BY <1>5, <1>9, <3>1
  <2> QED
    BY <1>5, <2>1, <2>2, <2>3

\* What process_wait frees has been waited for, and leaves the list.
LEMMA ReapStep ==
  ASSUME PcbInv, TypeOK', NEW t \in Threads, Reap(t)
  PROVE  PcbInv'
<1>0. /\ pc \in [Threads -> Sections] /\ mem \in [Pages -> Pcb \union {Freed}]
      /\ reg \in [Threads -> Regs] /\ children \in [Threads -> Seq(Pages)]
  BY Typed
<1>p. PICK p : p = reg[t].pcb
  OBVIOUS
<1>1. p \in Pages /\ pc[t] = "reap" /\ OnList(t, p)
  BY <1>p, PageInUse DEF Reap, At, PcbInv, Working
<1>2. CASE ~ mem[p].exited
  <2>1. UNCHANGED << pc, mem, pcbOf, children, reg >>
    BY <1>p, <1>2 DEF Reap
  <2> QED
    BY <2>1, StillStep
<1>3. CASE mem[p].exited
  <2>1. /\ children' = [children EXCEPT ![t] = RemoveFirst(@, p)]
        /\ mem' = [mem EXCEPT ![p] = Freed] /\ pcbOf' = pcbOf
        /\ reg' = [reg EXCEPT ![t].pcb = Nothing]
        /\ pc' = [pc EXCEPT ![t] = "user"]
    BY <1>p, <1>3 DEF Reap, Goto
  <2>2. /\ \A q \in Pages : q # p => mem'[q] = mem[q]
        /\ pc'[t] = "user"
        /\ reg'[t].tid = reg[t].tid /\ reg'[t].success = reg[t].success
        /\ reg'[t].status = reg[t].status
        /\ \A u \in Threads : /\ pcbOf'[u] = pcbOf[u]
                              /\ u # t => /\ pc'[u] = pc[u] /\ reg'[u] = reg[u]
                                          /\ children'[u] = children[u]
    BY <1>0, <2>1 DEF Regs
  <2>3. /\ \A q : OnList(t, q)' <=> OnList(t, q) /\ q # p
        /\ \A j, k \in DOMAIN children'[t] : children'[t][j] = children'[t][k] => j = k
    BY <1>p, <1>3, ReapList
  <2> QED
    BY <1>p, <1>1, <1>3, <2>2, <2>3, FreeStep
<1> QED
  BY <1>2, <1>3

\* An exiting process takes the first child off its list: it frees the pcb, or
\* holds it to make the child an orphan.
LEMMA ChildStep ==
  ASSUME PcbInv, TypeOK', NEW t \in Threads, ExitChild(t)
  PROVE  PcbInv'
<1>0. /\ pc \in [Threads -> Sections] /\ mem \in [Pages -> Pcb \union {Freed}]
      /\ reg \in [Threads -> Regs] /\ children \in [Threads -> Seq(Pages)]
  BY Typed
<1>p. PICK p : p = Head(children[t])
  OBVIOUS
<1>1. /\ pc[t] = "kids" /\ pcbOf' = pcbOf
      /\ children' = [children EXCEPT ![t] = Tail(@)]
  BY DEF ExitChild, At
<1>2. /\ p \in Pages /\ OnList(t, p)
      /\ \A q : OnList(t, q)' <=> OnList(t, q) /\ q # p
      /\ \A j, k \in DOMAIN children'[t] : children'[t][j] = children'[t][k] => j = k
  BY <1>p, ChildList
<1>3. children[t] # << >> /\ \A u \in Threads : u # t => children'[u] = children[u]
  BY <1>0, <1>1 DEF ExitChild
<1>8. CASE mem[p].exited
  <2>1. mem' = [mem EXCEPT ![p] = Freed] /\ pc' = pc /\ reg' = reg
    BY <1>p, <1>8 DEF ExitChild
  <2>2. \A q \in Pages : q # p => mem'[q] = mem[q]
    BY <1>0, <2>1
  <2> QED
    BY <1>1, <1>2, <1>3, <1>8, <2>1, <2>2, FreeStep
<1>9. CASE ~ mem[p].exited
  <2>1. /\ mem' = mem /\ pc' = [pc EXCEPT ![t] = "orphan"]
        /\ reg' = [reg EXCEPT ![t].pcb = p]
    BY <1>p, <1>9 DEF ExitChild, Goto
  <2>2. /\ pc'[t] = "orphan" /\ reg'[t].pcb = p
        /\ \A u \in Threads : u # t => pc'[u] = pc[u] /\ reg'[u] = reg[u]
        /\ \A u \in Threads : /\ reg'[u].tid = reg[u].tid
                              /\ reg'[u].success = reg[u].success
                              /\ reg'[u].status = reg[u].status
    BY <1>0, <2>1 DEF Regs
  <2>3. /\ mem[p] # Freed /\ \A u \in Threads : ~ InHand(u, p)
        /\ \A u \in Threads : OnList(u, p) => u = t
    BY <1>2 DEF PcbInv, Listed, Held, IsPcbOf
  <2>4. /\ \A u \in Threads : SameLife(u)
        /\ \A q \in Pages : SamePage(q) /\ mem'[q] = mem[q]
    BY <1>1, <2>1, <2>2 DEF SameLife, SamePage, Early, Late
  <2>5. /\ HavePcbs' /\ Owned'
        /\ \A q \in Pages, c \in Threads : IsPcbOf(q, c) => IsPcbOf(q, c)'
    BY <2>4, SameOwners
  <2>6. /\ \A u \in Threads : \A q : OnList(u, q)' => OnList(u, q) /\ q # p
        /\ \A u \in Threads : \A q : u # t /\ OnList(u, q) => OnList(u, q)'
    <3>1. \A u \in Threads : \A q : u # t => (OnList(u, q)' <=> OnList(u, q))
      BY <1>3 DEF OnList
    <3> QED
      BY <1>2, <2>3, <3>1
  <2>7. Registers'
    BY <1>1, <1>3, <2>2 DEF PcbInv, Registers
  <2>8. Listed'
    <3> SUFFICES ASSUME NEW u \in Threads, NEW q \in Pages, OnList(u, q)'
                 PROVE  /\ IsPcbOf(q, mem[q].pid)'
                        /\ \A v \in Threads : OnList(v, q)' => v = u
                        /\ mem'[q].waiting => pc'[u] \in {"wait", "reap"} /\ reg'[u].pcb = q
      BY DEF Listed
    <3>1. /\ IsPcbOf(q, mem[q].pid) /\ \A v \in Threads : OnList(v, q) => v = u
          /\ mem[q].waiting => pc[u] \in {"wait", "reap"} /\ reg[u].pcb = q
      BY <2>6 DEF PcbInv, Listed
    <3>2. IsPcbOf(q, mem[q].pid)'
      BY <2>4, <2>5, <3>1 DEF IsPcbOf
    <3>3. u # t \/ ~ mem[q].waiting
      BY <1>1, <3>1
    <3> QED
      BY <2>2, <2>4, <2>6, <3>1, <3>2, <3>3
  <2>9. Distinct'
    BY <1>2, <1>3 DEF PcbInv, Distinct
  <2>10. Held'
    <3>1. \A u \in Threads : \A q \in Pages : InHand(u, q)' =>
            (u = t /\ q = p) \/ (u # t /\ InHand(u, q) /\ q # p)
      BY <2>2, <2>3 DEF InHand
    <3>2. \A u \in Threads : \A q \in Pages : InHand(u, q)' =>
            mem'[q] # Freed /\ \A v \in Threads : ~ OnList(v, q)'
      BY <2>3, <2>4, <2>6, <3>1 DEF PcbInv, Held
    <3>3. \A u, v \in Threads : \A q \in Pages : InHand(u, q)' /\ InHand(v, q)' => u = v
      BY <3>1 DEF PcbInv, Held
    <3> QED
      BY <3>2, <3>3 DEF Held
  <2>11. Working'
    <3> SUFFICES ASSUME NEW u \in Threads, u # t
                 PROVE  /\ pc'[u] = "exec" => /\ IsPcbOf(reg[u].pcb, reg[u].tid)'
                                              /\ ~ mem'[reg'[u].pcb].waiting
                        /\ pc'[u] \in {"wait", "reap"} => OnList(u, reg[u].pcb)'
      BY <2>2 DEF Working
    <3>1. pc'[u] = pc[u] /\ reg'[u] = reg[u]
      BY <2>2
    <3>2. CASE pc[u] = "exec"
      <4>1. /\ reg[u].pcb \in Pages
            /\ IsPcbOf(reg[u].pcb, reg[u].tid) /\ ~ mem[reg[u].pcb].waiting
        BY <3>2, PageInUse DEF PcbInv, Working
      <4>2. IsPcbOf(reg[u].pcb, reg[u].tid)'
        BY <2>5, <3>1, <4>1 DEF IsPcbOf
      <4> QED
        BY <2>1, <3>1, <3>2, <4>1, <4>2
    <3> QED
      BY <2>6, <3>1, <3>2 DEF PcbInv, Working
  <2> QED
    BY <2>5, <2>7, <2>8, <2>9, <2>10, <2>11 DEF PcbInv
<1> QED
  BY <1>8, <1>9

\* The invariant is inductive.
LEMMA NextPcb == PcbInv /\ [Next]_vars => PcbInv'
<1> SUFFICES ASSUME PcbInv, [Next]_vars PROVE PcbInv'
  OBVIOUS
<1>1. CASE UNCHANGED vars
  <2>1. TypeOK' /\ UNCHANGED << pc, mem, pcbOf, children, reg >>
    BY <1>1 DEF vars, PcbInv, TypeOK
  <2> QED
    BY <2>1, StillStep
<1>2. CASE Next
  <2>1. TypeOK'
    BY <1>2, TypeStep
  <2>2. PICK t \in Threads :
          \/ KernelStep(t)
          \/ ExecFail(t)
          \/ \E c \in Threads, p \in Pages : Exec(t, c, p)
          \/ \E c \in Threads : WaitNone(t, c) \/ Wait(t, c)
          \/ \E k \in Codes \union {Fail} : Exit(t, k)
    BY <1>2 DEF Next
  <2>3. CASE KernelStep(t)
    BY <2>1, <2>3, StartStep, ExecDoneStep, SemaStep, ReapStep, ChildStep, OrphanStep,
       ExitStep DEF KernelStep
  <2>4. CASE ExecFail(t) \/ \E c \in Threads : WaitNone(t, c)
    <3>1. UNCHANGED << pc, mem, pcbOf, children, reg >>
      BY <2>4 DEF ExecFail, WaitNone
    <3> QED
      BY <2>1, <3>1, StillStep
  <2>5. CASE \E c \in Threads, p \in Pages : Exec(t, c, p)
    BY <2>1, <2>5, ExecStep
  <2>6. CASE \E c \in Threads : Wait(t, c)
    BY <2>1, <2>6, WaitStep
  <2>7. CASE \E k \in Codes \union {Fail} : Exit(t, k)
    BY <2>1, <2>7, ExitStep
  <2> QED
    BY <2>2, <2>3, <2>4, <2>5, <2>6, <2>7
<1> QED
  BY <1>1, <1>2

-------------------------------------------------------------------------------
\* Every thread, page and list is what the sections of the code take it for: in
\* particular the pcb on a child_list is that of a child that was loaded, says
\* whether the child has exited, and is waited for only by the list's owner
\* (process_execute, process_wait, process_exit).
THEOREM PcbsHold == Spec => []PcbInv
<1> QED
  BY InitPcb, NextPcb, PTL DEF Spec

\* The variables keep their types, and a thread that creates, waits for or
\* orphans a child has the page of a pcb in hand.
THEOREM ProcessTypes == Spec => []TypeOK
<1>1. PcbInv => TypeOK
  BY DEF PcbInv
<1> QED
  BY <1>1, PcbsHold, PTL

\* Until process_exit sets exited, nobody has freed the page of a process's pcb
\* and it has not become another's, whoever waits, exits or creates meanwhile.
THEOREM PcbsNotStolen == Spec => []PcbNotStolen
<1>1. PcbInv => PcbNotStolen
  <2> SUFFICES ASSUME PcbInv, NEW t \in Threads, NEW u \in Threads,
                      pc[t] \in Early, t # Main
               PROVE  /\ mem[OwnPage(t)] # Freed
                      /\ u # t /\ pc[u] \in Early => OwnPage(u) # OwnPage(t)
    BY DEF PcbNotStolen, Early
  <2>1. OwnPage(t) \in Pages
    BY PageInUse DEF OwnPage, Early
  <2>2. OwnPage(Main) = Nothing
    BY DEF PcbInv, HavePcbs, OwnPage
  <2> QED
    BY <2>1, <2>2, NothingAssumption DEF PcbInv, Owned
<1> QED
  BY <1>1, PcbsHold, PTL

\* A pcb is on one child_list, once, and its page is in use: process_wait and
\* process_exit of the parent cannot both free it.
THEOREM FreedOnce == Spec => []OneFreer
<1>1. PcbInv => OneFreer
  <2> SUFFICES ASSUME PcbInv, NEW t \in Threads, NEW u \in Threads,
                      NEW i \in DOMAIN children[t], NEW j \in DOMAIN children[u]
               PROVE  /\ mem[children[t][i]] # Freed
                      /\ children[t][i] = children[u][j] => t = u /\ i = j
    BY DEF OneFreer
  <2>1. children[t][i] \in Pages /\ OnList(t, children[t][i]) /\ OnList(u, children[u][j])
    BY PageInUse DEF OnList
  <2>2. IsPcbOf(children[t][i], mem[children[t][i]].pid)
    BY <2>1 DEF PcbInv, Listed
  <2>3. CASE children[t][i] = children[u][j]
    <3>1. t = u
      BY <2>1, <2>3 DEF PcbInv, Listed
    <3> QED
      BY <2>2, <2>3, <3>1 DEF PcbInv, Distinct, IsPcbOf
  <2> QED
    BY <2>2, <2>3 DEF IsPcbOf
<1> QED
  BY <1>1, PcbsHold, PTL
-------------------------------------------------------------------------------
(* exec, wait and exit keep their contract.                                *)

\* The children t can wait for: those whose pcb is on its list.
Kids(t) == {mem[p].pid : p \in ToSet(children[t])}

LEMMA KidsAre ==
  ASSUME NEW t
  PROVE  /\ \A c : c \in Kids(t) <=> \E p : OnList(t, p) /\ mem[p].pid = c
         /\ \A c : c \in Kids(t)' <=> \E p : OnList(t, p)' /\ mem'[p].pid = c
  BY DEF Kids, OnList, ToSet

\* The pcbs on a list are those of different threads, each of which it says by name.
LEMMA ListedPid ==
  ASSUME PcbInv, NEW t \in Threads, NEW p, OnList(t, p)
  PROVE  /\ p \in Pages /\ mem[p] \in Pcb
         /\ mem[p].pid \in Threads /\ IsPcbOf(p, mem[p].pid)
         /\ \A q : OnList(t, q) /\ mem[q].pid = mem[p].pid => q = p
<1>1. \A q : OnList(t, q) => q \in Pages /\ mem[q] \in Pcb
  BY PageInUse DEF OnList
<1>2. \A q : OnList(t, q) => mem[q].pid \in Threads /\ IsPcbOf(q, mem[q].pid)
  BY <1>1 DEF PcbInv, Listed, IsPcbOf
<1>3. \A q : OnList(t, q) => pcbOf[mem[q].pid] = q
  BY <1>2, NothingAssumption DEF IsPcbOf
<1> QED
  BY <1>1, <1>2, <1>3

\* Lists with the same pages, which hold the pcbs of the same threads, are lists
\* of the same children.
LEMMA SameKids ==
  ASSUME NEW t, \A q : OnList(t, q)' <=> OnList(t, q),
         \A q : OnList(t, q) => mem'[q].pid = mem[q].pid
  PROVE  Kids(t)' = Kids(t)
<1>1. \A c : c \in Kids(t)' <=> c \in Kids(t)
  BY KidsAre
<1>2. Kids(t)' = {mem'[p].pid : p \in ToSet(children'[t])}
  BY DEF Kids
<1> QED
  BY <1>1, <1>2 DEF Kids

\* A list without the pcb of child c is the list of the other children.
LEMMA OneKidLess ==
  ASSUME PcbInv, NEW t \in Threads, NEW p, OnList(t, p),
         \A q : OnList(t, q)' <=> OnList(t, q) /\ q # p,
         \A q \in Pages : q # p => mem'[q].pid = mem[q].pid
  PROVE  Kids(t)' = Kids(t) \ {mem[p].pid}
<1>1. \A q : OnList(t, q) => q \in Pages /\ (mem[q].pid = mem[p].pid => q = p)
  BY ListedPid
<1>2. \A c : c \in Kids(t)' <=> c \in Kids(t) /\ c # mem[p].pid
  BY <1>1, KidsAre
<1>3. Kids(t)' = {mem'[q].pid : q \in ToSet(children'[t])}
  BY DEF Kids
<1> QED
  BY <1>2, <1>3 DEF Kids

\* No step but start_process and the reuse of a page changes the pid in a pcb.
LEMMA PidsKept ==
  ASSUME PcbInv, NEW t \in Threads,
         \/ ExecDone(t) \/ WaitDown(t) \/ ExitOrphan(t) \/ ExitMark(t)
         \/ ExitRead(t) \/ ExitUp(t) \/ ExitLast(t)
         \/ \E c \in Threads : Wait(t, c)
         \/ \E k \in Codes \union {Fail} : Exit(t, k)
  PROVE  \A q \in Pages : mem[q] # Freed => mem'[q].pid = mem[q].pid
<1>0. mem \in [Pages -> Pcb \union {Freed}]
  BY Typed
<1>1. \/ mem' = mem
      \/ \E p : /\ p \in Pages /\ mem[p] \in Pcb
                /\ \E v : \/ mem' = [mem EXCEPT ![p].init = v]
                          \/ mem' = [mem EXCEPT ![p].wait = v]
                          \/ mem' = [mem EXCEPT ![p].orphan = v]
                          \/ mem' = [mem EXCEPT ![p].exited = v]
                          \/ mem' = [mem EXCEPT ![p].waiting = v]
                          \/ mem' = [mem EXCEPT ![p].exitcode = v]
  <2>1. CASE ExecDone(t) \/ WaitDown(t) \/ ExitOrphan(t)
    <3>1. reg[t].pcb \in Pages /\ mem[reg[t].pcb] \in Pcb
      BY <2>1, PageInUse DEF ExecDone, WaitDown, ExitOrphan, At
    <3> QED
      BY <2>1, <3>1 DEF ExecDone, WaitDown, ExitOrphan
  <2>2. CASE \E c \in Threads : Wait(t, c)
    <3>1. PICK c \in Threads : Wait(t, c)
      BY <2>2
    <3>2. PICK p : p \in PcbFor(t, c) /\ mem' = [mem EXCEPT ![p].waiting = TRUE]
      BY <3>1 DEF Wait
    <3>3. p \in Pages /\ mem[p] \in Pcb
      BY <3>2, PageInUse DEF PcbFor, ToSet
    <3> QED
      BY <3>2, <3>3
  <2>3. CASE ExitMark(t) \/ \E k \in Codes \union {Fail} : Exit(t, k)
    <3>1. pcbOf[t] = Nothing \/ (pcbOf[t] \in Pages /\ mem[pcbOf[t]] \in Pcb)
      BY <2>3, PageInUse DEF ExitMark, Exit, MayCall, At, Early, PcbInv, HavePcbs
    <3> QED
      BY <2>3, <3>1 DEF ExitMark, Exit
  <2>4. CASE ExitRead(t) \/ ExitUp(t) \/ ExitLast(t)
    <3>1. pcbOf[t] \in Pages
      BY <2>4 DEF ExitRead, ExitUp, ExitLast, At, PcbInv, HavePcbs, Early
    <3> QED
      BY <1>0, <2>4, <3>1 DEF ExitRead, ExitUp, ExitLast
  <2> QED
    BY <2>1, <2>2, <2>3, <2>4
<1> QED
  BY <1>0, <1>1 DEF Pcb

\* At first main is a live process without children, and there is no other.
LEMMA InitContract == Init => Contract!Init
<1> SUFFICES ASSUME Init PROVE Contract!Init
  OBVIOUS
<1>1. \A t \in Threads : /\ Life(t) = IF t = Main THEN "live" ELSE "none"
                         /\ reg[t].tid = Nothing /\ reg[t].status = Fail
  <2>1. \A t \in Threads : pc[t] = IF t = Main THEN "user" ELSE "none"
    BY DEF Init
  <2>2. \A t \in Threads : /\ reg[t].success = TRUE /\ reg[t].tid = Nothing
                           /\ reg[t].status = Fail
    BY DEF Init, NoReg
  <2> QED
    BY <2>1, <2>2 DEF Life
<1>2. \A t \in Threads : Kids(t) = {}
  <2>1. \A t \in Threads : children[t] = << >>
    BY DEF Init
  <2> QED
    BY <2>1 DEF Kids, ToSet
<1>3. ret = << >>
  BY DEF Init
<1> QED
  BY <1>1, <1>2, <1>3 DEF Contract!Init, Kids
\* How far a thread has come, from the section it is in.
LEMMA Lives ==
  ASSUME PcbInv, NEW t \in Threads
  PROVE  /\ pc[t] \in {"user", "exec", "wait", "reap"} => Life(t) = "live"
         /\ pc[t] \in {"kids", "orphan"} /\ children[t] # << >> => Life(t) = "exiting"
         /\ pc[t] # "exec" => reg[t].tid = Nothing
         /\ reg[t].status \in Codes \union {Fail}
<1>1. pc[t] \in {"user", "exec", "wait", "reap"} => Life(t) = "live"
  BY DEF Life, PcbInv, Registers
<1>2. pc[t] \in {"kids", "orphan"} /\ children[t] # << >> => Life(t) = "exiting"
  BY DEF Life, PcbInv, Registers
<1>3. pc[t] # "exec" => reg[t].tid = Nothing
  BY DEF PcbInv, Registers
<1>4. reg[t].status \in Codes \union {Fail}
  BY Typed DEF Regs
<1> QED
  BY <1>1, <1>2, <1>3, <1>4

\* A child whose pcb is on a list has loaded; it has ended if its pcb says so, with
\* the code that is there.
LEMMA ChildLife ==
  ASSUME PcbInv, NEW t \in Threads, NEW p, OnList(t, p), mem[p].exited
  PROVE  Life(mem[p].pid) = "ended" /\ mem[p].exitcode = reg[mem[p].pid].status
<1>1. mem[p].pid \in Threads /\ IsPcbOf(p, mem[p].pid)
  BY ListedPid
<1>2. pc[mem[p].pid] \in Late /\ mem[p].exitcode = reg[mem[p].pid].status
  BY <1>1 DEF IsPcbOf
<1>3. reg[mem[p].pid].success
  BY <1>1, <1>2, FailAssumption DEF IsPcbOf, Late
<1> QED
  BY <1>2, <1>3 DEF Life, Late

\* The contract sees nothing of a step that leaves lives, children, codes and
\* answers as they are.
LEMMA Unseen ==
  ASSUME \A u \in Threads : /\ Life(u)' = Life(u) /\ Kids(u)' = Kids(u)
                            /\ reg'[u].tid = reg[u].tid /\ reg'[u].status = reg[u].status,
         ret' = ret
  PROVE  UNCHANGED Contract!vars
  BY DEF Contract!vars, Kids

\* exec without memory, and wait for what is not a child or already waited for.
LEMMA RefusedContract ==
  ASSUME PcbInv, NEW t \in Threads, ExecFail(t) \/ \E c \in Threads : WaitNone(t, c)
  PROVE  Contract!Next
<1>1. UNCHANGED << pc, mem, pcbOf, children, reg >> /\ pc[t] = "user"
  BY DEF ExecFail, WaitNone, MayCall, At
<1>2. \A u \in Threads : Life(u)' = Life(u) /\ Kids(u)' = Kids(u)
  BY <1>1 DEF Life, Kids
<1>3. Life(t) = "live" /\ reg[t].tid = Nothing
  BY <1>1, Lives
<1>4. CASE ExecFail(t)
  <2>1. Contract!Deny(t)
    BY <1>1, <1>2, <1>3, <1>4 DEF ExecFail, Answer, Kids, Contract!Deny, Contract!Answer
  <2> QED
    BY <2>1 DEF Contract!Next
<1>5. CASE \E c \in Threads : WaitNone(t, c)
  <2>1. PICK c \in Threads : WaitNone(t, c)
    BY <1>5
  <2>2. c \notin Kids(t)
    <3> SUFFICES ASSUME NEW p, OnList(t, p), mem[p].pid = c PROVE FALSE
      BY KidsAre
    <3>1. p \in Pages /\ p \in PcbFor(t, c)
      BY ListedPid DEF PcbFor, ToSet, OnList
    <3>2. mem[p].waiting
      BY <2>1, <3>1 DEF WaitNone
    <3> QED
      BY <1>1, <3>1, <3>2 DEF PcbInv, Listed
  <2>3. Contract!Refuse(t, c)
    BY <1>1, <1>2, <1>3, <2>1, <2>2 DEF WaitNone, Answer, Kids, Contract!Refuse, Contract!Answer
  <2> QED
    BY <2>3 DEF Contract!Next
<1> QED
  BY <1>4, <1>5

\* exec creates a child, which is on no list yet.
LEMMA SpawnContract ==
  ASSUME PcbInv, NEW t \in Threads, NEW c \in Threads, NEW p \in Pages, Exec(t, c, p)
  PROVE  Contract!Spawn(t, c)
<1>0. /\ pc \in [Threads -> Sections] /\ mem \in [Pages -> Pcb \union {Freed}]
      /\ reg \in [Threads -> Regs]
  BY Typed
<1>1. pc[t] = "user" /\ pc[c] = "none" /\ c # t /\ mem[p] = Freed
  BY DEF Exec, MayCall, At
<1>2. /\ children' = children /\ ret' = ret
      /\ \A q \in Pages : q # p => mem'[q] = mem[q]
  BY <1>0 DEF Exec
<1>3. /\ pc'[t] = "exec" /\ pc'[c] = "start" /\ reg'[t].tid = c
      /\ \A u \in Threads : /\ u \notin {t, c} => pc'[u] = pc[u]
                            /\ u # t => reg'[u].tid = reg[u].tid
                            /\ reg'[u].success = reg[u].success
                            /\ reg'[u].status = reg[u].status
  BY <1>0, <1>1 DEF Exec, Regs
<1>4. \A u \in Threads : Kids(u)' = Kids(u)
  <2> SUFFICES ASSUME NEW u \in Threads PROVE Kids(u)' = Kids(u)
    OBVIOUS
  <2>1. \A q : OnList(u, q)' <=> OnList(u, q)
    BY <1>2 DEF OnList
  <2>2. \A q : OnList(u, q) => q \in Pages /\ mem[q] # Freed
    BY ListedPid DEF IsPcbOf
  <2>3. \A q : OnList(u, q) => mem'[q].pid = mem[q].pid
    BY <1>1, <1>2, <2>2
  <2> QED
    BY <2>1, <2>3, SameKids
<1>5. Life(t) = "live" /\ Life(c) = "none" /\ reg[t].tid = Nothing
  BY <1>1, Lives DEF Life
<1>6. \A u \in Threads : Life(u)' = IF u = c THEN "loading" ELSE Life(u)
  BY <1>1, <1>3 DEF Life
<1> QED
  BY <1>2, <1>3, <1>4, <1>5, <1>6 DEF Kids, Contract!Spawn, Contract!Becomes

\* The child loads its program or does not; its pcb is on no list.
LEMMA LoadContract ==
  ASSUME PcbInv, NEW c \in Threads, NEW success \in BOOLEAN, Start(c, success)
  PROVE  Contract!Load(c)
<1>0. /\ pc \in [Threads -> Sections] /\ mem \in [Pages -> Pcb \union {Freed}]
      /\ reg \in [Threads -> Regs]
  BY Typed
<1>p. PICK p : p = reg[c].pcb
  OBVIOUS
<1>1. p \in Pages /\ pc[c] = "start" /\ c # Main /\ OwnPage(c) = p
  BY <1>p, PageInUse DEF Start, At, PcbInv, HavePcbs, OwnPage
<1>2. /\ children' = children /\ ret' = ret
      /\ \A q \in Pages : q # p => mem'[q] = mem[q]
  BY <1>0, <1>p DEF Start
<1>3. /\ pc' = [pc EXCEPT ![c] = IF success THEN "user" ELSE "kids"]
      /\ reg' = [reg EXCEPT ![c].success = success, ![c].pcb = Nothing]
  BY DEF Start, Goto
<1>4. /\ \/ pc'[c] = "user" /\ reg'[c].success = TRUE
         \/ pc'[c] = "kids" /\ reg'[c].success = FALSE
      /\ \A u \in Threads : u # c => pc'[u] = pc[u] /\ reg'[u] = reg[u]
      /\ reg'[c].tid = reg[c].tid /\ reg'[c].status = reg[c].status
  BY <1>0, <1>3 DEF Regs
<1>5. \A u \in Threads : Kids(u)' = Kids(u)
  <2> SUFFICES ASSUME NEW u \in Threads PROVE Kids(u)' = Kids(u)
    OBVIOUS
  <2>1. \A q : OnList(u, q)' <=> OnList(u, q)
    BY <1>2 DEF OnList
  <2>2. \A q : OnList(u, q) => q \in Pages /\ mem[q].pid \in Threads /\ IsPcbOf(q, mem[q].pid)
    BY ListedPid
  <2>3. ~ OnList(u, p)
    <3> SUFFICES ASSUME OnList(u, p) PROVE FALSE
      OBVIOUS
    <3>1. mem[p].pid = c
      BY <1>1, <2>2, SoleOwner DEF Early
    <3> QED
      BY <1>1, <2>2, <3>1, NothingAssumption DEF IsPcbOf, Early
  <2>4. \A q : OnList(u, q) => mem'[q].pid = mem[q].pid
    BY <1>2, <2>2, <2>3
  <2> QED
    BY <2>1, <2>4, SameKids
<1>6. Life(c) = "loading" /\ Life(c)' \in {"live", "failed"}
  BY <1>1, <1>4 DEF Life
<1>7. \A u \in Threads : u # c => Life(u)' = Life(u)
  BY <1>4 DEF Life
<1> QED
  BY <1>2, <1>4, <1>5, <1>6, <1>7 DEF Kids, Contract!Load, Contract!Becomes
\* exec returns with the child that loaded on the list, or with the failure.
LEMMA AdoptContract ==
  ASSUME PcbInv, NEW t \in Threads, ExecDone(t)
  PROVE  Contract!Adopt(t)
<1>0. /\ pc \in [Threads -> Sections] /\ mem \in [Pages -> Pcb \union {Freed}]
      /\ reg \in [Threads -> Regs] /\ children \in [Threads -> Seq(Pages)]
  BY Typed
<1>p. PICK p, c : p = reg[t].pcb /\ c = reg[t].tid
  OBVIOUS
<1>1. /\ pc[t] = "exec" /\ p \in Pages /\ mem[p].init > 0 /\ IsPcbOf(p, c) /\ c \in Threads
  BY <1>p, PageInUse DEF ExecDone, At, PcbInv, Working, IsPcbOf
<1>2. /\ pc[c] \notin {"none", "start"} /\ mem[p].pid = IF reg[c].success THEN c ELSE Fail
  BY <1>1 DEF IsPcbOf, Early, Late
<1>3. Life(c) # "loading" /\ (Life(c) = "failed" <=> mem[p].pid = Fail)
  BY <1>1, <1>2, FailAssumption DEF Life
<1>4. c # Nothing /\ (mem[p].pid # Fail => mem[p].pid = c)
  BY <1>1, <1>2, NothingAssumption
<1>5. /\ pc'[t] = "user" /\ reg'[t].tid = Nothing
      /\ \A u \in Threads : /\ u # t => pc'[u] = pc[u] /\ reg'[u].tid = reg[u].tid
                            /\ reg'[u].success = reg[u].success
                            /\ reg'[u].status = reg[u].status
  BY <1>0 DEF ExecDone, Goto, Regs
<1>6. \A u \in Threads : Life(u)' = Life(u)
  <2>1. Life(t) = "live" /\ reg[t].success
    BY <1>1, Lives DEF PcbInv, Registers
  <2> QED
    BY <1>5, <2>1 DEF Life
<1>7. /\ children' = IF mem[p].pid # Fail
                     THEN [children EXCEPT ![t] = Append(@, p)] ELSE children
      /\ ret' = << t >> \o << "exec", mem[p].pid >>
  BY <1>p DEF ExecDone, Answer
<1>8. \A u \in Threads : \A q : OnList(u, q) => mem'[q].pid = mem[q].pid
  BY ListedPid, PidsKept DEF IsPcbOf
<1>9. mem'[p].pid = mem[p].pid
  BY <1>1, PidsKept DEF IsPcbOf
<1>10. \A u \in Threads : u # t => Kids(u)' = Kids(u)
  <2> SUFFICES ASSUME NEW u \in Threads, u # t PROVE Kids(u)' = Kids(u)
    OBVIOUS
  <2>1. children'[u] = children[u]
    BY <1>0, <1>7
  <2>2. \A q : OnList(u, q)' <=> OnList(u, q)
    BY <2>1 DEF OnList
  <2> QED
    BY <1>8, <2>2, SameKids
<1>a. /\ c \in Threads /\ c # Nothing /\ reg[t].tid = c
      /\ \A u \in Threads : /\ reg'[u].tid = IF u = t THEN Nothing ELSE reg[u].tid
                            /\ reg'[u].status = reg[u].status
      /\ ret' = << t >> \o << "exec", mem[p].pid >>
  BY <1>p, <1>1, <1>4, <1>5, <1>7
<1>11. CASE mem[p].pid = Fail
  <2>1. Kids(t)' = Kids(t)
    <3>1. \A q : OnList(t, q)' <=> OnList(t, q)
      BY <1>7, <1>11 DEF OnList
    <3> QED
      BY <1>8, <3>1, SameKids
  <2>2. \A u \in Threads : Kids(u)' = Kids(u)
    BY <1>10, <2>1
  <2> QED
    BY <1>a, <1>3, <1>6, <1>11, <2>2 DEF Kids, Contract!Adopt, Contract!Answer
<1>12. CASE mem[p].pid # Fail
  <2>1. \A q : OnList(t, q)' <=> OnList(t, q) \/ q = p
    <3>1. PICK s \in Seq(Pages) : s = children[t]
      BY <1>0
    <3>2. children'[t] = Append(s, p)
      BY <1>0, <1>7, <1>12, <3>1
    <3>3. /\ DOMAIN Append(s, p) = 1 .. Len(s) + 1 /\ DOMAIN s = 1 .. Len(s)
          /\ Len(s) \in Nat /\ Append(s, p)[Len(s) + 1] = p
          /\ \A i \in 1 .. Len(s) : Append(s, p)[i] = s[i]
      BY <1>1
    <3>4. \A i \in 1 .. Len(s) + 1 : i \in 1 .. Len(s) \/ i = Len(s) + 1
      BY <3>3
    <3>5. Len(s) + 1 \in 1 .. Len(s) + 1 /\ \A i \in 1 .. Len(s) : i \in 1 .. Len(s) + 1
      BY <3>3
    <3> QED
      BY <3>1, <3>2, <3>3, <3>4, <3>5 DEF OnList
  <2>2. \A d : d \in Kids(t)' <=> d \in Kids(t) \/ d = c
    BY <1>4, <1>8, <1>9, <1>12, <2>1, KidsAre
  <2>3. Kids(t)' = Kids(t) \union {c}
    BY <2>2 DEF Kids
  <2>4. \A u \in Threads : Kids(u)' = IF u = t THEN Kids(t) \union {c} ELSE Kids(u)
    BY <1>10, <2>3
  <2>5. Life(c) # "failed" /\ ret' = << t >> \o << "exec", c >>
    BY <1>a, <1>3, <1>4, <1>12
  <2> QED
    BY <1>a, <1>3, <1>6, <2>4, <2>5 DEF Kids, Contract!Adopt, Contract!Answer
<1> QED
  BY <1>11, <1>12

\* wait returns the status of a child that has ended, and the child is one no more.
LEMMA ReapContract ==
  ASSUME PcbInv, NEW t \in Threads, Reap(t)
  PROVE  UNCHANGED Contract!vars \/ \E c \in Threads : Contract!Reap(t, c)
<1>0. /\ pc \in [Threads -> Sections] /\ mem \in [Pages -> Pcb \union {Freed}]
      /\ reg \in [Threads -> Regs] /\ children \in [Threads -> Seq(Pages)]
  BY Typed
<1>p. PICK p, c : p = reg[t].pcb /\ c = mem[p].pid
  OBVIOUS
<1>1. pc[t] = "reap" /\ OnList(t, p)
  BY <1>p DEF Reap, At, PcbInv, Working
<1>2. c \in Threads /\ p \in Pages
  BY <1>p, <1>1, ListedPid
<1>3. CASE ~ mem[p].exited
  <2>1. UNCHANGED << pc, mem, pcbOf, children, reg, ret >>
    BY <1>p, <1>3 DEF Reap
  <2> QED
    BY <2>1, Unseen DEF Life, Kids
<1>4. CASE mem[p].exited
  <2>1. /\ pc'[t] = "user" /\ \A u \in Threads : u # t => pc'[u] = pc[u]
        /\ \A u \in Threads : /\ reg'[u].tid = reg[u].tid /\ reg'[u].success = reg[u].success
                              /\ reg'[u].status = reg[u].status
        /\ \A u \in Threads : u # t => children'[u] = children[u]
        /\ \A q \in Pages : q # p => mem'[q] = mem[q]
        /\ ret' = << t >> \o << "wait", c, mem[p].exitcode >>
    <3>1. /\ children' = [children EXCEPT ![t] = RemoveFirst(@, p)]
          /\ mem' = [mem EXCEPT ![p] = Freed] /\ reg' = [reg EXCEPT ![t].pcb = Nothing]
          /\ pc' = [pc EXCEPT ![t] = "user"]
          /\ ret' = << t >> \o << "wait", c, mem[p].exitcode >>
      BY <1>p, <1>4 DEF Reap, Goto, Answer
    <3>2. \A u \in Threads : u # t => children'[u] = children[u]
      BY <1>0, <3>1
    <3>3. \A q \in Pages : q # p => mem'[q] = mem[q]
      BY <1>0, <3>1
    <3>4. \A u \in Threads : /\ reg'[u].tid = reg[u].tid /\ reg'[u].success = reg[u].success
                             /\ reg'[u].status = reg[u].status
      BY <1>0, <3>1 DEF Regs
    <3>5. pc'[t] = "user" /\ \A u \in Threads : u # t => pc'[u] = pc[u]
      BY <1>0, <3>1
    <3> QED
      BY <3>1, <3>2, <3>3, <3>4, <3>5
  <2>2. Life(c) = "ended" /\ mem[p].exitcode = reg[c].status /\ Life(t) = "live"
    BY <1>p, <1>1, <1>4, ChildLife, Lives
  <2>3. \A u \in Threads : Life(u)' = Life(u)
    BY <1>1, <2>1 DEF Life
  <2>4. c \in Kids(t)
    BY <1>p, <1>1, KidsAre
  <2>5. Kids(t)' = Kids(t) \ {c}
    <3>1. \A q : OnList(t, q)' <=> OnList(t, q) /\ q # p
      BY <1>p, <1>4, ReapList
    <3> QED
      BY <1>p, <1>1, <2>1, <3>1, OneKidLess
  <2>6. \A u \in Threads : u # t => Kids(u)' = Kids(u)
    <3> SUFFICES ASSUME NEW u \in Threads, u # t PROVE Kids(u)' = Kids(u)
      OBVIOUS
    <3>1. \A q : OnList(u, q)' <=> OnList(u, q)
      BY <2>1 DEF OnList
    <3>2. \A q : OnList(u, q) => q \in Pages /\ q # p
      BY <1>1, ListedPid DEF PcbInv, Listed
    <3> QED
      BY <2>1, <3>1, <3>2, SameKids
  <2>7. \A u \in Threads : Kids(u)' = IF u = t THEN Kids(t) \ {c} ELSE Kids(u)
    BY <2>5, <2>6
  <2>8. Contract!Reap(t, c)
    BY <1>2, <2>1, <2>2, <2>3, <2>4, <2>7 DEF Kids, Contract!Reap, Contract!Answer
  <2> QED
    BY <1>2, <2>8
<1> QED
  BY <1>3, <1>4

\* An exiting process lets go of a child, which may have exited or not.
LEMMA DropContract ==
  ASSUME PcbInv, NEW t \in Threads, ExitChild(t)
  PROVE  \E c \in Threads : Contract!Drop(t, c)
<1>0. /\ pc \in [Threads -> Sections] /\ mem \in [Pages -> Pcb \union {Freed}]
      /\ reg \in [Threads -> Regs] /\ children \in [Threads -> Seq(Pages)]
  BY Typed
<1>p. PICK p, c : p = Head(children[t]) /\ c = mem[p].pid
  OBVIOUS
<1>1. /\ p \in Pages /\ OnList(t, p)
      /\ \A q : OnList(t, q)' <=> OnList(t, q) /\ q # p
  BY <1>p, ChildList
<1>2. c \in Threads /\ c \in Kids(t)
  BY <1>p, <1>1, ListedPid, KidsAre
<1>3. /\ pc[t] = "kids" /\ children[t] # << >> /\ pc'[t] \in {"kids", "orphan"}
      /\ \A u \in Threads : u # t => pc'[u] = pc[u]
      /\ \A u \in Threads : /\ reg'[u].tid = reg[u].tid /\ reg'[u].success = reg[u].success
                            /\ reg'[u].status = reg[u].status
      /\ \A u \in Threads : u # t => children'[u] = children[u]
      /\ \A q \in Pages : q # p => mem'[q] = mem[q]
      /\ ret' = ret
  <2>1. /\ pc[t] = "kids" /\ children[t] # << >> /\ ret' = ret
        /\ children' = [children EXCEPT ![t] = Tail(@)]
        /\ mem' = mem \/ mem' = [mem EXCEPT ![p] = Freed]
        /\ pc' = pc \/ pc' = [pc EXCEPT ![t] = "orphan"]
        /\ reg' = reg \/ reg' = [reg EXCEPT ![t].pcb = p]
    BY <1>p DEF ExitChild, At, Goto
  <2>2. \A u \in Threads : u # t => children'[u] = children[u]
    BY <1>0, <2>1
  <2>3. \A q \in Pages : q # p => mem'[q] = mem[q]
    BY <1>0, <2>1
  <2>4. \A u \in Threads : /\ reg'[u].tid = reg[u].tid /\ reg'[u].success = reg[u].success
                           /\ reg'[u].status = reg[u].status
    <3>1. CASE reg' = reg
      BY <3>1
    <3>2. CASE reg' = [reg EXCEPT ![t].pcb = p]
      BY <1>0, <3>2 DEF Regs
    <3> QED
      BY <2>1, <3>1, <3>2
  <2>5. pc'[t] \in {"kids", "orphan"} /\ \A u \in Threads : u # t => pc'[u] = pc[u]
    BY <1>0, <2>1
  <2> QED
    BY <2>1, <2>2, <2>3, <2>4, <2>5
<1>4. Life(t) = "exiting" /\ \A u \in Threads : Life(u)' = Life(u)
  <2>1. Life(t) = "exiting"
    BY <1>3, Lives
  <2> QED
    BY <1>3, <2>1 DEF Life
<1>5. Kids(t)' = Kids(t) \ {c}
  BY <1>p, <1>1, <1>3, OneKidLess
<1>6. \A u \in Threads : u # t => Kids(u)' = Kids(u)
  <2> SUFFICES ASSUME NEW u \in Threads, u # t PROVE Kids(u)' = Kids(u)
    OBVIOUS
  <2>1. \A q : OnList(u, q)' <=> OnList(u, q)
    BY <1>3 DEF OnList
  <2>2. \A q : OnList(u, q) => q \in Pages /\ q # p
    BY <1>1, ListedPid DEF PcbInv, Listed
  <2> QED
    BY <1>3, <2>1, <2>2, SameKids
<1>7. \A u \in Threads : Kids(u)' = IF u = t THEN Kids(t) \ {c} ELSE Kids(u)
  BY <1>5, <1>6
<1>8. Contract!Drop(t, c)
  BY <1>2, <1>3, <1>4, <1>7 DEF Kids, Contract!Drop
<1> QED
  BY <1>2, <1>8

\* The children of a list that does not change, where no pid does.
LEMMA SameChildren ==
  ASSUME PcbInv, children' = children,
         \A q \in Pages : mem[q] # Freed => mem'[q].pid = mem[q].pid
  PROVE  \A u \in Threads : Kids(u)' = Kids(u)
<1> SUFFICES ASSUME NEW u \in Threads PROVE Kids(u)' = Kids(u)
  OBVIOUS
<1>1. \A q : OnList(u, q)' <=> OnList(u, q)
  BY DEF OnList
<1>2. \A q : OnList(u, q) => mem'[q].pid = mem[q].pid
  BY ListedPid DEF IsPcbOf
<1> QED
  BY <1>1, <1>2, SameKids

\* A process exits with a status.
LEMMA QuitContract ==
  ASSUME PcbInv, NEW t \in Threads, NEW k \in Codes \union {Fail}, Exit(t, k)
  PROVE  Contract!Quit(t, k)
<1>0. pc \in [Threads -> Sections] /\ reg \in [Threads -> Regs]
  BY Typed
<1>1. /\ pc[t] = "user" /\ pc'[t] = "kids" /\ children' = children /\ ret' = ret
      /\ reg'[t].status = k /\ \A u \in Threads : u # t => pc'[u] = pc[u] /\ reg'[u] = reg[u]
      /\ reg'[t].tid = reg[t].tid /\ reg'[t].success = reg[t].success
  BY <1>0 DEF Exit, MayCall, At, Goto, Regs
<1>2. \A q \in Pages : mem[q] # Freed => mem'[q].pid = mem[q].pid
  BY PidsKept
<1>3. \A u \in Threads : Kids(u)' = Kids(u)
  BY <1>1, <1>2, SameChildren
<1>4. Life(t) = "live" /\ reg[t].tid = Nothing /\ reg[t].success
  BY <1>1, Lives DEF PcbInv, Registers
<1>5. \A u \in Threads : Life(u)' = IF u = t THEN "exiting" ELSE Life(u)
  BY <1>1, <1>4 DEF Life
<1> QED
  BY <1>1, <1>3, <1>4, <1>5 DEF Kids, Contract!Quit, Contract!Becomes

\* The parent can see the exit of a process that has let go of its children.
LEMMA EndContract ==
  ASSUME PcbInv, NEW t \in Threads, ExitMark(t)
  PROVE  UNCHANGED Contract!vars \/ Contract!End(t)
<1>0. pc \in [Threads -> Sections]
  BY Typed
<1>1. /\ pc[t] = "kids" /\ children[t] = << >> /\ children' = children
      /\ reg' = reg /\ ret' = ret /\ pc'[t] \in {"kids", "mark"}
      /\ \A u \in Threads : u # t => pc'[u] = pc[u]
  BY <1>0 DEF ExitMark, At, Goto
<1>2. \A q \in Pages : mem[q] # Freed => mem'[q].pid = mem[q].pid
  BY PidsKept
<1>3. \A u \in Threads : Kids(u)' = Kids(u)
  BY <1>1, <1>2, SameChildren
<1>4. CASE pc'[t] = "kids" \/ ~ reg[t].success
  <2>1. \A u \in Threads : Life(u)' = Life(u)
    BY <1>1, <1>4 DEF Life
  <2> QED
    BY <1>1, <1>3, <2>1, Unseen
<1>5. CASE pc'[t] = "mark" /\ reg[t].success
  <2>1. Life(t) = "exiting" /\ \A u \in Threads : Life(u)' = IF u = t THEN "ended" ELSE Life(u)
    BY <1>1, <1>5 DEF Life
  <2>2. Kids(t) = {}
    BY <1>1 DEF Kids, ToSet
  <2> QED
    BY <1>1, <1>3, <2>1, <2>2 DEF Kids, Contract!End, Contract!Becomes
<1> QED
  BY <1>1, <1>4, <1>5

\* What else a thread does with pcbs, its parent's program and its own do not see.
LEMMA HiddenSteps ==
  ASSUME PcbInv, NEW t \in Threads,
         \/ WaitDown(t) \/ ExitOrphan(t) \/ ExitRead(t) \/ ExitUp(t) \/ ExitLast(t)
         \/ \E c \in Threads : Wait(t, c)
  PROVE  UNCHANGED Contract!vars
<1>0. pc \in [Threads -> Sections] /\ reg \in [Threads -> Regs]
  BY Typed
<1>1. children' = children /\ ret' = ret
  BY DEF WaitDown, ExitOrphan, ExitRead, ExitUp, ExitLast, Wait
<1>2. /\ \A u \in Threads : u # t => pc'[u] = pc[u]
      /\ \/ pc[t] \in {"user", "wait"} /\ pc'[t] \in {"wait", "reap"}
         \/ pc[t] = "orphan" /\ pc'[t] = "kids"
         \/ pc[t] \in Late /\ pc'[t] \in Late
  BY <1>0 DEF WaitDown, ExitOrphan, ExitRead, ExitUp, ExitLast, Wait, At, Goto, Late
<1>3. \A u \in Threads : /\ reg'[u].tid = reg[u].tid /\ reg'[u].success = reg[u].success
                         /\ reg'[u].status = reg[u].status
  <2>1. \/ reg' = reg
        \/ \E v : reg' = [reg EXCEPT ![t].orphan = v] \/ reg' = [reg EXCEPT ![t].pcb = v]
    BY DEF WaitDown, ExitOrphan, ExitRead, ExitUp, ExitLast, Wait
  <2> QED
    BY <1>0, <2>1 DEF Regs
<1>4. \A q \in Pages : mem[q] # Freed => mem'[q].pid = mem[q].pid
  BY PidsKept
<1>5. \A u \in Threads : Kids(u)' = Kids(u)
  BY <1>1, <1>4, SameChildren
<1>6. \A u \in Threads : Life(u)' = Life(u)
  BY <1>2, <1>3 DEF Life, Late
<1> QED
  BY <1>1, <1>3, <1>5, <1>6, Unseen

\* Every step is one of the contract's, or leaves what the contract speaks of.
LEMMA NextContract == PcbInv /\ [Next]_vars => [Contract!Next]_(Contract!vars)
<1> SUFFICES ASSUME PcbInv, [Next]_vars PROVE [Contract!Next]_(Contract!vars)
  OBVIOUS
<1>1. CASE UNCHANGED vars
  <2>1. UNCHANGED << pc, mem, children, reg, ret >>
    BY <1>1 DEF vars
  <2>2. UNCHANGED Contract!vars
    BY <2>1, Unseen DEF Life, Kids
  <2> QED
    BY <2>2
<1>2. CASE Next
  <2>1. PICK t \in Threads :
          \/ KernelStep(t)
          \/ ExecFail(t)
          \/ \E c \in Threads, p \in Pages : Exec(t, c, p)
          \/ \E c \in Threads : WaitNone(t, c) \/ Wait(t, c)
          \/ \E k \in Codes \union {Fail} : Exit(t, k)
    BY <1>2 DEF Next
  <2>2. CASE \E success \in BOOLEAN : Start(t, success)
    <3>1. Contract!Load(t)
      BY <2>2, LoadContract
    <3> QED
      BY <3>1 DEF Contract!Next
  <2>3. CASE ExecDone(t)
    <3>1. Contract!Adopt(t)
      BY <2>3, AdoptContract
    <3> QED
      BY <3>1 DEF Contract!Next
  <2>4. CASE Reap(t)
    <3>1. UNCHANGED Contract!vars \/ \E c \in Threads : Contract!Reap(t, c)
      BY <2>4, ReapContract
    <3> QED
      BY <3>1 DEF Contract!Next
  <2>5. CASE ExitChild(t)
    <3>1. \E c \in Threads : Contract!Drop(t, c)
      BY <2>5, DropContract
    <3> QED
      BY <3>1 DEF Contract!Next
  <2>6. CASE ExitMark(t)
    <3>1. UNCHANGED Contract!vars \/ Contract!End(t)
      BY <2>6, EndContract
    <3> QED
      BY <3>1 DEF Contract!Next
  <2>7. CASE \/ WaitDown(t) \/ ExitOrphan(t) \/ ExitRead(t) \/ ExitUp(t) \/ ExitLast(t)
             \/ \E c \in Threads : Wait(t, c)
    <3>1. UNCHANGED Contract!vars
      BY <2>7, HiddenSteps
    <3> QED
      BY <3>1
  <2>8. CASE ExecFail(t) \/ \E c \in Threads : WaitNone(t, c)
    <3>1. Contract!Next
      BY <2>8, RefusedContract
    <3> QED
      BY <3>1
  <2>9. CASE \E c \in Threads, p \in Pages : Exec(t, c, p)
    <3>1. \E c \in Threads : Contract!Spawn(t, c)
      BY <2>9, SpawnContract
    <3> QED
      BY <3>1 DEF Contract!Next
  <2>10. CASE \E k \in Codes \union {Fail} : Exit(t, k)
    <3>1. \E k \in Codes \union {Fail} : Contract!Quit(t, k)
      BY <2>10, QuitContract
    <3> QED
      BY <3>1 DEF Contract!Next
  <2> QED
    BY <2>1, <2>2, <2>3, <2>4, <2>5, <2>6, <2>7, <2>8, <2>9, <2>10 DEF KernelStep
<1> QED
  BY <1>1, <1>2

\* exec, wait and exit do what their comments promise, however the steps of parent
\* and child interleave: exec returns when the child has loaded or failed to, and
\* wait returns the status of each child once, after the child has ended.
THEOREM ContractKept == Spec => ContractSpec
BY PcbsHold, InitContract, NextContract, PTL DEF Spec, ContractSpec, Contract!Spec
===============================================================================
