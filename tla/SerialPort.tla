------------------------------ MODULE SerialPort ------------------------------
(***************************************************************************)
(* The two interrupt queues of the kernel (devices/intq.c): the keys for   *)
(* the programs (devices/input.c) and the bytes for the serial port        *)
(* (devices/serial.c).  On one side are the processes that read the        *)
(* standard input or print, on the other the interrupt handlers.           *)
(*                                                                         *)
(* A thread with interrupts off does everything up to where it blocks in   *)
(* one step.  Locks are what ThreadSync shows them to be.  Left out: the   *)
(* codes of the keyboard, polling before serial_init_queue, the screen,    *)
(* priorities (user processes all run at PRI_DEFAULT), and the lock that   *)
(* sys_write takes before it prints, filesys_lock: with it a program that  *)
(* prints may first wait for one that reads keys.                          *)
(***************************************************************************)
EXTENDS Naturals, Sequences

CONSTANTS
  Procs,     \* processes
  Keys,      \* the bytes that come in
  Text,      \* the bytes that go out
  BUFSIZE,   \* INTQ_BUFSIZE, of which one stays free
  MaxOff,    \* bound on what is printed with interrupts off
  None       \* no process, no byte

ASSUME BufsizeAssumption == BUFSIZE \in Nat /\ BUFSIZE > 1
ASSUME MaxOffAssumption == MaxOff \in Nat
ASSUME NoneAssumption == None \notin Procs \union Keys \union Text

VARIABLES
  place,         \* place[p]: where process p is
  filesys_lock,  \* held while a program reads its standard input
  console_lock,  \* held while a thread prints
  input,         \* the struct intq of input.c
  txq,           \* the struct intq of serial.c
  ier,           \* the interrupt enable register: those of IER_XMIT, IER_RECV set
  rbr,           \* the port has a byte that has not been read
  thr,           \* the byte the port has to send
  key,           \* the byte a program has read
  off,           \* how often something was printed with interrupts off
  panic          \* an assertion has failed

serial_vars == << place, filesys_lock, console_lock, input, txq, ier, rbr, thr, key, off, panic >>

-------------------------------------------------------------------------------
\* struct intq

Empty(q) == q.head = q.tail

next(pos) == (pos + 1) % BUFSIZE

Full(q) == next(q.head) = q.tail

\* The bytes of q from tail to head.
Contents(q) ==
  [i \in 1 .. (q.head + BUFSIZE - q.tail) % BUFSIZE |->
     q.buf[(q.tail + i - 1) % BUFSIZE]]

\* q after the byte b is put, and after one is taken; who waited for that is
\* on neither pointer any more.
WithPut(q, b) == [q EXCEPT !.buf[q.head] = b, !.head = next(@), !.not_empty = None]

\* Mutant of WithGet: the waiting thread stays on the pointer.
WithGetStays(q) == [q EXCEPT !.buf[q.tail] = None, !.tail = next(@)]

WithGet(q) == [q EXCEPT !.buf[q.tail] = None, !.tail = next(@), !.not_full = None]

\* signal: the thread w that waits for a queue, if any, is unblocked.
Woken(w) ==
  [p \in Procs |-> IF p # w THEN place[p]
                   ELSE IF place[p] = "getc_asleep" THEN "getc_awake" ELSE "putc_awake"]

\* write_ier, from the queues as they are now.
Ier(in, tx) == (IF Empty(tx) THEN {} ELSE {"xmit"})
               \union (IF Full(in) THEN {} ELSE {"recv"})

EmptyQueue == [buf |-> [i \in 0 .. BUFSIZE - 1 |-> None], head |-> 0, tail |-> 0,
               lock |-> None, not_full |-> None, not_empty |-> None]

SerialInit ==
  /\ place = [p \in Procs |-> "user"]
  /\ filesys_lock = None /\ console_lock = None
  /\ input = EmptyQueue /\ txq = EmptyQueue
  /\ ier = {"recv"}
  /\ rbr = FALSE /\ thr = None /\ key = None
  /\ off = 0
  /\ panic = FALSE

Goto(p, l) == place' = [place EXCEPT ![p] = l]
At(p, l) == ~panic /\ place[p] = l

-------------------------------------------------------------------------------
\* A program reads its standard input.

Read(p) ==
  /\ At(p, "user") /\ Goto(p, "read")
  /\ UNCHANGED << filesys_lock, console_lock, input, txq, ier, rbr, thr, key, off, panic >>

\* Mutant of ReadLocked: sys_read does not take the lock.
ReadUnlocked(p) ==
  /\ At(p, "read") /\ Goto(p, "getc")
  /\ UNCHANGED << filesys_lock, console_lock, input, txq, ier, rbr, thr, key, off, panic >>

\* sys_read keeps filesys_lock until the keys have come.
ReadLocked(p) ==
  /\ At(p, "read") /\ filesys_lock = None
  /\ filesys_lock' = p
  /\ key' = None
  /\ Goto(p, "getc")
  /\ UNCHANGED << console_lock, input, txq, ier, rbr, thr, off, panic >>

\* lock_acquire and wait of intq.c: p goes to sleep.  Who finds the lock taken
\* waits, and is then stopped by an assertion if the queue has changed: the
\* model stops it at once.
WaitInput(p) ==
  /\ input' = [input EXCEPT !.lock = p, !.not_empty = p]
  /\ Goto(p, "getc_asleep")
  /\ panic' = (panic \/ input.lock # None)

WaitTxq(p) ==
  /\ txq' = [txq EXCEPT !.lock = p, !.not_full = p]
  /\ Goto(p, "putc_asleep")
  /\ panic' = (panic \/ txq.lock # None)

\* Mutant of GetByte: input_getc does not call serial_notify.
GetByteSilent(p) ==
  /\ input' = WithGet(input) /\ key' = input.buf[input.tail]
  /\ place' = [Woken(input.not_full) EXCEPT ![p] = "user"]
  /\ filesys_lock' = None
  /\ UNCHANGED ier

\* intq_getc takes a key; input_getc tells the serial port there is room.
GetByte(p) ==
  /\ input' = WithGet(input) /\ key' = input.buf[input.tail]
  /\ place' = [Woken(input.not_full) EXCEPT ![p] = "user"]
  /\ filesys_lock' = None
  /\ ier' = Ier(input', txq)

\* One turn of the loop of intq_getc, as far as it goes with interrupts off.
Getc(p) ==
  /\ At(p, "getc")
  /\ \/ ~Empty(input) /\ GetByte(p) /\ UNCHANGED panic
     \/ Empty(input) /\ WaitInput(p) /\ UNCHANGED << filesys_lock, ier, key >>
  /\ UNCHANGED << console_lock, txq, rbr, thr, off >>

\* p runs again; releasing the lock may let others run before it tests again.
GetcAwake(p) ==
  /\ At(p, "getc_awake")
  /\ input' = [input EXCEPT !.lock = None]
  /\ Goto(p, "getc")
  /\ UNCHANGED << filesys_lock, console_lock, txq, ier, rbr, thr, key, off, panic >>

-------------------------------------------------------------------------------
\* A thread prints a byte.

putbuf(p) ==
  /\ At(p, "user") /\ Goto(p, "print")
  /\ UNCHANGED << filesys_lock, console_lock, input, txq, ier, rbr, thr, key, off, panic >>

\* acquire_console.
PrintLocked(p) ==
  /\ At(p, "print") /\ console_lock = None
  /\ console_lock' = p
  /\ Goto(p, "putc")
  /\ UNCHANGED << filesys_lock, input, txq, ier, rbr, thr, key, off, panic >>

\* Mutant of PutByte: the transmit interrupt is not enabled.
PutByteSilent(p, b) ==
  /\ txq' = WithPut(txq, b)
  /\ place' = [Woken(txq.not_empty) EXCEPT ![p] = "user"]
  /\ console_lock' = None
  /\ UNCHANGED ier

\* intq_putc adds a byte, and serial_putc updates the register.
PutByte(p, b) ==
  /\ txq' = WithPut(txq, b)
  /\ place' = [Woken(txq.not_empty) EXCEPT ![p] = "user"]
  /\ console_lock' = None
  /\ ier' = Ier(input, txq')

\* One turn of the loop of intq_putc, called with interrupts on.
Putc(p) ==
  /\ At(p, "putc")
  /\ \/ ~Full(txq) /\ (\E b \in Text : PutByte(p, b)) /\ UNCHANGED panic
     \/ Full(txq) /\ WaitTxq(p) /\ UNCHANGED << console_lock, ier >>
  /\ UNCHANGED << filesys_lock, input, rbr, thr, key, off >>

PutcAwake(p) ==
  /\ At(p, "putc_awake")
  /\ txq' = [txq EXCEPT !.lock = None]
  /\ Goto(p, "putc")
  /\ UNCHANGED << filesys_lock, console_lock, input, ier, rbr, thr, key, off, panic >>

-------------------------------------------------------------------------------
\* Interrupts, and what runs with interrupts off.

\* Mutant of PrintOff: when the queue is full it is the new byte that is sent.
PrintOffFirst(b) ==
  /\ ~panic /\ off < MaxOff /\ off' = off + 1
  /\ txq' = IF Full(txq) THEN txq ELSE WithPut(txq, b)
  /\ thr' = IF Full(txq) THEN b ELSE thr
  /\ ier' = Ier(input, txq')
  /\ UNCHANGED << place, filesys_lock, console_lock, input, rbr, key, panic >>

\* serial_putc from an interrupt handler, without the console lock: when the
\* queue is full the oldest byte is sent by polling.
PrintOff(b) ==
  /\ ~panic /\ off < MaxOff /\ off' = off + 1
  /\ LET q == IF Full(txq) THEN WithGet(txq) ELSE txq
     IN  txq' = WithPut(q, b)
  /\ place' = IF Full(txq) THEN Woken(txq.not_full) ELSE Woken(txq.not_empty)
  /\ thr' = IF Full(txq) THEN txq.buf[txq.tail] ELSE thr
  /\ ier' = Ier(input, txq')
  /\ UNCHANGED << filesys_lock, console_lock, input, rbr, key, panic >>

\* serial_flush.  The register stays as it is.
serial_flush ==
  /\ ~panic /\ off < MaxOff /\ off' = off + 1
  /\ txq' = [EmptyQueue EXCEPT !.head = txq.head, !.tail = txq.head,
                               !.lock = txq.lock, !.not_empty = txq.not_empty]
  /\ place' = Woken(txq.not_full)
  /\ thr' = IF Empty(txq) THEN thr ELSE txq.buf[(txq.head + BUFSIZE - 1) % BUFSIZE]
  /\ UNCHANGED << filesys_lock, console_lock, input, ier, rbr, key, panic >>

\* keyboard_interrupt, for a key that stands for a byte: it is dropped when
\* there is no room.
keyboard_interrupt(b) ==
  /\ ~panic
  /\ IF Full(input) THEN UNCHANGED << place, input, ier >>
     ELSE /\ input' = WithPut(input, b)
          /\ place' = Woken(input.not_empty)
          /\ ier' = Ier(input', txq)
  /\ UNCHANGED << filesys_lock, console_lock, txq, rbr, thr, key, off, panic >>

\* serial_interrupt, which the port raises when it has a byte or has room for
\* one and the register says so.
serial_interrupt ==
  /\ ~panic
  /\ ("recv" \in ier /\ rbr) \/ ("xmit" \in ier /\ thr = None)
  /\ LET gets == rbr /\ ~Full(input)
         sends == thr = None /\ ~Empty(txq)
         places == [p \in Procs |-> IF gets /\ p = input.not_empty THEN Woken(p)[p]
                                    ELSE IF sends /\ p = txq.not_full THEN Woken(p)[p]
                                    ELSE place[p]]
     IN  /\ \E b \in Keys : input' = IF gets THEN WithPut(input, b) ELSE input
         /\ txq' = IF sends THEN WithGet(txq) ELSE txq
         /\ place' = places
         /\ rbr' = (rbr /\ ~gets)
         /\ thr' = IF sends THEN txq.buf[txq.tail] ELSE thr
  /\ ier' = Ier(input', txq')
  /\ UNCHANGED << filesys_lock, console_lock, key, off, panic >>

\* The port receives a byte, and finishes sending one.
Receives ==
  /\ ~panic /\ ~rbr /\ rbr' = TRUE
  /\ UNCHANGED << place, filesys_lock, console_lock, input, txq, ier, thr, key, off, panic >>
Sends ==
  /\ ~panic /\ thr # None /\ thr' = None
  /\ UNCHANGED << place, filesys_lock, console_lock, input, txq, ier, rbr, key, off, panic >>

Step(p) ==
  \/ ReadLocked(p) \/ Getc(p) \/ GetcAwake(p)
  \/ PrintLocked(p) \/ Putc(p) \/ PutcAwake(p)

SerialNext ==
  \/ \E p \in Procs : Read(p) \/ putbuf(p) \/ Step(p)
  \/ (\E b \in Text : PrintOff(b)) \/ (\E b \in Keys : keyboard_interrupt(b))
  \/ serial_flush \/ serial_interrupt \/ Receives \/ Sends

\* A runnable thread is scheduled again, the port sends what it was given, and
\* an interrupt that is pending is delivered.
Fairness ==
  /\ \A p \in Procs : WF_serial_vars(Step(p))
  /\ WF_serial_vars(serial_interrupt) /\ WF_serial_vars(Sends)

SerialSpec == SerialInit /\ [][SerialNext]_serial_vars /\ Fairness

-------------------------------------------------------------------------------
\* Properties

Labels == {"user", "read", "getc", "getc_asleep", "getc_awake",
           "print", "putc", "putc_asleep", "putc_awake"}
Queues(B) ==
          [buf : [0 .. BUFSIZE - 1 -> B \union {None}],
           head : 0 .. BUFSIZE - 1, tail : 0 .. BUFSIZE - 1,
           lock : Procs \union {None},
           not_full : Procs \union {None}, not_empty : Procs \union {None}]

\* The type of every variable.
SerialTypeOK ==
  /\ place \in [Procs -> Labels]
  /\ filesys_lock \in Procs \union {None} /\ console_lock \in Procs \union {None}
  /\ input \in Queues(Keys) /\ txq \in Queues(Text)
  /\ ier \subseteq {"recv", "xmit"}
  /\ rbr \in BOOLEAN /\ thr \in Text \union {None} /\ key \in Keys \union {None}
  /\ off \in 0 .. MaxOff /\ panic \in BOOLEAN

\* Nobody waits for the lock of a queue: after that the assertion at intq.c:91
\* may find the queue changed.  filesys_lock and console_lock see to it.
NeverPanics == ~panic

\* The thread that a queue will wake is the one that sleeps on it, and there is
\* nothing for it yet: no wakeup is lost between the test and the sleep, and
\* none goes to a thread that is not blocked (thread.c:302).
SleepersKnown ==
  \A p \in Procs :
    /\ place[p] = "getc_asleep" => Empty(input)
    /\ place[p] = "putc_asleep" => Full(txq)
    /\ input.not_empty = p <=> place[p] = "getc_asleep"
    /\ txq.not_full = p <=> place[p] = "putc_asleep"

\* Each queue is one of ByteQueue: no byte is lost, repeated or overtaken,
\* whatever interrupt comes between.
In == INSTANCE ByteQueue WITH Byte <- Keys, Capacity <- BUFSIZE - 1, queue <- Contents(input),
                           given <- key
Out == INSTANCE ByteQueue WITH Byte <- Text, Capacity <- BUFSIZE - 1, queue <- Contents(txq),
                            given <- thr
Fifos == In!Spec /\ Out!Spec

\* A thread that prints gets its byte into the queue, since the port is told to
\* ask for bytes whenever there are any (serial.c:126, 227).
PrinterServed ==
  \A p \in Procs : place[p] \in {"putc", "putc_asleep", "putc_awake"}
                   ~> place[p] = "user" \/ panic

\* A reader asleep while the port has a byte is given it, since the port is told
\* to ask for room whenever there is some (input.c:38).
ReaderServed ==
  \A p \in Procs : place[p] = "getc_asleep" /\ rbr ~> place[p] = "user" \/ panic
===============================================================================
