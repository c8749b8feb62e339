------------------------------ MODULE ByteQueue ------------------------------
(***************************************************************************)
(* What devices/intq.h promises of an interrupt queue: "a circular buffer  *)
(* shared between kernel threads and external interrupt handlers" that     *)
(* neither loses, repeats nor reorders a byte.                             *)
(***************************************************************************)
EXTENDS Naturals, Sequences

CONSTANTS
  Byte,      \* the bytes
  Capacity,  \* how many of them the queue holds
  None       \* no byte

VARIABLES
  queue,     \* the bytes put and not taken yet, oldest first
  given      \* the byte taken last, until whoever took it is done with it

Init == queue = << >> /\ given = None

Put(b) == Len(queue) < Capacity /\ queue' = Append(queue, b) /\ UNCHANGED given

Get == queue # << >> /\ queue' = Tail(queue) /\ given' = Head(queue)

Done == given' = None /\ UNCHANGED queue

\* Room is made for a byte by taking another, with interrupts off throughout.
Exchange(b) ==
  queue # << >> /\ queue' = Append(Tail(queue), b) /\ given' = Head(queue)

\* Everything is taken out, with interrupts off throughout.
Flush == queue # << >> /\ queue' = << >> /\ given' = queue[Len(queue)]

Next == Get \/ Done \/ Flush \/ \E b \in Byte : Put(b) \/ Exchange(b)

Spec == Init /\ [][Next]_<< queue, given >>
===============================================================================
