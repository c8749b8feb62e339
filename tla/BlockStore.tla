------------------------------ MODULE BlockStore ------------------------------
(***************************************************************************)
(* What the file system layers above filesys/cache.c may rely on: a store  *)
(* of sectors whose reads and writes take effect atomically between their  *)
(* call and their return, and which may lose, at a reset, whatever has not *)
(* yet reached the device.  Nothing here knows of slots, of the clock hand *)
(* or of the lock.                                                         *)
(***************************************************************************)

CONSTANTS
  Threads,   \* kernel threads that use the store
  Sectors,   \* sectors of fs_device
  Data       \* possible contents of a sector

VARIABLES
  view,      \* view[s]: what a read of sector s returns
  durable,   \* durable[s]: what is on the device
  pend       \* pend[t]: the call thread t is in, or the answer it last got

vars == << view, durable, pend >>

Done == [op |-> "done"]
Closed == [op |-> "closed"]
Got(d) == [op |-> "got", data |-> d]

Requests ==
  [op : {"read"}, sector : Sectors]
    \union [op : {"write"}, sector : Sectors, data : Data]
    \union {[op |-> "close"]}

Init ==
  /\ durable \in [Sectors -> Data]
  /\ view = durable
  /\ pend = [t \in Threads |-> Done]

\* A thread calls an operation of the store.
Call(t, r) ==
  /\ pend[t].op \in {"done", "got"}
  /\ pend' = [pend EXCEPT ![t] = r]
  /\ UNCHANGED << view, durable >>

\* A read returns the current contents of its sector.
Read(t) ==
  /\ pend[t].op = "read"
  /\ pend' = [pend EXCEPT ![t] = Got(view[pend[t].sector])]
  /\ UNCHANGED << view, durable >>

\* A write replaces the current contents of its sector.
Write(t) ==
  /\ pend[t].op = "write"
  /\ view' = [view EXCEPT ![pend[t].sector] = pend[t].data]
  /\ pend' = [pend EXCEPT ![t] = Done]
  /\ UNCHANGED durable

\* At any time the current contents of a sector may reach the device.
Persist(s) ==
  /\ durable' = [durable EXCEPT ![s] = view[s]]
  /\ UNCHANGED << view, pend >>

\* A close returns only when every sector's contents are on the device; the
\* thread that closed the store makes no further call.
Close(t) ==
  /\ pend[t].op = "close"
  /\ durable = view
  /\ pend' = [pend EXCEPT ![t] = Closed]
  /\ UNCHANGED << view, durable >>

\* The machine is reset: every call is forgotten, the device keeps its
\* contents.
Reset ==
  /\ view' = durable
  /\ pend' = [t \in Threads |-> Done]
  /\ UNCHANGED durable

Next ==
  \/ \E t \in Threads :
       \/ \E r \in Requests : Call(t, r)
       \/ Read(t) \/ Write(t) \/ Close(t)
  \/ \E s \in Sectors : Persist(s)
  \/ Reset

Spec == Init /\ [][Next]_vars
===============================================================================
