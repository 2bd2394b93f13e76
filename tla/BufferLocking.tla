---------------------------- MODULE BufferLocking ----------------------------
(***************************************************************************)
(* What CpuConsumer promises its clients, without entries, ids or memory:  *)
(* lockNextBuffer gives the caller the oldest queued buffer as long as     *)
(* fewer than MaxLockedBuffers are locked, and unlockBuffer returns to the *)
(* BufferQueue exactly the buffer the caller names.  A lock may fail after *)
(* taking the buffer off the queue; that buffer is then kept by the        *)
(* consumer (lost) and never reaches a client.                             *)
(***************************************************************************)
EXTENDS Integers, Sequences, FiniteSets

CONSTANTS MaxLockedBuffers, Clients, GBufs

VARIABLES
  queue,   \* buffers queued by the producer, oldest first
  locked,  \* locked[c]: the buffers client c holds locked
  lost     \* buffers a failed lock took off the queue

vars == <<queue, locked, lost>>

AllLocked == UNION {locked[c] : c \in Clients}
QueuedSet == {queue[i] : i \in 1 .. Len(queue)}
Free == GBufs \ (QueuedSet \cup AllLocked \cup lost)

Init ==
  /\ queue = <<>>
  /\ locked = [c \in Clients |-> {}]
  /\ lost = {}

Produce(b) ==
  /\ b \in Free
  /\ queue' = Append(queue, b)
  /\ UNCHANGED <<locked, lost>>

Lock(c) ==
  /\ queue # <<>>
  /\ Cardinality(AllLocked) < MaxLockedBuffers
  /\ locked' = [locked EXCEPT ![c] = @ \cup {Head(queue)}]
  /\ queue' = Tail(queue)
  /\ UNCHANGED lost

LockFails(c) ==
  /\ queue # <<>>
  /\ Cardinality(AllLocked) < MaxLockedBuffers
  /\ lost' = lost \cup {Head(queue)}
  /\ queue' = Tail(queue)
  /\ UNCHANGED locked

Unlock(c, b) ==
  /\ b \in locked[c]
  /\ locked' = [locked EXCEPT ![c] = @ \ {b}]
  /\ UNCHANGED <<queue, lost>>

Next ==
  \/ \E b \in GBufs : Produce(b)
  \/ \E c \in Clients : Lock(c) \/ LockFails(c)
  \/ \E c \in Clients, b \in GBufs : Unlock(c, b)

Spec == Init /\ [][Next]_vars
=============================================================================
