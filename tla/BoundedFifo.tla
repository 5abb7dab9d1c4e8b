------------------------------ MODULE BoundedFifo ------------------------------
(***************************************************************************)
(* What a byte ring promises to its one writer and its one reader          *)
(* (firmware/src/engine/ringbuf.h): a queue of at most Capacity bytes.  A  *)
(* byte offered while there is room is taken in, in order; one offered to  *)
(* a full queue is refused and counted; the reader gets the bytes that     *)
(* were taken in, in order, each one once.  Nothing here speaks of heads,  *)
(* tails, masks or preemption: ByteRing implements this.                   *)
(***************************************************************************)
EXTENDS Naturals, Sequences

CONSTANTS
  Byte,       \* the values a byte can have
  None,       \* no byte is on offer
  Capacity,   \* bytes the queue holds at most
  Words       \* number of values of a machine word: the counter wraps there

VARIABLES
  queue,      \* the bytes taken in and not yet handed out
  offered,    \* the byte the writer is handing in, or None
  taken,      \* the byte the reader got last
  dropped     \* bytes refused since the counter was last cleared

vars == <<queue, offered, taken, dropped>>

Init ==
  /\ queue = <<>>
  /\ offered = None
  /\ taken \in Byte
  /\ dropped = 0

\* The writer arrives with a byte and there is room for it.
Offer(b) ==
  /\ offered = None
  /\ Len(queue) < Capacity
  /\ offered' = b
  /\ UNCHANGED <<queue, taken, dropped>>

\* The writer arrives with a byte and the queue is full.
Refuse ==
  /\ offered = None
  /\ Len(queue) = Capacity
  /\ dropped' = IF dropped = Words - 1 THEN 0 ELSE dropped + 1
  /\ UNCHANGED <<queue, offered, taken>>

\* The byte on offer becomes visible to the reader.
Accept ==
  /\ offered # None
  /\ Len(queue) < Capacity
  /\ queue' = Append(queue, offered)
  /\ offered' = None
  /\ UNCHANGED <<taken, dropped>>

\* The reader gets the oldest byte.
Take ==
  /\ queue # <<>>
  /\ taken' = Head(queue)
  /\ queue' = Tail(queue)
  /\ UNCHANGED <<offered, dropped>>

\* Somebody starts counting afresh.
Clear ==
  /\ dropped' = 0
  /\ UNCHANGED <<queue, offered, taken>>

Next ==
  \/ \E b \in Byte : Offer(b)
  \/ Refuse
  \/ Accept
  \/ Take
  \/ Clear

Spec == Init /\ [][Next]_vars
================================================================================
