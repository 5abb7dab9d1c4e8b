------------------------------- MODULE ByteRing --------------------------------
(***************************************************************************)
(* The single-producer, single-consumer byte ring of                       *)
(* firmware/src/engine/ringbuf.h, one access to a shared word per step.    *)
(*                                                                         *)
(* Four parties touch a ring.  The producer runs rb_push, the consumer     *)
(* rb_pop; one of the two is an interrupt that preempts the other.  The    *)
(* telemetry task, which is neither, calls rb_count (engine_get_stats) and *)
(* rb_clear_peak (engine_reset_window).  The sweep task clears the         *)
(* counters with interrupts off (engine_reset_counters).  Rank says who    *)
(* preempts whom: a party runs only while no party of higher rank is in    *)
(* the middle of an operation, and with all ranks equal everything         *)
(* interleaves.                                                            *)
(*                                                                         *)
(* head and tail are machine words that run freely, wrap at Words and are  *)
(* masked only to index the storage.                                       *)
(***************************************************************************)
EXTENDS Integers, Sequences

CONSTANTS
  Byte,       \* the values a byte can have
  None,       \* not a byte
  Size,       \* bytes of storage
  Laps,       \* times the storage fits in the range of a machine word
  Roles,      \* the parties this ring has
  Rank        \* preemption priority of each party

AllRoles == {"producer", "consumer", "telemetry", "sweep"}

\* engine_init passes a power of two, so that Size divides 2^32.
ASSUME SizeAssumption ==
  /\ Size \in Nat \ {0}
  /\ Laps \in Nat \ {0, 1}

\* Values of a machine word, 2^32 in the code: indices and counters wrap here.
Words == Size * Laps

ASSUME ByteAssumption == Byte # {} /\ None \notin Byte

ASSUME RoleAssumption == Roles \subseteq AllRoles /\ Rank \in [AllRoles -> Int]

VARIABLES
  buf,        \* the storage
  head,       \* next slot to write; stored by the producer only
  tail,       \* next slot to read; stored by the consumer only
  peak,       \* high water mark
  overflow,   \* bytes dropped
  push,       \* rb_push in progress: where it is, its byte and its count
  pop,        \* rb_pop in progress: where it is and the byte it loaded
  out,        \* the byte the last rb_pop handed to its caller
  tele,       \* rb_count of the telemetry task in progress
  cleared     \* history: another task than the producer has stored to peak

vars == <<buf, head, tail, peak, overflow, push, pop, out, tele, cleared>>

(***************************************************************************)
(* Arithmetic on machine words.                                            *)
(***************************************************************************)
Word == 0 .. Words - 1

\* Mutant: an index that never wraps.
IncNoWrap(w) == w + 1

Inc(w) == IF w = Words - 1 THEN 0 ELSE w + 1

\* Mutant: a difference taken in a wider, signed type.
MinusSigned(x, y) == x - y

Minus(x, y) == IF x >= y THEN x - y ELSE x - y + Words

Plus(w, n) == IF w + n < Words THEN w + n ELSE w + n - Words

Slot(w) == w % Size

\* rb_count, when nothing moves between its two loads.
Count == Minus(head, tail)

(***************************************************************************)
(* Preemption.                                                             *)
(***************************************************************************)
InOperation(r) ==
  CASE r = "producer"  -> push.pc # "idle"
    [] r = "consumer"  -> pop.pc # "idle"
    [] r = "telemetry" -> tele.pc # "idle"
    [] r = "sweep"     -> FALSE

Runs(r) ==
  /\ r \in Roles
  /\ \A q \in Roles : Rank[q] > Rank[r] => ~InOperation(q)

(***************************************************************************)
(* Types.                                                                  *)
(***************************************************************************)
Push == [pc : {"idle", "full", "store", "publish", "mark"},
         byte : Byte, count : Word]
Pop == [pc : {"idle", "load", "advance"}, byte : Byte]
Tele == [pc : {"idle", "head", "tail", "counted"}, word : Word]

\* Every variable has its type.
TypeOK ==
  /\ buf \in [0 .. Size - 1 -> Byte]
  /\ head \in Word
  /\ tail \in Word
  /\ peak \in Word
  /\ overflow \in Word
  /\ push \in Push
  /\ pop \in Pop
  /\ out \in Byte
  /\ tele \in Tele
  /\ cleared \in BOOLEAN

(***************************************************************************)
(* rb_init zeroes the indices and the counters.  The storage is static     *)
(* memory (zero) at boot; it starts with any bytes here.                   *)
(***************************************************************************)
Init ==
  /\ buf \in [0 .. Size - 1 -> Byte]
  /\ head = 0
  /\ tail = 0
  /\ peak = 0
  /\ overflow = 0
  /\ out \in Byte
  /\ push = [pc |-> "idle", byte |-> out, count |-> 0]
  /\ pop = [pc |-> "idle", byte |-> out]
  /\ tele = [pc |-> "idle", word |-> 0]
  /\ cleared = FALSE

(***************************************************************************)
(* rb_push.  The local copy of head is not modelled: the producer is the   *)
(* only one to store head, so the copy stays equal to it.                  *)
(***************************************************************************)

\* Mutant: a full ring that is noticed one byte late.
IsFullLate(count) == count > Size

\* count > mask, with mask = size - 1: count == size means full.
IsFull(count) == count > Size - 1

\* Load tail, compute the count and decide whether there is room.
PushBegin(b) ==
  /\ Runs("producer")
  /\ push.pc = "idle"
  /\ push' = [pc |-> IF IsFull(Count) THEN "full" ELSE "store",
              byte |-> b, count |-> Count]
  /\ UNCHANGED <<buf, head, tail, peak, overflow, pop, out, tele, cleared>>

\* overflow++ and return false.  One step: the only other party to store
\* overflow does so with interrupts off.
PushFull ==
  /\ Runs("producer")
  /\ push.pc = "full"
  /\ overflow' = Inc(overflow)
  /\ push' = [push EXCEPT !.pc = "idle"]
  /\ UNCHANGED <<buf, head, tail, peak, pop, out, tele, cleared>>

\* The byte lands in the storage...
PushStore ==
  /\ Runs("producer")
  /\ push.pc = "store"
  /\ buf' = [buf EXCEPT ![Slot(head)] = push.byte]
  /\ push' = [push EXCEPT !.pc = "publish"]
  /\ UNCHANGED <<head, tail, peak, overflow, pop, out, tele, cleared>>

\* ... before it is visible: RB_BARRIER, then the store to head.
PushPublish ==
  /\ Runs("producer")
  /\ push.pc = "publish"
  /\ head' = Inc(head)
  /\ push' = [push EXCEPT !.pc = "mark"]
  /\ UNCHANGED <<buf, tail, peak, overflow, pop, out, tele, cleared>>

\* Mutant: the mark does not count the byte just written.
MarkedLow(count) == IF count > peak THEN count ELSE peak

Marked(count) == IF count + 1 > peak THEN count + 1 ELSE peak

\* Raise the high water mark, from the count taken at the start.
PushMark ==
  /\ Runs("producer")
  /\ push.pc = "mark"
  /\ peak' = Marked(push.count)
  /\ push' = [push EXCEPT !.pc = "idle"]
  /\ UNCHANGED <<buf, head, tail, overflow, pop, out, tele, cleared>>

(***************************************************************************)
(* rb_pop.  When the ring looks empty it returns false and changes         *)
(* nothing, which is no step here.                                         *)
(***************************************************************************)
PopBegin ==
  /\ Runs("consumer")
  /\ pop.pc = "idle"
  /\ head # tail
  /\ pop' = [pop EXCEPT !.pc = "load"]
  /\ UNCHANGED <<buf, head, tail, peak, overflow, push, out, tele, cleared>>

PopLoad ==
  /\ Runs("consumer")
  /\ pop.pc = "load"
  /\ pop' = [pc |-> "advance", byte |-> buf[Slot(tail)]]
  /\ UNCHANGED <<buf, head, tail, peak, overflow, push, out, tele, cleared>>

PopAdvance ==
  /\ Runs("consumer")
  /\ pop.pc = "advance"
  /\ tail' = Inc(tail)
  /\ out' = pop.byte
  /\ pop' = [pop EXCEPT !.pc = "idle"]
  /\ UNCHANGED <<buf, head, peak, overflow, push, tele, cleared>>

(***************************************************************************)
(* rb_count from the telemetry task: two loads of volatile words, in an    *)
(* order C leaves to the compiler.  engine_get_stats reports the           *)
(* difference, rb_clear_peak stores it into peak.                          *)
(***************************************************************************)
CountLoadFirst ==
  /\ Runs("telemetry")
  /\ tele.pc = "idle"
  /\ \/ tele' = [pc |-> "head", word |-> head]
     \/ tele' = [pc |-> "tail", word |-> tail]
  /\ UNCHANGED <<buf, head, tail, peak, overflow, push, pop, out, cleared>>

CountLoadSecond ==
  /\ Runs("telemetry")
  /\ \/ /\ tele.pc = "head"
        /\ tele' = [pc |-> "counted", word |-> Minus(tele.word, tail)]
     \/ /\ tele.pc = "tail"
        /\ tele' = [pc |-> "counted", word |-> Minus(head, tele.word)]
  /\ UNCHANGED <<buf, head, tail, peak, overflow, push, pop, out, cleared>>

\* engine_get_stats keeps the count for the report.
ReportCount ==
  /\ Runs("telemetry")
  /\ tele.pc = "counted"
  /\ tele' = [pc |-> "idle", word |-> 0]
  /\ UNCHANGED <<buf, head, tail, peak, overflow, push, pop, out, cleared>>

\* rb_clear_peak stores it.
ClearPeak ==
  /\ Runs("telemetry")
  /\ tele.pc = "counted"
  /\ peak' = tele.word
  /\ cleared' = TRUE
  /\ tele' = [pc |-> "idle", word |-> 0]
  /\ UNCHANGED <<buf, head, tail, overflow, push, pop, out>>

(***************************************************************************)
(* The part of engine_reset_counters that concerns a ring, with interrupts *)
(* off.  It resets the two rings whose producer is an interrupt, and an    *)
(* interrupt is over before the sweep task runs.                           *)
(***************************************************************************)
ResetCounters ==
  /\ Runs("sweep")
  /\ push.pc = "idle"
  /\ overflow' = 0
  /\ peak' = 0
  /\ cleared' = TRUE
  /\ UNCHANGED <<buf, head, tail, push, pop, out, tele>>

Next ==
  \/ \E b \in Byte : PushBegin(b)
  \/ PushFull
  \/ PushStore
  \/ PushPublish
  \/ PushMark
  \/ PopBegin
  \/ PopLoad
  \/ PopAdvance
  \/ CountLoadFirst
  \/ CountLoadSecond
  \/ ReportCount
  \/ ClearPeak
  \/ ResetCounters

Spec == Init /\ [][Next]_vars

(***************************************************************************)
(* What must hold.                                                         *)
(***************************************************************************)

\* The bytes between t and h in the storage b, oldest first.
Between(b, h, t) == [i \in 1 .. Minus(h, t) |-> b[Slot(Plus(t, i - 1))]]

\* What the ring holds.
Contents == Between(buf, head, tail)

\* The ring is a bounded FIFO (BoundedFifo): no byte is lost, duplicated,
\* overtaken or read before it was written, whoever interrupts whom between
\* two loads or stores, and across the wrap of head and tail; a byte is
\* refused only when the ring was full as rb_push looked, and overflow counts
\* every refusal once (rb_push, rb_pop, ringbuf.h:7-15).
Fifo == INSTANCE BoundedFifo WITH
  Capacity <- Size,
  queue    <- Contents,
  offered  <- IF push.pc \in {"store", "publish"} THEN push.byte ELSE None,
  taken    <- out,
  dropped  <- IF push.pc = "full" THEN Inc(overflow) ELSE overflow

ImplementsFifo == Fifo!Spec

\* The count rb_push took is out of date in one direction only: between that
\* load and the end of the call the reader can only make room, so the push
\* never writes over a byte that has not been read, and the reader's view
\* that there is a byte to load stays true until it has loaded it.
CountsConservative ==
  /\ Count <= Size
  /\ push.pc \in {"store", "publish"} => Count <= push.count /\ push.count < Size
  /\ push.pc = "mark" => Count <= push.count + 1 /\ push.count < Size
  /\ pop.pc # "idle" => Count > 0

\* As long as nobody else stores to the mark, as in the sensor ring, it is
\* never below the occupancy once rb_push has returned, and never above the
\* size (ringbuf.h:31, 66-70).
PeakCovers ==
  ~cleared =>
    /\ push.pc # "mark" => Count <= peak
    /\ peak <= Size
================================================================================
