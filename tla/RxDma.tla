--------------------------------- MODULE RxDma ---------------------------------
(***************************************************************************)
(* The receive ring shared by its two kinds of producer: the interrupts    *)
(* that push a byte (engine_on_rx_byte, engine_on_synth_tick) and the DMA  *)
(* channel that writes into the storage by itself and has the interrupt    *)
(* announce whole blocks (port_rp2350.c:326-377, engine.c:287-300).        *)
(*                                                                         *)
(* Bytes are numbered as they come in.  Interrupts and tasks take one step *)
(* each: what comes between the accesses of rb_push and rb_pop is          *)
(* ByteRing's.  Indices are not wrapped, for the same reason.              *)
(***************************************************************************)
EXTENDS Integers, Sequences

CONSTANTS
  Size,       \* RING_BYTES, of s_rx_storage
  Block,      \* RX_DMA_BLOCK
  Depth,      \* bytes the UART's receive FIFO holds
  MaxBytes    \* bytes and synthetic ticks in a behaviour

ASSUME RxDmaAssumption ==
  /\ Size \in Nat \ {0} /\ Block \in Nat \ {0} /\ Depth \in Nat \ {0}
  /\ Size % Block = 0
  /\ MaxBytes \in Nat

VARIABLES
  buf,        \* s_rx_storage, the number of the byte in each slot
  head, tail, overflow,     \* s_rx_ring
  mode,       \* s_rx_mode: the two interrupt modes are one here
  dma,        \* the channel: the slot it writes next, transfers it has left
  fifo,       \* the UART's receive FIFO
  bytesRx,    \* s_bytes_rx
  numbered,   \* bytes and ticks so far
  stream,     \* history: what the bytes announced or pushed were
  block,      \* history: what the channel has written and not announced
  written,    \* history: slots written, counted as head is
  stray,      \* history: the channel was started elsewhere than where the
              \* ring takes its bytes from, or a byte was pushed as it ran
  sound       \* history: bytes from this index on came in no such time

ring == <<head, tail, overflow>>
history == <<stream, written, stray, sound>>
vars == <<buf, ring, mode, dma, fifo, bytesRx, numbered, block, history>>

Count == head - tail

\* Bytes the channel has written since it was started or rearmed.
Progress == IF mode = "dma" THEN Block - dma.left ELSE 0

Larger(a, b) == IF a > b THEN a ELSE b

\* The history of a step that does not read: what it adds to the stream, and
\* whether it leads astray or leaves things as they are.
Record(added, astray) ==
  LET ahead == head' + IF mode' = "dma" THEN Block - dma'.left ELSE 0
  IN  /\ stream' = stream \o added
      /\ written' = Larger(written, ahead)
      /\ stray' = astray
      /\ sound' = IF astray THEN ahead ELSE sound

Init ==
  /\ buf = [s \in 0 .. Size - 1 |-> 0]
  /\ head = 0 /\ tail = 0 /\ overflow = 0
  /\ mode = "byte" /\ dma = [at |-> 0, left |-> Block]
  /\ fifo = <<>> /\ bytesRx = 0 /\ numbered = 0
  /\ stream = <<>> /\ block = <<>> /\ written = 0
  /\ stray = FALSE /\ sound = 0

(***************************************************************************)
(* The line and the hardware.                                              *)
(***************************************************************************)

\* A byte arrives; one for which there is no room is lost.  (Per byte, the
\* FIFO is off and holds one: the depth is a bound for both.)
Arrive ==
  /\ numbered < MaxBytes
  /\ numbered' = numbered + 1
  /\ fifo' = IF Len(fifo) < Depth THEN Append(fifo, numbered') ELSE fifo
  /\ UNCHANGED <<buf, ring, mode, dma, bytesRx, block, history>>

\* The channel moves a byte from the FIFO to the ring's storage, whatever the
\* ring holds there.  The write address wraps by itself.
DmaTransfer ==
  /\ mode = "dma" /\ dma.left > 0 /\ fifo # <<>>
  /\ buf' = [buf EXCEPT ![dma.at] = Head(fifo)]
  /\ dma' = [at |-> (dma.at + 1) % Size, left |-> dma.left - 1]
  /\ block' = Append(block, Head(fifo))
  /\ fifo' = Tail(fifo)
  /\ UNCHANGED <<ring, mode, bytesRx, numbered>>
  /\ Record(<<>>, stray)

(***************************************************************************)
(* Interrupts.                                                             *)
(***************************************************************************)

\* Mutant: the block itself is not counted.
OverrunByShort(count) == count > Size

OverrunBy(count) == count + Block > Size

\* Mutant: the channel is armed for its block from the start of the storage.
RearmFromStart(d) == [at |-> 0, left |-> Block]

\* The transfer count is rearmed, the write address stays.
Rearm(d) == [d EXCEPT !.left = Block]

\* on_rx_dma and engine_on_rx_block: head moves, whatever there is room for.
OnRxDma ==
  /\ mode = "dma" /\ dma.left = 0
  /\ overflow' = IF OverrunBy(Count) THEN overflow + Block ELSE overflow
  /\ head' = head + Block
  /\ bytesRx' = bytesRx + Block
  /\ dma' = Rearm(dma)
  /\ block' = <<>>
  /\ UNCHANGED <<buf, tail, mode, fifo, numbered>>
  /\ Record(block, stray)

\* Mutant: full is when exactly as many bytes are in the ring as it has slots.
IsFullExactly(count) == count = Size

IsFull(count) == count > Size - 1

\* rb_push.
Store(b) ==
  /\ IF IsFull(Count)
     THEN /\ overflow' = overflow + 1
          /\ UNCHANGED <<buf, head>>
          /\ Record(<<>>, stray)
     ELSE /\ buf' = [buf EXCEPT ![head % Size] = b]
          /\ head' = head + 1
          /\ UNCHANGED overflow
          /\ Record(<<b>>, mode = "dma")

\* Mutant: a byte that was refused is not counted.
PushCountsStored(b) ==
  Store(b) /\ bytesRx' = IF IsFull(Count) THEN bytesRx ELSE bytesRx + 1

\* rb_push and the count of bytes, refused or not.
Push(b) == Store(b) /\ bytesRx' = bytesRx + 1

\* on_uart_rx and engine_on_rx_byte, of one byte.
OnUartRx ==
  /\ mode = "byte" /\ fifo # <<>>
  /\ fifo' = Tail(fifo)
  /\ UNCHANGED <<tail, mode, dma, numbered, block>>
  /\ Push(Head(fifo))

\* engine_on_synth_tick, in whatever mode the points before have left.
OnSynth ==
  /\ numbered < MaxBytes
  /\ numbered' = numbered + 1
  /\ UNCHANGED <<tail, mode, dma, fifo, block>>
  /\ Push(numbered')

(***************************************************************************)
(* The protocol task: rb_pop.                                              *)
(***************************************************************************)
Readable == head # tail

Pop ==
  /\ Readable
  /\ tail' = tail + 1
  /\ UNCHANGED <<buf, head, overflow, mode, dma>>
  /\ UNCHANGED <<fifo, bytesRx, numbered, block, history>>

(***************************************************************************)
(* The sweep task: port_set_rx_mode.  The interrupts are above it, so none *)
(* is pending.                                                             *)
(***************************************************************************)
Quiet == mode = "dma" => dma.left > 0

\* rx_dma_stop, and rx_dma_start for the DMA mode: the channel starts at the
\* first byte of the storage, what it wrote and did not announce is forgotten.
SetRxMode(m) ==
  /\ mode' = m
  /\ dma' = [at |-> 0, left |-> Block]
  /\ block' = <<>>
  /\ UNCHANGED <<buf, ring, bytesRx, numbered>>
  /\ Record(<<>>, m = "dma" /\ head % Size # 0)

\* Before a point: port_set_baud drains the UART.
NextPoint ==
  /\ Quiet
  /\ fifo' = <<>>
  /\ \E m \in {"byte", "dma"} : SetRxMode(m)

\* After a point: the mode is set again, with what the UART holds.
EndPoint ==
  /\ Quiet
  /\ UNCHANGED fifo
  /\ SetRxMode(mode)

Next ==
  \/ Arrive \/ DmaTransfer
  \/ OnRxDma \/ OnUartRx \/ OnSynth
  \/ Pop
  \/ NextPoint \/ EndPoint

Spec == Init /\ [][Next]_vars

(***************************************************************************)
(* Properties.                                                             *)
(***************************************************************************)

\* Every variable has its type.
TypeOK ==
  /\ buf \in [0 .. Size - 1 -> 0 .. MaxBytes]
  /\ head \in Nat /\ tail \in 0 .. head /\ overflow \in Nat
  /\ mode \in {"byte", "dma"}
  /\ dma \in [at : 0 .. Size - 1, left : 0 .. Block]
  /\ fifo \in Seq(1 .. MaxBytes) /\ Len(fifo) <= Depth
  /\ bytesRx \in 0 .. numbered /\ numbered \in 0 .. MaxBytes
  /\ Len(stream) = head
  /\ Len(block) = Progress
  /\ written >= head /\ stray \in BOOLEAN /\ sound \in 0 .. written

InPlace(p) == buf[p % Size] = stream[p + 1]

Lapped(p) == p + Size < written

\* Whatever the order in which modes are set, blocks announced, bytes pushed
\* and read, and however far the reader has fallen behind: a byte is read as
\* it came in unless the writer has been round the ring since
\* (engine.c:287-300, ringbuf.h:54-87).  Exempt are the bytes up to where a
\* channel got that was started with head elsewhere than at the first slot, or
\* that a push came between.
InOrder ==
  \A p \in tail .. head - 1 : p >= sound /\ ~Lapped(p) => InPlace(p)

\* A reader that was lapped is told: while no overflow is counted, the ring
\* does not claim more than it can hold, and at most a block, complete
\* but not announced, has been written over bytes not read (engine.c:292-294).
OverflowTells == overflow = 0 => Count <= Size /\ written - tail <= Size + Block

\* Only a transfer of the channel writes over what has not been read, in either
\* mode: once the DMA mode has left more in the ring than it has slots, nothing
\* is pushed until the reader has made room (ringbuf.h:59: count > mask, not
\* count == size).
OnlyDmaLaps ==
  [][dma'.left >= dma.left => \A p \in tail .. head - 1 :
                                InPlace(p) => buf'[p % Size] = buf[p % Size]]_vars

\* Bytes that have come in and are not counted, announced, waiting or on
\* their way.
Missed == numbered - bytesRx - Len(fifo) - Progress

\* Each byte is counted once, or lost at a full FIFO or a change of mode; what
\* a change of mode loses is less than a block and what the UART holds
\* (port_rp2350.c:326-377, engine.c:299).
BytesCounted ==
  [][\/ Missed' = Missed
     \/ /\ head' = head /\ overflow' = overflow
        /\ Missed' - Missed \in 1 .. Block - 1 + Depth]_vars

\* The DMA receive mode "writes straight into the ring, so all the interrupt
\* has to do is say how far it got" (engine.c:284-286): what is announced is
\* in the slots the reader will take it from.
WritesIntoTheRing ==
  \A p \in tail .. head - 1 : ~Lapped(p) => InPlace(p)
================================================================================
