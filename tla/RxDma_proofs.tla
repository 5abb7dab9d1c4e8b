------------------------------ MODULE RxDma_proofs ------------------------------
(***************************************************************************)
(* For any ring, block and FIFO, whatever modes follow one another: while  *)
(* no overflow is counted the reader has lost at most a block; bytes are  *)
(* read as they came in; a push laps nothing; every byte is counted once.  *)
(*                                                                         *)
(* The check for an overflow looks at head, which is behind what the       *)
(* channel has written; IInv bounds how far.  PlaceInv relates the slots   *)
(* to the bytes, those the channel has not announced included.             *)
(***************************************************************************)
EXTENDS RxDma, Arithmetic, SequenceTheorems, TLAPS

\* The ring and the channel, without what the bytes are.
RingType ==
  /\ head \in Nat /\ tail \in 0 .. head /\ overflow \in Nat
  /\ mode \in {"byte", "dma"}
  /\ dma \in [at : 0 .. Size - 1, left : 0 .. Block]
  /\ written \in Nat

\* The channel is never more than a block past what has been announced.
Ahead == written <= head + Block

\* Until an overflow is counted the ring claims no more than it can hold.
Honest == overflow = 0 => Count <= Size

IInv == RingType /\ Ahead /\ Honest

\* What the proofs need of the sizes: not that a block divides the ring.
LEMMA Sizes ==
  Size \in Nat \ {0} /\ Block \in Nat \ {0} /\ Depth \in Nat \ {0} /\ MaxBytes \in Nat
BY RxDmaAssumption

USE Sizes

\* Starting in byte mode, with nothing written.
LEMMA InitInv == Init => IInv
BY DEF Init, IInv, RingType, Ahead, Honest, Count

\* What a step leaves of the history is at most a block past head.
Reached ==
  written' = Larger(written, head' + IF mode' = "dma" THEN Block - dma'.left ELSE 0)

LEMMA ReachedAhead ==
  ASSUME RingType, Ahead, Reached, head \in Nat, head' \in Nat, head <= head',
         dma' \in [at : 0 .. Size - 1, left : 0 .. Block]
  PROVE  written' \in Nat /\ Ahead'
<1>1. dma'.left \in 0 .. Block /\ Block \in Nat /\ Block - dma'.left \in Nat
  OBVIOUS
<1>2. \/ written' = written
      \/ written' = head'
      \/ written' = head' + (Block - dma'.left)
  <2>1. CASE mode' = "dma"
    <3>1. written' = Larger(written, head' + (Block - dma'.left))
      BY <2>1 DEF Reached
    <3> QED  BY <3>1 DEF Larger
  <2>2. CASE mode' # "dma"
    <3>1. written' = Larger(written, head' + 0)  BY <2>2 DEF Reached
    <3>2. \A n \in Nat : n + 0 = n  OBVIOUS
    <3>3. head' + 0 = head'  BY <3>2
    <3> QED  BY <3>1, <3>3 DEF Larger
  <2> QED  BY <2>1, <2>2
<1>3. written \in Nat /\ head \in Nat /\ written <= head + Block
  BY DEF RingType, Ahead
<1> QED  BY <1>1, <1>2, <1>3 DEF Ahead

\* A byte is pushed: it is stored if there is room, and counted if not.
LEMMA StoreInv ==
  ASSUME IInv, NEW b, Store(b), UNCHANGED <<tail, mode, dma>>
  PROVE  IInv'
<1>1. /\ head \in Nat /\ tail \in 0 .. head /\ overflow \in Nat
      /\ mode' \in {"byte", "dma"}
      /\ dma' \in [at : 0 .. Size - 1, left : 0 .. Block]
  BY DEF IInv, RingType
<1>2. CASE IsFull(Count)
  <2>1. head' = head /\ overflow' = overflow + 1 /\ Reached
    BY <1>2 DEF Store, Reached, Record
  <2>2. written' \in Nat /\ Ahead'  BY <1>1, <2>1, ReachedAhead DEF IInv
  <2> QED  BY <1>1, <2>1, <2>2 DEF IInv, RingType, Honest
<1>3. CASE ~IsFull(Count)
  <2>1. head' = head + 1 /\ overflow' = overflow /\ Reached
    BY <1>3 DEF Store, Reached, Record
  <2>2. written' \in Nat /\ Ahead'  BY <1>1, <2>1, ReachedAhead DEF IInv
  <2>3. Count' <= Size  BY <1>1, <1>3, <2>1 DEF IsFull, Count
  <2> QED  BY <1>1, <2>1, <2>2, <2>3 DEF IInv, RingType, Honest
<1> QED  BY <1>2, <1>3

\* A mode is set.
LEMMA ModeInv ==
  ASSUME IInv, NEW m \in {"byte", "dma"}, SetRxMode(m)
  PROVE  IInv'
<1>1. /\ head' = head /\ tail' = tail /\ overflow' = overflow
      /\ mode' = m /\ dma' = [at |-> 0, left |-> Block]
      /\ Reached
  BY DEF SetRxMode, ring, Reached, Record
<1>2. dma' \in [at : 0 .. Size - 1, left : 0 .. Block]  BY <1>1
<1>3. written' \in Nat /\ Ahead'
  BY <1>1, <1>2, ReachedAhead DEF IInv, RingType
<1> QED  BY <1>1, <1>2, <1>3 DEF IInv, RingType, Honest, Count

\* Every step keeps the invariant.
LEMMA NextInv == IInv /\ [Next]_vars => IInv'
<1> SUFFICES ASSUME IInv, [Next]_vars PROVE IInv'  OBVIOUS
<1>1. /\ head \in Nat /\ tail \in 0 .. head /\ overflow \in Nat
      /\ mode \in {"byte", "dma"} /\ written \in Nat
      /\ dma \in [at : 0 .. Size - 1, left : 0 .. Block]
  BY DEF IInv, RingType
<1>2. CASE DmaTransfer
  <2>1. /\ UNCHANGED <<head, tail, overflow, mode>> /\ dma.left > 0
        /\ dma' = [at |-> (dma.at + 1) % Size, left |-> dma.left - 1]
        /\ Reached
    BY <1>2 DEF DmaTransfer, ring, Reached, Record
  <2>2. (dma.at + 1) % Size \in 0 .. Size - 1 /\ dma.left - 1 \in 0 .. Block
    BY <1>1, <2>1
  <2>3. dma' \in [at : 0 .. Size - 1, left : 0 .. Block]  BY <2>1, <2>2
  <2>4. written' \in Nat /\ Ahead'
    BY <1>1, <2>1, <2>3, ReachedAhead DEF IInv
  <2> QED  BY <1>1, <2>1, <2>3, <2>4 DEF IInv, RingType, Honest, Count
<1>3. CASE OnRxDma
  <2>1. /\ head' = head + Block /\ tail' = tail /\ mode' = mode
        /\ overflow' = IF OverrunBy(Count) THEN overflow + Block ELSE overflow
        /\ dma' = [dma EXCEPT !.left = Block] /\ Reached
    BY <1>3 DEF OnRxDma, Rearm, Reached, Record
  <2>2. dma' \in [at : 0 .. Size - 1, left : 0 .. Block]  BY <1>1, <2>1
  <2>3. written' \in Nat /\ Ahead'
    BY <1>1, <2>1, <2>2, ReachedAhead DEF IInv
  <2>4. overflow' \in Nat /\ Honest'
    BY <1>1, <2>1 DEF IInv, Honest, OverrunBy, Count
  <2> QED  BY <1>1, <2>1, <2>2, <2>3, <2>4 DEF IInv, RingType
<1>4. CASE OnUartRx
  BY <1>4, StoreInv DEF OnUartRx, Push
<1>5. CASE OnSynth
  BY <1>5, StoreInv DEF OnSynth, Push
<1>6. CASE Pop
  <2>1. /\ tail # head /\ tail' = tail + 1
        /\ UNCHANGED <<head, overflow, mode, dma, written>>
    BY <1>6 DEF Pop, Readable, history
  <2> QED  BY <1>1, <2>1 DEF IInv, RingType, Ahead, Honest, Count
<1>7. CASE NextPoint
  BY <1>7, ModeInv DEF NextPoint
<1>8. CASE EndPoint
  BY <1>1, <1>8, ModeInv DEF EndPoint
<1>9. CASE Arrive \/ UNCHANGED vars
  <2>1. UNCHANGED <<head, tail, overflow, mode, dma, written>>
    BY <1>9 DEF Arrive, vars, ring, history
  <2> QED  BY <2>1 DEF IInv, RingType, Ahead, Honest, Count
<1> QED
  BY <1>2, <1>3, <1>4, <1>5, <1>6, <1>7, <1>8, <1>9 DEF Next

\* A reader that was lapped is told, whatever the sizes and the order of
\* modes, blocks and bytes (engine_on_rx_block, rb_push).
THEOREM LappedIsTold == Spec => []OverflowTells
<1>1. IInv => OverflowTells
  BY DEF IInv, RingType, Ahead, Honest, Count, OverflowTells
<1> QED  BY InitInv, NextInv, <1>1, PTL DEF Spec

(***************************************************************************)
(* The bytes are read as they came in.                                     *)
(***************************************************************************)

\* The indices of a ring written by pushes and by the channel: what has been
\* announced or pushed, and what the channel has written since.
Frontier == head + Progress
Bytes == stream \o block

\* Bytes from sound on that no later one has written over are in their slots.
Placed(b, bytes, n, s, w) ==
  \A p \in 0 .. n - 1 : p >= s /\ p + Size >= w => b[p % Size] = bytes[p + 1]

DataType ==
  /\ numbered \in 0 .. MaxBytes /\ bytesRx \in Nat
  /\ bytesRx + Len(fifo) + Progress <= numbered
  /\ buf \in [0 .. Size - 1 -> 0 .. MaxBytes]
  /\ fifo \in Seq(1 .. MaxBytes) /\ Len(fifo) <= Depth
  /\ stream \in Seq(1 .. MaxBytes) /\ block \in Seq(1 .. MaxBytes)
  /\ Len(stream) = head /\ Len(block) = Progress
  /\ stray \in BOOLEAN /\ sound \in 0 .. written /\ written >= Frontier

\* A channel that was not led astray writes where the ring will look; one that
\* was leaves nothing behind it that is vouched for.
InStep ==
  /\ stray => sound = Frontier
  /\ mode = "dma" /\ ~stray => dma.at = Frontier % Size

PlaceInv ==
  /\ DataType /\ InStep
  /\ Placed(buf, Bytes, Frontier, sound, written)

\* A byte written at index n, where nothing is that a later check will vouch for.
LEMMA WriteIn ==
  ASSUME NEW b, DOMAIN b = 0 .. Size - 1, NEW T, NEW bytes \in Seq(T), NEW x \in T,
         NEW n \in Nat, Len(bytes) = n, NEW s \in Nat, NEW w \in Nat,
         Placed(b, bytes, n, s, w), NEW v \in Nat, v >= w, v >= n + 1
  PROVE  Placed([b EXCEPT ![n % Size] = x], Append(bytes, x), n + 1, s, v)
<1> DEFINE c == [b EXCEPT ![n % Size] = x]
           longer == Append(bytes, x)
<1> SUFFICES \A p \in 0 .. (n + 1) - 1 :
               p >= s /\ p + Size >= v => c[p % Size] = longer[p + 1]
  BY Zenon DEF Placed
<1> SUFFICES ASSUME NEW p \in 0 .. (n + 1) - 1, p >= s, p + Size >= v
             PROVE  c[p % Size] = longer[p + 1]
  OBVIOUS
<1>0. p \in 0 .. n  OBVIOUS
<1>1. /\ \A k \in 1 .. n : Append(bytes, x)[k] = bytes[k]
      /\ Append(bytes, x)[n + 1] = x
  BY AppendProperties
<1>2. n % Size \in 0 .. Size - 1 /\ p % Size \in 0 .. Size - 1  BY DivMod
<1>3. CASE p = n  BY <1>1, <1>2, <1>3
<1>4. CASE p < n
  <2>1. p \in Nat /\ n > p /\ n - p < Size  BY <1>0, <1>4
  <2>2. n % Size # p % Size  BY <2>1, Residues
  <2>3. b[p % Size] = bytes[p + 1]
    <3>1. p \in 0 .. n - 1 /\ p + Size >= w  BY <1>0, <1>4
    <3> QED  BY <3>1 DEF Placed
  <2>4. p + 1 \in 1 .. n  BY <1>4
  <2> QED  BY <1>1, <1>2, <2>2, <2>3, <2>4
<1> QED  BY <1>0, <1>3, <1>4

\* The slot after the one of index n.
LEMMA Onward ==
  ASSUME NEW n \in Nat
  PROVE  ((n % Size) + 1) % Size = (n + 1) % Size
<1> DEFINE r == n % Size
           q == n \div Size
<1>1. r \in 0 .. Size - 1 /\ q \in Nat /\ n = Size * q + r  BY DivMod
<1> HIDE DEF r, q
<1>2. Size * q \in Nat /\ n + 1 = (r + 1) + Size * q  BY <1>1
<1>3. ((r + 1) + Size * q) % Size = (r + 1) % Size  BY <1>1, WholeLaps
<1> QED  BY <1>2, <1>3 DEF r

\* A byte at the end of the second of two sequences.
LEMMA ConcatAppend ==
  ASSUME NEW T, NEW s \in Seq(T), NEW t \in Seq(T), NEW x \in T
  PROVE  s \o Append(t, x) = Append(s \o t, x)
<1> DEFINE one == <<x>>
<1>1. one \in Seq(T)  OBVIOUS
<1>2. s \o t \in Seq(T)  BY ConcatProperties
<1>3. Append(t, x) = t \o one /\ Append(s \o t, x) = (s \o t) \o one
  BY <1>2, AppendIsConcat
<1> HIDE DEF one
<1>4. (s \o t) \o one = s \o (t \o one)  BY <1>1, ConcatAssociative
<1> QED  BY <1>3, <1>4, Zenon

\* Nothing is written: there may be less to vouch for.
LEMMA Fewer ==
  ASSUME NEW b, NEW n \in Nat, NEW s \in Nat, NEW w \in Nat, NEW bytes, NEW few,
         Placed(b, bytes, n, s, w),
         NEW m \in Nat, m <= n, \A k \in 1 .. m : few[k] = bytes[k],
         NEW t \in Nat, t >= s, NEW v \in Nat, v >= w
  PROVE  Placed(b, few, m, t, v)
<1> SUFFICES ASSUME NEW p \in 0 .. m - 1, p >= t, p + Size >= v
             PROVE  b[p % Size] = few[p + 1]
  BY DEF Placed
<1>1. p \in 0 .. n - 1 /\ p >= s /\ p + Size >= w  OBVIOUS
<1>2. p + 1 \in 1 .. m  OBVIOUS
<1>3. b[p % Size] = bytes[p + 1]  BY <1>1 DEF Placed
<1> QED  BY <1>2, <1>3

LEMMA NothingVouched ==
  ASSUME NEW b, NEW bytes, NEW n \in Nat, NEW w \in Nat
  PROVE  Placed(b, bytes, n, n, w)
BY DEF Placed

\* What a step records of the history.
LEMMA RecordIs ==
  ASSUME NEW added, NEW astray, Record(added, astray)
  PROVE  /\ stream' = stream \o added /\ stray' = astray
         /\ written' = Larger(written, Frontier')
         /\ sound' = IF astray THEN Frontier' ELSE sound
BY DEF Record, Frontier, Progress

LEMMA RecordKeeps ==
  ASSUME NEW w \in Nat, NEW s \in 0 .. w, NEW f \in Nat, NEW a \in BOOLEAN,
         NEW v, v = Larger(w, f), NEW t, t = IF a THEN f ELSE s
  PROVE  v \in Nat /\ v >= w /\ v >= f /\ t \in 0 .. v /\ (a => t = f) /\ (~a => t = s)
BY DEF Larger

\* The start.
LEMMA PlaceStart == Init => PlaceInv
<1> SUFFICES ASSUME Init PROVE PlaceInv  OBVIOUS
<1>1. /\ buf = [s \in 0 .. Size - 1 |-> 0] /\ head = 0 /\ tail = 0 /\ mode = "byte"
      /\ dma = [at |-> 0, left |-> Block]
      /\ fifo = <<>> /\ bytesRx = 0 /\ numbered = 0
      /\ stream = <<>> /\ block = <<>> /\ written = 0 /\ stray = FALSE /\ sound = 0
  BY DEF Init
<1>2. <<>> \in Seq(1 .. MaxBytes) /\ Len(<<>>) = 0  BY EmptySeq
<1>3. Progress = 0 /\ Frontier = 0  BY <1>1 DEF Progress, Frontier
<1>4. DataType  BY <1>1, <1>2, <1>3 DEF DataType
<1>5. InStep  BY <1>1 DEF InStep
<1>6. Placed(buf, Bytes, Frontier, sound, written)  BY <1>1, <1>3 DEF Placed
<1> QED  BY <1>4, <1>5, <1>6 DEF PlaceInv

\* Facts of every state that the steps use.
LEMMA PlaceFacts ==
  ASSUME IInv, PlaceInv
  PROVE  /\ head \in Nat /\ Progress \in 0 .. Block /\ Frontier \in Nat /\ Frontier >= head
         /\ written \in Nat /\ written >= Frontier /\ sound \in 0 .. written
         /\ dma \in [at : 0 .. Size - 1, left : 0 .. Block]
         /\ Bytes \in Seq(1 .. MaxBytes) /\ Len(Bytes) = Frontier
         /\ \A k \in 1 .. head : Bytes[k] = stream[k]
         /\ mode = "byte" => Progress = 0 /\ block = <<>> /\ Frontier = head
<1>1. /\ head \in Nat /\ written \in Nat
      /\ dma \in [at : 0 .. Size - 1, left : 0 .. Block]
  BY DEF IInv, RingType
<1>2. Progress \in 0 .. Block  BY <1>1 DEF Progress
<1>3. Frontier \in Nat /\ Frontier >= head  BY <1>1, <1>2 DEF Frontier
<1>4. /\ stream \in Seq(1 .. MaxBytes) /\ block \in Seq(1 .. MaxBytes)
      /\ Len(stream) = head /\ Len(block) = Progress
      /\ written >= Frontier /\ sound \in 0 .. written
  BY DEF PlaceInv, DataType
<1>5. /\ Bytes \in Seq(1 .. MaxBytes) /\ Len(Bytes) = head + Progress
      /\ \A k \in 1 .. head + Progress :
           Bytes[k] = IF k <= head THEN stream[k] ELSE block[k - head]
  <2>1. /\ stream \o block \in Seq(1 .. MaxBytes)
        /\ Len(stream \o block) = Len(stream) + Len(block)
        /\ \A k \in 1 .. Len(stream) + Len(block) :
             (stream \o block)[k] = IF k <= Len(stream) THEN stream[k] ELSE block[k - Len(stream)]
    BY <1>4, ConcatProperties
  <2> QED  BY <1>4, <2>1, Zenon DEF Bytes
<1>6. \A k \in 1 .. head : Bytes[k] = stream[k]  BY <1>1, <1>2, <1>5
<1>7. mode = "byte" => Progress = 0 /\ block = <<>> /\ Frontier = head
  <2> SUFFICES ASSUME mode = "byte" PROVE Progress = 0 /\ block = <<>> /\ Frontier = head
    OBVIOUS
  <2>1. Progress = 0  BY DEF Progress
  <2>2. block = <<>>  BY <1>4, <2>1, EmptySeq
  <2> QED  BY <1>1, <2>1, <2>2 DEF Frontier
<1> QED  BY <1>1, <1>2, <1>3, <1>4, <1>5, <1>6, <1>7 DEF Frontier


\* The channel moves a byte: behind it are the bytes it had written.
LEMMA TransferPlace ==
  ASSUME IInv, PlaceInv, DmaTransfer
  PROVE  PlaceInv'
<1> DEFINE x == Head(fifo)
           n == Frontier
<1>1. /\ head \in Nat /\ n \in Nat /\ Progress \in 0 .. Block
      /\ written \in Nat /\ written >= n /\ sound \in 0 .. written
      /\ dma \in [at : 0 .. Size - 1, left : 0 .. Block]
      /\ Bytes \in Seq(1 .. MaxBytes) /\ Len(Bytes) = n
  BY PlaceFacts
<1>2. /\ numbered \in 0 .. MaxBytes /\ bytesRx \in Nat
      /\ bytesRx + Len(fifo) + Progress <= numbered
      /\ buf \in [0 .. Size - 1 -> 0 .. MaxBytes]
      /\ fifo \in Seq(1 .. MaxBytes) /\ Len(fifo) <= Depth
      /\ stream \in Seq(1 .. MaxBytes) /\ block \in Seq(1 .. MaxBytes)
      /\ Len(stream) = head /\ Len(block) = Progress
      /\ stray \in BOOLEAN /\ (stray => sound = n)
      /\ (mode = "dma" /\ ~stray => dma.at = n % Size)
  BY DEF PlaceInv, DataType, InStep
<1>3. /\ mode = "dma" /\ dma.left > 0 /\ fifo # <<>>
      /\ buf' = [buf EXCEPT ![dma.at] = x]
      /\ dma' = [at |-> (dma.at + 1) % Size, left |-> dma.left - 1]
      /\ block' = Append(block, x) /\ fifo' = Tail(fifo)
      /\ head' = head /\ mode' = mode /\ bytesRx' = bytesRx /\ numbered' = numbered
      /\ Record(<<>>, stray)
  BY DEF DmaTransfer, ring
<1>4. x \in 1 .. MaxBytes /\ Tail(fifo) \in Seq(1 .. MaxBytes) /\ Len(Tail(fifo)) = Len(fifo) - 1
  BY <1>2, <1>3, HeadTailProperties
<1>5. /\ Append(block, x) \in Seq(1 .. MaxBytes)
      /\ Len(Append(block, x)) = Len(block) + 1
  BY <1>2, <1>4, AppendProperties
<1>6. stream' = stream
  <2>1. stream' = stream \o <<>>  BY <1>3, RecordIs
  <2>2. stream \o <<>> = stream  BY <1>2, ConcatEmptySeq
  <2> QED  BY <2>1, <2>2
<1>7. Progress' = Progress + 1 /\ Frontier' = n + 1
  <2>1. Progress = Block - dma.left  BY <1>3 DEF Progress
  <2>2. Progress' = Block - (dma.left - 1)  BY <1>3 DEF Progress
  <2>3. Progress' = Progress + 1  BY <1>1, <2>1, <2>2
  <2>4. Frontier' = head + (Progress + 1)  BY <1>3, <2>3 DEF Frontier
  <2>5. n = head + Progress  BY DEF Frontier
  <2> HIDE DEF n
  <2> QED  BY <1>1, <2>3, <2>4, <2>5
<1>8. Bytes' = Append(Bytes, x)
  <2>1. stream \o Append(block, x) = Append(stream \o block, x)
    <3>1. stream \in Seq(1 .. MaxBytes) /\ block \in Seq(1 .. MaxBytes) /\ x \in 1 .. MaxBytes
      BY <1>2, <1>4
    <3> HIDE DEF x
    <3> QED  BY <3>1, ConcatAppend
  <2>2. Bytes' = stream \o Append(block, x)  BY <1>3, <1>6, Zenon DEF Bytes
  <2> HIDE DEF x
  <2> QED  BY <2>1, <2>2, Zenon DEF Bytes
<1>9. written' = Larger(written, n + 1) /\ sound' = (IF stray THEN n + 1 ELSE sound) /\ stray' = stray
  BY <1>3, <1>7, RecordIs
<1> DEFINE v == written'
           t == sound'
<1> HIDE DEF n
<1>10. v = Larger(written, n + 1) /\ t = IF stray THEN n + 1 ELSE sound  BY <1>9
<1> HIDE DEF v, t
<1>11. v \in Nat /\ v >= written /\ v >= n + 1 /\ t \in 0 .. v
       /\ (stray => t = n + 1) /\ (~stray => t = sound)
  <2>1. n + 1 \in Nat  BY <1>1
  <2>2. v \in Nat /\ v >= written /\ v >= n + 1  BY <1>1, <1>10 DEF Larger
  <2>3. CASE stray
    <3>1. t = n + 1  BY <1>10, <2>3
    <3> QED  BY <1>1, <2>1, <2>2, <2>3, <3>1
  <2>4. CASE ~stray
    <3>1. t = sound  BY <1>10, <2>4
    <3> QED  BY <1>1, <2>2, <2>4, <3>1
  <2> QED  BY <1>2, <2>3, <2>4
<1>12. DataType'
  <2>1. Len(stream') = head' /\ Len(block') = Progress'  BY <1>2, <1>3, <1>5, <1>6, <1>7
  <2>2. written' >= Frontier' /\ sound' \in 0 .. written'  BY <1>7, <1>11 DEF v, t
  <2>3. buf' \in [0 .. Size - 1 -> 0 .. MaxBytes]
    <3>1. x \in 0 .. MaxBytes  BY <1>4
    <3> HIDE DEF x
    <3> QED  BY <1>2, <1>3, <3>1
  <2>4. Len(Tail(fifo)) <= Depth /\ bytesRx + Len(Tail(fifo)) + (Progress + 1) <= numbered
    <3>1. Len(fifo) \in Nat  BY <1>2, LenProperties
    <3> QED  BY <1>1, <1>2, <1>4, <3>1
  <2>5. /\ Len(fifo') <= Depth
        /\ bytesRx' + Len(fifo') + Progress' <= numbered'
    BY <1>3, <1>7, <2>4
  <2> QED  BY <1>2, <1>3, <1>4, <1>5, <1>6, <1>9, <2>1, <2>2, <2>3, <2>5 DEF DataType
<1>13. InStep'
  <2>1. stray' => sound' = Frontier'  BY <1>7, <1>9, <1>11 DEF t
  <2>2. mode' = "dma" /\ ~stray' => dma'.at = Frontier' % Size
    <3> SUFFICES ASSUME ~stray PROVE dma'.at = (n + 1) % Size  BY <1>7, <1>9
    <3>1. dma'.at = ((n % Size) + 1) % Size  BY <1>2, <1>3
    <3>2. ((n % Size) + 1) % Size = (n + 1) % Size  BY <1>1, Onward
    <3> QED  BY <3>1, <3>2
  <2> QED  BY <2>1, <2>2 DEF InStep
<1>14. Placed(buf', Bytes', Frontier', sound', written')
  <2> SUFFICES Placed([buf EXCEPT ![dma.at] = x], Append(Bytes, x), n + 1, t, v)
    BY <1>3, <1>7, <1>8 DEF v, t
  <2>1. CASE stray
    <3>1. Placed([buf EXCEPT ![dma.at] = x], Append(Bytes, x), n + 1, n + 1, v)
      BY <1>1, <1>11, NothingVouched
    <3> QED  BY <1>11, <2>1, <3>1
  <2>2. CASE ~stray
    <3>1. Placed(buf, Bytes, n, sound, written)  BY DEF PlaceInv, n
    <3>2. DOMAIN buf = 0 .. Size - 1  BY <1>2
    <3>3. Placed([buf EXCEPT ![n % Size] = x], Append(Bytes, x), n + 1, sound, v)
      <4>1. Bytes \in Seq(1 .. MaxBytes) /\ Len(Bytes) = n /\ x \in 1 .. MaxBytes
        BY <1>1, <1>4
      <4>2. n \in Nat /\ sound \in Nat /\ written \in Nat /\ v \in Nat /\ v >= written
            /\ v >= n + 1
        BY <1>1, <1>11
      <4> HIDE DEF x
      <4> QED  BY <3>1, <3>2, <4>1, <4>2, WriteIn, Zenon
    <3>4. dma.at = n % Size /\ t = sound  BY <1>2, <1>3, <1>11, <2>2
    <3> QED  BY <3>3, <3>4
  <2> QED  BY <1>2, <2>1, <2>2
<1> QED  BY <1>12, <1>13, <1>14 DEF PlaceInv

\* A block is announced: what was the channel's is the stream's.
LEMMA AnnouncePlace ==
  ASSUME IInv, PlaceInv, OnRxDma
  PROVE  PlaceInv'
<1> DEFINE n == Frontier
<1>1. /\ head \in Nat /\ n \in Nat /\ Progress \in 0 .. Block
      /\ written \in Nat /\ written >= n /\ sound \in 0 .. written
      /\ dma \in [at : 0 .. Size - 1, left : 0 .. Block]
      /\ Bytes \in Seq(1 .. MaxBytes) /\ Len(Bytes) = n
  BY PlaceFacts
<1>2. /\ numbered \in 0 .. MaxBytes /\ bytesRx \in Nat
      /\ bytesRx + Len(fifo) + Progress <= numbered
      /\ buf \in [0 .. Size - 1 -> 0 .. MaxBytes]
      /\ fifo \in Seq(1 .. MaxBytes) /\ Len(fifo) <= Depth
      /\ stream \in Seq(1 .. MaxBytes) /\ block \in Seq(1 .. MaxBytes)
      /\ Len(stream) = head /\ Len(block) = Progress
      /\ stray \in BOOLEAN /\ (stray => sound = n)
      /\ (mode = "dma" /\ ~stray => dma.at = n % Size)
  BY DEF PlaceInv, DataType, InStep
<1>3. /\ mode = "dma" /\ dma.left = 0
      /\ head' = head + Block /\ bytesRx' = bytesRx + Block
      /\ dma' = [dma EXCEPT !.left = Block] /\ block' = <<>>
      /\ buf' = buf /\ mode' = mode /\ fifo' = fifo /\ numbered' = numbered
      /\ Record(block, stray)
  BY DEF OnRxDma, Rearm
<1>4. Progress = Block  BY <1>1, <1>3 DEF Progress
<1>5. Progress' = 0
  <2>1. dma'.left = Block  BY <1>1, <1>3
  <2> QED  BY <1>3, <2>1 DEF Progress
<1>6. Frontier' = n
  <2>1. Frontier' = (head + Block) + 0  BY <1>3, <1>5 DEF Frontier
  <2>2. n = head + Block  BY <1>4 DEF Frontier
  <2> HIDE DEF n
  <2> QED  BY <1>1, <2>1, <2>2
<1>7. /\ stream' = Bytes /\ Bytes' = Bytes
      /\ <<>> \in Seq(1 .. MaxBytes) /\ Len(<<>>) = 0
  <2>1. stream' = Bytes  BY <1>3, RecordIs DEF Bytes
  <2>2. Bytes' = Bytes \o <<>>  BY <1>3, <2>1 DEF Bytes
  <2>3. Bytes \o <<>> = Bytes  BY <1>1, ConcatEmptySeq
  <2>4. <<>> \in Seq(1 .. MaxBytes) /\ Len(<<>>) = 0  BY EmptySeq
  <2> QED  BY <2>1, <2>2, <2>3, <2>4, Zenon
<1>9. written' = Larger(written, n) /\ sound' = (IF stray THEN n ELSE sound) /\ stray' = stray
  BY <1>3, <1>6, RecordIs
<1> HIDE DEF n
<1>10. written' = written /\ sound' = sound
  BY <1>1, <1>2, <1>9 DEF Larger
<1>11. DataType'
  <2>1. Len(stream') = head' /\ Len(block') = Progress'
    BY <1>1, <1>3, <1>4, <1>5, <1>7 DEF n, Frontier
  <2>2. Len(fifo) \in Nat  BY <1>2, LenProperties
  <2>3. (bytesRx + Block) + Len(fifo) + 0 <= numbered  BY <1>1, <1>2, <1>4, <2>2
  <2>4. bytesRx' \in Nat /\ bytesRx' + Len(fifo') + Progress' <= numbered'
    BY <1>2, <1>3, <1>5, <2>3
  <2>5. written' >= Frontier' /\ sound' \in 0 .. written'  BY <1>1, <1>6, <1>10
  <2> QED  BY <1>1, <1>2, <1>3, <1>7, <1>9, <2>1, <2>4, <2>5 DEF DataType
<1>12. InStep'
  <2>1. dma'.at = dma.at  BY <1>1, <1>3
  <2> QED  BY <1>2, <1>3, <1>6, <1>9, <1>10, <2>1 DEF InStep
<1>13. Placed(buf', Bytes', Frontier', sound', written')
  BY <1>3, <1>6, <1>7, <1>10 DEF n, PlaceInv
<1> QED  BY <1>11, <1>12, <1>13 DEF PlaceInv


\* A byte is pushed: behind the ones before it, or beside a running channel.
LEMMA PushPlace ==
  ASSUME IInv, PlaceInv, NEW b \in 1 .. MaxBytes, Store(b), UNCHANGED <<mode, dma, block>>,
         numbered' \in 0 .. MaxBytes, bytesRx' \in Nat,
         bytesRx' + Len(fifo') + Progress' <= numbered',
         fifo' \in Seq(1 .. MaxBytes), Len(fifo') <= Depth
  PROVE  PlaceInv'
<1> DEFINE n == Frontier
<1>1. /\ head \in Nat /\ n \in Nat /\ Progress \in 0 .. Block
      /\ written \in Nat /\ written >= n /\ sound \in 0 .. written
      /\ Bytes \in Seq(1 .. MaxBytes) /\ Len(Bytes) = n
      /\ mode = "byte" => Progress = 0 /\ block = <<>> /\ n = head
  BY PlaceFacts
<1>2. /\ buf \in [0 .. Size - 1 -> 0 .. MaxBytes]
      /\ stream \in Seq(1 .. MaxBytes) /\ block \in Seq(1 .. MaxBytes)
      /\ Len(stream) = head /\ Len(block) = Progress
      /\ stray \in BOOLEAN /\ (stray => sound = n)
      /\ (mode = "dma" /\ ~stray => dma.at = n % Size)
      /\ mode \in {"byte", "dma"}
  BY DEF PlaceInv, DataType, InStep, IInv, RingType
<1>3. Placed(buf, Bytes, n, sound, written)  BY DEF PlaceInv
<1>4. Progress' = Progress /\ mode' = mode /\ dma' = dma /\ block' = block  BY DEF Progress
<1>5. n = head + Progress /\ Frontier' = head' + Progress  BY <1>4 DEF Frontier
<1> HIDE DEF n
<1>6. CASE IsFull(Count)
  <2>1. head' = head /\ buf' = buf /\ Record(<<>>, stray)  BY <1>6 DEF Store
  <2>2. Frontier' = n  BY <1>5, <2>1
  <2>3. stream' = stream
    <3>1. stream' = stream \o <<>>  BY <2>1, RecordIs
    <3>2. stream \o <<>> = stream  BY <1>2, ConcatEmptySeq
    <3> QED  BY <3>1, <3>2
  <2>4. written' = Larger(written, n) /\ sound' = (IF stray THEN n ELSE sound) /\ stray' = stray
    BY <2>1, <2>2, RecordIs
  <2>5. written' = written /\ sound' = sound  BY <1>1, <1>2, <2>4 DEF Larger
  <2>6. Bytes' = Bytes  BY <1>4, <2>3 DEF Bytes
  <2>7. written' >= Frontier' /\ sound' \in 0 .. written'  BY <1>1, <2>2, <2>5
  <2>8. Len(stream') = head' /\ Len(block') = Progress'  BY <1>2, <1>4, <2>1, <2>3
  <2>9. DataType'  BY <1>2, <1>4, <2>1, <2>3, <2>4, <2>7, <2>8 DEF DataType
  <2>10. InStep'  BY <1>2, <1>4, <2>2, <2>4, <2>5 DEF InStep
  <2>11. Placed(buf', Bytes', Frontier', sound', written')
    BY <1>3, <2>1, <2>2, <2>5, <2>6
  <2> QED  BY <2>9, <2>10, <2>11 DEF PlaceInv
<1>7. CASE ~IsFull(Count)
  <2>1. /\ head' = head + 1 /\ buf' = [buf EXCEPT ![head % Size] = b]
        /\ Record(<<b>>, mode = "dma")
    BY <1>7 DEF Store
  <2>2. Frontier' = n + 1  BY <1>1, <1>5, <2>1
  <2>3. stream' = Append(stream, b)
    <3>1. stream' = stream \o <<b>>  BY <2>1, RecordIs
    <3>2. Append(stream, b) = stream \o <<b>>  BY <1>2, AppendIsConcat
    <3> QED  BY <3>1, <3>2
  <2>4. stream' \in Seq(1 .. MaxBytes) /\ Len(stream') = head'
    <3>1. Append(stream, b) \in Seq(1 .. MaxBytes) /\ Len(Append(stream, b)) = head + 1
      BY <1>2, AppendProperties
    <3> QED  BY <2>1, <2>3, <3>1
  <2>5. buf' \in [0 .. Size - 1 -> 0 .. MaxBytes]  BY <1>2, <2>1
  <2>6. /\ written' = Larger(written, n + 1) /\ stray' = (mode = "dma")
        /\ sound' = IF mode = "dma" THEN n + 1 ELSE sound
    BY <2>1, <2>2, RecordIs
  <2> DEFINE v == written'
             t == sound'
  <2>7. v = Larger(written, n + 1) /\ t = IF mode = "dma" THEN n + 1 ELSE sound  BY <2>6
  <2> HIDE DEF v, t
  <2>8. v \in Nat /\ v >= written /\ v >= n + 1 /\ t \in 0 .. v
    BY <1>1, <2>7 DEF Larger
  <2>9. DataType'
    <3>1. written' >= Frontier' /\ sound' \in 0 .. written'  BY <2>2, <2>8 DEF v, t
    <3>2. stray' \in BOOLEAN  BY <2>6
    <3> QED  BY <1>2, <1>4, <2>4, <2>5, <3>1, <3>2 DEF DataType
  <2>10. CASE mode = "dma"
    <3>1. stray' /\ sound' = Frontier'  BY <2>2, <2>6, <2>10
    <3>2. InStep'  BY <3>1 DEF InStep
    <3>3. Placed(buf', Bytes', n + 1, n + 1, v)  BY <1>1, <2>8, NothingVouched
    <3>4. Placed(buf', Bytes', Frontier', sound', written')  BY <2>2, <3>1, <3>3 DEF v
    <3> QED  BY <2>9, <3>2, <3>4 DEF PlaceInv
  <2>11. CASE mode = "byte"
    <3>1. block = <<>> /\ n = head /\ t = sound /\ ~stray'  BY <1>1, <2>6, <2>7, <2>11
    <3>2. InStep'  BY <1>4, <2>11, <3>1 DEF InStep
    <3>3. Bytes' = Append(Bytes, b)
      <4>1. Bytes' = Append(stream, b) \o <<>> /\ Bytes = stream \o <<>>
        BY <1>4, <2>3, <3>1 DEF Bytes
      <4>2. Append(stream, b) \o <<>> = Append(stream, b) /\ stream \o <<>> = stream
        <5>1. Append(stream, b) \in Seq(1 .. MaxBytes)  BY <1>2, AppendProperties
        <5> QED  BY <1>2, <5>1, ConcatEmptySeq
      <4> QED  BY <4>1, <4>2, Zenon
    <3>4. Placed([buf EXCEPT ![n % Size] = b], Append(Bytes, b), n + 1, sound, v)
      <4>1. DOMAIN buf = 0 .. Size - 1 /\ sound \in Nat /\ written \in Nat  BY <1>1, <1>2
      <4> QED  BY <1>1, <1>3, <2>8, <4>1, WriteIn, Zenon
    <3>5. Placed(buf', Bytes', Frontier', sound', written')
      BY <2>1, <2>2, <3>1, <3>3, <3>4 DEF v, t
    <3> QED  BY <2>9, <3>2, <3>5 DEF PlaceInv
  <2> QED  BY <1>2, <2>10, <2>11
<1> QED  BY <1>6, <1>7

\* A mode is set: what the channel had not announced is forgotten.
LEMMA ModePlace ==
  ASSUME IInv, PlaceInv, NEW m \in {"byte", "dma"}, SetRxMode(m),
         fifo' \in Seq(1 .. MaxBytes), Len(fifo') \in 0 .. Len(fifo)
  PROVE  PlaceInv'
<1>1. /\ head \in Nat /\ Frontier \in Nat /\ Frontier >= head /\ Progress \in 0 .. Block
      /\ written \in Nat /\ written >= Frontier /\ sound \in 0 .. written
      /\ \A k \in 1 .. head : Bytes[k] = stream[k]
  BY PlaceFacts
<1>2. /\ numbered \in 0 .. MaxBytes /\ bytesRx \in Nat
      /\ bytesRx + Len(fifo) + Progress <= numbered
      /\ buf \in [0 .. Size - 1 -> 0 .. MaxBytes]
      /\ fifo \in Seq(1 .. MaxBytes) /\ Len(fifo) <= Depth
      /\ stream \in Seq(1 .. MaxBytes) /\ Len(stream) = head
  BY DEF PlaceInv, DataType
<1>3. /\ mode' = m /\ dma' = [at |-> 0, left |-> Block] /\ block' = <<>>
      /\ buf' = buf /\ head' = head /\ bytesRx' = bytesRx /\ numbered' = numbered
      /\ Record(<<>>, m = "dma" /\ head % Size # 0)
  BY DEF SetRxMode, ring
<1>4. Progress' = 0
  <2>1. dma'.left = Block  BY <1>3
  <2> QED  BY <2>1 DEF Progress
<1>5. Frontier' = head  BY <1>1, <1>3, <1>4 DEF Frontier
<1>6. <<>> \in Seq(1 .. MaxBytes) /\ Len(<<>>) = 0 /\ stream \o <<>> = stream
  BY <1>2, EmptySeq, ConcatEmptySeq
<1>7. stream' = stream /\ Bytes' = stream
  <2>1. stream' = stream \o <<>>  BY <1>3, RecordIs
  <2>2. stream' = stream  BY <1>6, <2>1, Zenon
  <2>3. Bytes' = stream \o <<>>  BY <1>3, <2>2, Zenon DEF Bytes
  <2> QED  BY <1>6, <2>2, <2>3, Zenon
<1> DEFINE a == m = "dma" /\ head % Size # 0
<1>8. /\ written' = Larger(written, head) /\ stray' = a
      /\ sound' = IF a THEN head ELSE sound
  BY <1>3, <1>5, RecordIs
<1>9. written' = written  BY <1>1, <1>8 DEF Larger
<1>10. stray' \in BOOLEAN  BY <1>8
<1>11. DataType'
  <2>1. sound' \in 0 .. written /\ written >= head  BY <1>1, <1>8
  <2>2. written' >= Frontier' /\ sound' \in 0 .. written'  BY <1>5, <1>9, <2>1
  <2> DEFINE k == Len(fifo')
  <2>3. Len(fifo) \in Nat  BY <1>2, LenProperties
  <2>4. k \in 0 .. Len(fifo)  OBVIOUS
  <2> HIDE DEF k
  <2>5. k <= Depth /\ bytesRx + k + 0 <= numbered  BY <1>1, <1>2, <2>3, <2>4
  <2>6. Len(fifo') <= Depth /\ bytesRx' + Len(fifo') + Progress' <= numbered'
    BY <1>3, <1>4, <2>5 DEF k
  <2>7. Len(stream') = head' /\ Len(block') = Progress'  BY <1>2, <1>3, <1>4, <1>6, <1>7
  <2> QED  BY <1>2, <1>3, <1>6, <1>7, <1>10, <2>2, <2>6, <2>7 DEF DataType
<1>12. InStep'
  <2>1. stray' => sound' = Frontier'  BY <1>5, <1>8
  <2>2. ASSUME mode' = "dma", ~stray' PROVE dma'.at = Frontier' % Size
    BY <1>3, <1>5, <1>8, <2>2
  <2> QED  BY <2>1, <2>2 DEF InStep
<1>13. Placed(buf', Bytes', Frontier', sound', written')
  <2>1. CASE a
    <3>1. Placed(buf, stream, head, head, written)  BY <1>1, NothingVouched
    <3> QED  BY <1>3, <1>5, <1>7, <1>8, <1>9, <2>1, <3>1
  <2>2. CASE ~a
    <3>1. Placed(buf, Bytes, Frontier, sound, written)  BY DEF PlaceInv
    <3>2. Placed(buf, stream, head, sound, written)
      <4>1. sound \in Nat /\ sound >= sound /\ written >= written /\ head <= Frontier  BY <1>1
      <4>2. \A k \in 1 .. head : stream[k] = Bytes[k]  BY <1>1
      <4> QED  BY <1>1, <3>1, <4>1, <4>2, Fewer, Zenon
    <3> QED  BY <1>3, <1>5, <1>7, <1>8, <1>9, <2>2, <3>2
  <2> QED  BY <2>1, <2>2
<1> QED  BY <1>11, <1>12, <1>13 DEF PlaceInv


\* Every step keeps the bytes where they will be read.
LEMMA NextPlace == IInv /\ PlaceInv /\ [Next]_vars => PlaceInv'
<1> SUFFICES ASSUME IInv, PlaceInv, [Next]_vars PROVE PlaceInv'  OBVIOUS
<1>1. /\ numbered \in 0 .. MaxBytes /\ bytesRx \in Nat
      /\ bytesRx + Len(fifo) + Progress <= numbered
      /\ fifo \in Seq(1 .. MaxBytes) /\ Len(fifo) <= Depth
      /\ mode \in {"byte", "dma"}
  BY DEF PlaceInv, DataType, IInv, RingType
<1>2. Len(fifo) \in Nat  BY <1>1, LenProperties
<1>3. Progress \in Nat  BY PlaceFacts
<1>4. CASE Arrive
  <2>1. /\ numbered < MaxBytes /\ numbered' = numbered + 1
        /\ fifo' = IF Len(fifo) < Depth THEN Append(fifo, numbered') ELSE fifo
        /\ UNCHANGED <<buf, head, mode, dma, bytesRx, block, stream, written, stray, sound>>
    BY <1>4 DEF Arrive, ring, history
  <2>2. numbered + 1 \in 1 .. MaxBytes  BY <1>1, <2>1
  <2>3. /\ Append(fifo, numbered + 1) \in Seq(1 .. MaxBytes)
        /\ Len(Append(fifo, numbered + 1)) = Len(fifo) + 1
    BY <1>1, <2>2, AppendProperties
  <2> DEFINE k == Len(fifo')
  <2>4. fifo' \in Seq(1 .. MaxBytes) /\ (k = Len(fifo) \/ (Len(fifo) < Depth /\ k = Len(fifo) + 1))
    <3>1. CASE Len(fifo) < Depth
      <4>1. fifo' = Append(fifo, numbered + 1)  BY <2>1, <3>1
      <4> QED  BY <2>3, <3>1, <4>1
    <3>2. CASE ~(Len(fifo) < Depth)
      <4>1. fifo' = fifo  BY <2>1, <3>2
      <4> QED  BY <1>1, <4>1
    <3> QED  BY <3>1, <3>2
  <2> HIDE DEF k
  <2>5. k <= Depth /\ bytesRx + k + Progress <= numbered + 1
    <3> DEFINE l == Len(fifo)
               g == Progress
    <3>1. /\ l \in Nat /\ g \in Nat /\ bytesRx \in Nat /\ numbered \in Nat /\ l <= Depth
          /\ bytesRx + l + g <= numbered /\ (k = l \/ (l < Depth /\ k = l + 1))
      BY <1>1, <1>2, <1>3, <2>4
    <3> HIDE DEF l, g
    <3>2. k <= Depth /\ bytesRx + k + g <= numbered + 1  BY <3>1
    <3> QED  BY <3>2 DEF g
  <2>6. Progress' = Progress /\ Frontier' = Frontier /\ Bytes' = Bytes
    BY <2>1 DEF Progress, Frontier, Bytes
  <2>7. bytesRx' + Len(fifo') + Progress' <= numbered'  BY <2>1, <2>5, <2>6 DEF k
  <2>8. DataType'  BY <2>1, <2>2, <2>4, <2>5, <2>6, <2>7 DEF k, PlaceInv, DataType
  <2> QED  BY <2>1, <2>6, <2>8 DEF PlaceInv, InStep
<1>5. CASE DmaTransfer  BY <1>5, TransferPlace
<1>6. CASE OnRxDma  BY <1>6, AnnouncePlace
<1>7. CASE OnUartRx
  <2>1. /\ fifo # <<>> /\ fifo' = Tail(fifo) /\ Store(Head(fifo)) /\ bytesRx' = bytesRx + 1
        /\ UNCHANGED <<mode, dma, numbered, block>>
    BY <1>7 DEF OnUartRx, Push
  <2>2. /\ Head(fifo) \in 1 .. MaxBytes /\ Tail(fifo) \in Seq(1 .. MaxBytes)
        /\ Len(Tail(fifo)) = Len(fifo) - 1
    BY <1>1, <2>1, HeadTailProperties
  <2>3. (bytesRx + 1) + Len(Tail(fifo)) + Progress <= numbered /\ Len(Tail(fifo)) <= Depth
    BY <1>1, <1>2, <1>3, <2>2
  <2>4. bytesRx' + Len(fifo') + Progress' <= numbered' /\ Len(fifo') <= Depth
    BY <2>1, <2>3 DEF Progress
  <2>5. numbered' \in 0 .. MaxBytes /\ bytesRx' \in Nat /\ fifo' \in Seq(1 .. MaxBytes)
    BY <1>1, <2>1, <2>2
  <2> QED  BY <2>1, <2>2, <2>4, <2>5, PushPlace
<1>8. CASE OnSynth
  <2>1. /\ numbered < MaxBytes /\ numbered' = numbered + 1
        /\ Store(numbered + 1) /\ bytesRx' = bytesRx + 1
        /\ UNCHANGED <<mode, dma, fifo, block>>
    BY <1>8 DEF OnSynth, Push
  <2>2. numbered + 1 \in 1 .. MaxBytes  BY <1>1, <2>1
  <2>3. (bytesRx + 1) + Len(fifo) + Progress <= numbered + 1  BY <1>1, <1>2, <1>3
  <2>4. bytesRx' + Len(fifo') + Progress' <= numbered' /\ Len(fifo') <= Depth
    BY <1>1, <2>1, <2>3 DEF Progress
  <2>5. numbered' \in 0 .. MaxBytes /\ bytesRx' \in Nat /\ fifo' \in Seq(1 .. MaxBytes)
    BY <1>1, <2>1, <2>2
  <2> QED  BY <2>1, <2>2, <2>4, <2>5, PushPlace
<1>9. CASE NextPoint
  <2>1. fifo' = <<>> /\ \E m \in {"byte", "dma"} : SetRxMode(m)  BY <1>9 DEF NextPoint
  <2>2. fifo' \in Seq(1 .. MaxBytes) /\ Len(fifo') = 0  BY <2>1, EmptySeq
  <2>3. Len(fifo') \in 0 .. Len(fifo)  BY <1>2, <2>2
  <2> QED  BY <2>1, <2>2, <2>3, ModePlace
<1>10. CASE EndPoint
  <2>1. fifo' = fifo /\ SetRxMode(mode)  BY <1>10 DEF EndPoint
  <2>2. Len(fifo') \in 0 .. Len(fifo)  BY <1>2, <2>1
  <2> QED  BY <1>1, <2>1, <2>2, ModePlace
<1>11. CASE Pop \/ UNCHANGED vars
  <2>1. UNCHANGED <<buf, head, mode, dma, fifo, bytesRx, numbered, block,
                    stream, written, stray, sound>>
    BY <1>11 DEF Pop, vars, ring, history
  <2>2. Progress' = Progress /\ Frontier' = Frontier /\ Bytes' = Bytes
    BY <2>1 DEF Progress, Frontier, Bytes
  <2> QED  BY <2>1, <2>2 DEF PlaceInv, DataType, InStep
<1> QED
  BY <1>4, <1>5, <1>6, <1>7, <1>8, <1>9, <1>10, <1>11 DEF Next

\* A byte is read as it came in, unless the writer has been round the ring
\* since, a channel was started elsewhere than at head or a byte was pushed as
\* it ran (engine_on_rx_block, port_set_rx_mode, rb_pop).
THEOREM BytesAreInOrder == Spec => []InOrder
<1>1. IInv /\ PlaceInv => InOrder
  <2> SUFFICES ASSUME IInv, PlaceInv,
                      NEW p \in tail .. head - 1, p >= sound, ~Lapped(p)
               PROVE  InPlace(p)
    BY DEF InOrder
  <2>1. /\ head \in Nat /\ Frontier \in Nat /\ Frontier >= head /\ written \in Nat
        /\ \A k \in 1 .. head : Bytes[k] = stream[k]
    BY PlaceFacts
  <2>2. tail \in 0 .. head  BY DEF IInv, RingType
  <2>3. p \in 0 .. Frontier - 1 /\ p + Size >= written /\ p + 1 \in 1 .. head
    BY <2>1, <2>2 DEF Lapped
  <2>4. buf[p % Size] = Bytes[p + 1]  BY <2>3 DEF PlaceInv, Placed
  <2> QED  BY <2>1, <2>3, <2>4 DEF InPlace
<1> QED  BY InitInv, NextInv, PlaceStart, NextPlace, <1>1, PTL DEF Spec

\* Every variable of the ring, the channel and the history has its type.
THEOREM TypeIsRight == Spec => []TypeOK
<1>1. IInv /\ PlaceInv => TypeOK
  <2> SUFFICES ASSUME IInv, PlaceInv PROVE TypeOK  OBVIOUS
  <2>1. Progress \in Nat /\ Frontier \in Nat /\ Frontier >= head /\ head \in Nat
    BY PlaceFacts
  <2>2. DataType /\ RingType  BY DEF PlaceInv, IInv
  <2>3. Len(fifo) \in Nat  BY <2>2, LenProperties DEF DataType
  <2>4. bytesRx \in 0 .. numbered  BY <2>1, <2>2, <2>3 DEF DataType
  <2>5. written \in Nat /\ written >= Frontier  BY PlaceFacts
  <2>6. written >= head  BY <2>1, <2>5
  <2> QED  BY <2>2, <2>4, <2>6 DEF DataType, RingType, TypeOK
<1> QED  BY InitInv, NextInv, PlaceStart, NextPlace, <1>1, PTL DEF Spec

\* A push finds the slot of no byte that is still to be read.
LEMMA PushSpares ==
  ASSUME IInv, PlaceInv, NEW b, Store(b), NEW p \in tail .. head - 1
  PROVE  buf'[p % Size] = buf[p % Size]
<1>1. head \in Nat /\ tail \in 0 .. head /\ DOMAIN buf = 0 .. Size - 1
  BY DEF IInv, RingType, PlaceInv, DataType
<1>2. CASE IsFull(Count)  BY <1>2 DEF Store
<1>3. CASE ~IsFull(Count)
  <2>1. buf' = [buf EXCEPT ![head % Size] = b]  BY <1>3 DEF Store
  <2>2. p \in Nat /\ head > p /\ head - p < Size  BY <1>1, <1>3 DEF IsFull, Count
  <2>3. head % Size # p % Size  BY <1>1, <2>2, Residues
  <2>4. p % Size \in 0 .. Size - 1 /\ head % Size \in 0 .. Size - 1  BY <1>1, <2>2, DivMod
  <2> QED  BY <1>1, <2>1, <2>3, <2>4
<1> QED  BY <1>2, <1>3

\* Only the channel writes over what has not been read: a push never does, in
\* either mode, even when the channel has left more in the ring than it has
\* slots (rb_push).
THEOREM PushesLapNothing == Spec => OnlyDmaLaps
<1> DEFINE Spares == dma'.left >= dma.left => \A p \in tail .. head - 1 :
                       InPlace(p) => buf'[p % Size] = buf[p % Size]
<1>1. IInv /\ PlaceInv /\ [Next]_vars => [Spares]_vars
  <2> SUFFICES ASSUME IInv, PlaceInv, Next PROVE Spares  OBVIOUS
  <2>1. CASE OnUartRx
    <3>1. Store(Head(fifo))  BY <2>1 DEF OnUartRx, Push
    <3> QED  BY <3>1, PushSpares
  <2>2. CASE OnSynth
    <3>1. Store(numbered')  BY <2>2 DEF OnSynth, Push
    <3> QED  BY <3>1, PushSpares
  <2>3. CASE DmaTransfer
    <3>1. dma.left \in Nat  BY DEF IInv, RingType
    <3>2. dma'.left = dma.left - 1  BY <2>3 DEF DmaTransfer
    <3> QED  BY <3>1, <3>2
  <2>4. CASE Arrive \/ OnRxDma \/ Pop \/ NextPoint \/ EndPoint
    <3>1. buf' = buf
      BY <2>4 DEF Arrive, OnRxDma, Pop, NextPoint, EndPoint, SetRxMode
    <3> QED  BY <3>1
  <2> QED  BY <2>1, <2>2, <2>3, <2>4 DEF Next
<1> QED
  BY InitInv, NextInv, PlaceStart, NextPlace, <1>1, PTL DEF Spec, OnlyDmaLaps


\* What a step makes of the count of the bytes missed, from what it does to its
\* parts.
LEMMA MissedIs ==
  ASSUME NEW n \in Int, NEW c \in Int, NEW k \in Int, NEW g \in Int,
         numbered' = n, bytesRx' = c, Len(fifo') = k, Progress' = g
  PROVE  Missed' = n - c - k - g
BY DEF Missed

\* What a change of mode loses is what the channel had not announced and what
\* was taken out of the FIFO.
LEMMA ModeCounts ==
  ASSUME IInv, PlaceInv, Quiet, NEW m, SetRxMode(m),
         NEW k \in 0 .. Len(fifo), Len(fifo') = k
  PROVE  /\ head' = head /\ overflow' = overflow
         /\ Missed' = Missed \/ Missed' - Missed \in 1 .. Block - 1 + Depth
<1> DEFINE l == Len(fifo)
           g == Progress
<1>1. /\ numbered \in Nat /\ bytesRx \in Nat /\ l \in Nat /\ l <= Depth
  BY LenProperties DEF PlaceInv, DataType
<1>2. g \in 0 .. Block - 1
  <2>1. g \in 0 .. Block  BY PlaceFacts
  <2>2. mode = "dma" => g = Block - dma.left /\ dma.left > 0 /\ dma.left \in 0 .. Block
    BY DEF Quiet, Progress, IInv, RingType
  <2>3. mode # "dma" => g = 0  BY DEF Progress
  <2> HIDE DEF g
  <2> QED  BY <2>1, <2>2, <2>3
<1>3. /\ head' = head /\ overflow' = overflow /\ numbered' = numbered /\ bytesRx' = bytesRx
      /\ dma' = [at |-> 0, left |-> Block]
  BY DEF SetRxMode, ring
<1>4. Progress' = 0
  <2>1. dma'.left = Block  BY <1>3
  <2> QED  BY <2>1 DEF Progress
<1>5. Missed' = numbered - bytesRx - k - 0  BY <1>1, <1>3, <1>4, MissedIs
<1>6. Missed = numbered - bytesRx - l - g  BY DEF Missed
<1> DEFINE d == Missed'
<1>7. d = numbered - bytesRx - k - 0  BY <1>5
<1> HIDE DEF l, g, d
<1>8. k \in 0 .. l  BY DEF l
<1>9. d = Missed \/ d - Missed \in 1 .. Block - 1 + Depth
  BY <1>1, <1>2, <1>6, <1>7, <1>8
<1> QED  BY <1>3, <1>9 DEF d

\* Each byte is counted once, or lost at a full FIFO or a change of mode, and
\* what that loses is bounded (port_set_rx_mode, engine_on_rx_block).
THEOREM BytesAreCounted == Spec => BytesCounted
<1> DEFINE Counted == \/ Missed' = Missed
                      \/ /\ head' = head /\ overflow' = overflow
                         /\ Missed' - Missed \in 1 .. Block - 1 + Depth
<1>1. IInv /\ PlaceInv /\ [Next]_vars => [Counted]_vars
  <2> SUFFICES ASSUME IInv, PlaceInv, Next PROVE Counted  OBVIOUS
  <2> DEFINE l == Len(fifo)
             g == Progress
  <2>1. /\ numbered \in Nat /\ bytesRx \in Nat /\ l \in Nat /\ l <= Depth
        /\ fifo \in Seq(1 .. MaxBytes)
    BY LenProperties DEF PlaceInv, DataType
  <2>2. g \in 0 .. Block /\ dma \in [at : 0 .. Size - 1, left : 0 .. Block]
    BY PlaceFacts
  <2>3. Missed = numbered - bytesRx - l - g  BY DEF Missed
  <2>4. CASE Arrive
    <3>1. /\ head' = head /\ overflow' = overflow /\ numbered' = numbered + 1
          /\ bytesRx' = bytesRx /\ UNCHANGED <<mode, dma>> /\ numbered < MaxBytes
          /\ fifo' = IF l < Depth THEN Append(fifo, numbered') ELSE fifo
      BY <2>4 DEF Arrive, ring
    <3>2. Progress' = g  BY <3>1 DEF Progress
    <3>3. CASE l < Depth
      <4>1. fifo' = Append(fifo, numbered + 1) /\ numbered + 1 \in 1 .. MaxBytes
        BY <2>1, <3>1, <3>3
      <4>2. Len(fifo') = l + 1  BY <2>1, <4>1, AppendProperties
      <4> HIDE DEF l, g
      <4>3. Missed' = (numbered + 1) - bytesRx - (l + 1) - g
        BY <2>1, <2>2, <3>1, <3>2, <4>2, MissedIs
      <4> QED  BY <2>1, <2>2, <2>3, <4>3
    <3>4. CASE ~(l < Depth)
      <4>1. Len(fifo') = l  BY <3>1, <3>4
      <4> HIDE DEF l, g
      <4>2. Missed' = (numbered + 1) - bytesRx - l - g
        BY <2>1, <2>2, <3>1, <3>2, <4>1, MissedIs
      <4>3. Missed' - Missed = 1  BY <2>1, <2>2, <2>3, <4>2
      <4>4. 1 \in 1 .. Block - 1 + Depth  OBVIOUS
      <4> QED  BY <3>1, <4>3, <4>4
    <3> QED  BY <3>3, <3>4
  <2>5. CASE DmaTransfer
    <3>1. /\ mode = "dma" /\ dma.left > 0 /\ fifo # <<>> /\ fifo' = Tail(fifo)
          /\ dma' = [at |-> (dma.at + 1) % Size, left |-> dma.left - 1]
          /\ mode' = mode /\ numbered' = numbered /\ bytesRx' = bytesRx
      BY <2>5 DEF DmaTransfer
    <3>2. Len(fifo') = l - 1  BY <2>1, <3>1, HeadTailProperties
    <3>3. g = Block - dma.left /\ Progress' = Block - (dma.left - 1)  BY <3>1 DEF Progress
    <3>4. Progress' = g + 1  BY <2>2, <3>3
    <3> HIDE DEF l, g
    <3>5. Missed' = numbered - bytesRx - (l - 1) - (g + 1)
      <4>1. numbered \in Int /\ bytesRx \in Int /\ l - 1 \in Int /\ g + 1 \in Int
        BY <2>1, <2>2
      <4>2. numbered' = numbered /\ bytesRx' = bytesRx /\ Len(fifo') = l - 1 /\ Progress' = g + 1
        BY <3>1, <3>2, <3>4
      <4> QED  BY <4>1, <4>2, MissedIs, Zenon
    <3> QED  BY <2>1, <2>2, <2>3, <3>5
  <2>6. CASE OnRxDma
    <3>1. /\ mode = "dma" /\ dma.left = 0 /\ dma' = [dma EXCEPT !.left = Block]
          /\ mode' = mode /\ numbered' = numbered /\ bytesRx' = bytesRx + Block /\ fifo' = fifo
      BY <2>6 DEF OnRxDma, Rearm
    <3>2. dma'.left = Block  BY <2>2, <3>1
    <3>3. g = Block /\ Progress' = 0  BY <3>1, <3>2 DEF Progress
    <3>4. Len(fifo') = l  BY <3>1
    <3> HIDE DEF l, g
    <3>5. Missed' = numbered - (bytesRx + Block) - l - 0
      BY <2>1, <3>1, <3>3, <3>4, MissedIs
    <3> QED  BY <2>1, <2>3, <3>3, <3>5
  <2>7. CASE OnUartRx
    <3>1. /\ fifo # <<>> /\ fifo' = Tail(fifo) /\ bytesRx' = bytesRx + 1
          /\ UNCHANGED <<mode, dma, numbered>>
      BY <2>7 DEF OnUartRx, Push
    <3>2. Len(fifo') = l - 1 /\ Progress' = g
      BY <2>1, <3>1, HeadTailProperties DEF Progress
    <3> HIDE DEF l, g
    <3>3. Missed' = numbered - (bytesRx + 1) - (l - 1) - g
      <4>1. numbered \in Int /\ bytesRx + 1 \in Int /\ l - 1 \in Int /\ g \in Int
        BY <2>1, <2>2
      <4>2. /\ numbered' = numbered /\ bytesRx' = bytesRx + 1
            /\ Len(fifo') = l - 1 /\ Progress' = g
        BY <3>1, <3>2
      <4> QED  BY <4>1, <4>2, MissedIs, Zenon
    <3> QED  BY <2>1, <2>2, <2>3, <3>3
  <2>8. CASE OnSynth
    <3>1. /\ numbered' = numbered + 1 /\ bytesRx' = bytesRx + 1
          /\ UNCHANGED <<mode, dma, fifo>>
      BY <2>8 DEF OnSynth, Push
    <3>2. Len(fifo') = l /\ Progress' = g  BY <3>1 DEF Progress
    <3> HIDE DEF l, g
    <3>3. Missed' = (numbered + 1) - (bytesRx + 1) - l - g
      BY <2>1, <2>2, <3>1, <3>2, MissedIs
    <3> QED  BY <2>1, <2>2, <2>3, <3>3
  <2>9. CASE Pop
    <3>1. UNCHANGED <<mode, dma, fifo, bytesRx, numbered>>  BY <2>9 DEF Pop
    <3> QED  BY <3>1 DEF Missed, Progress
  <2>10. CASE NextPoint
    <3>1. Quiet /\ fifo' = <<>> /\ \E m \in {"byte", "dma"} : SetRxMode(m)
      BY <2>10 DEF NextPoint
    <3>2. 0 \in 0 .. Len(fifo) /\ Len(fifo') = 0  BY <2>1, <3>1, EmptySeq
    <3> QED  BY <3>1, <3>2, ModeCounts
  <2>11. CASE EndPoint
    <3>1. Quiet /\ fifo' = fifo /\ SetRxMode(mode)  BY <2>11 DEF EndPoint
    <3>2. Len(fifo) \in 0 .. Len(fifo) /\ Len(fifo') = Len(fifo)  BY <2>1, <3>1
    <3> QED  BY <3>1, <3>2, ModeCounts
  <2> QED
    BY <2>4, <2>5, <2>6, <2>7, <2>8, <2>9, <2>10, <2>11 DEF Next
<1> QED
  BY InitInv, NextInv, PlaceStart, NextPlace, <1>1, PTL DEF Spec, BytesCounted

================================================================================
