-------------------------------- MODULE Receiver -------------------------------
(***************************************************************************)
(* The sensor frame and the verifier that tells the two streams apart      *)
(* (firmware/src/engine/frame.c, frame.h), as operators on its state.      *)
(*                                                                         *)
(* Bytes are numbers of Bits (8) bits; payload and bridge bytes stay below *)
(* Half (128), the first header byte does not.  Error counters are kept as *)
(* "not zero".                                                             *)
(***************************************************************************)
EXTENDS Integers, Sequences

CONSTANTS
  Bits,           \* bits of a byte
  Poly,           \* generator of the checksum, twice as wide as a byte
  Sync0, Sync1,   \* the two header bytes
  PayloadBytes,   \* FRAME_PAYLOAD_BYTES
  BurstBytes      \* CAN_BURST_BYTES

\* Two to the n.
Power[n \in 0 .. 2 * Bits] == IF n = 0 THEN 1 ELSE 2 * Power[n - 1]

\* 128: payload and bridge bytes are below it.
Half == Power[Bits - 1]

Bytes == 2 * Half
Words == Bytes * Bytes

ByteRange == 0 .. Bytes - 1
WordRange == 0 .. Words - 1

ASSUME ReceiverAssumption ==
  /\ Bits \in Nat \ {0}
  /\ Poly \in WordRange \ {0}
  /\ Sync0 \in Half .. Bytes - 1
  /\ Sync1 \in ByteRange \ {Sync0}
  /\ PayloadBytes \in Nat \ {0}
  /\ BurstBytes \in Nat \ {0} /\ BurstBytes % Half = 0

\* FRAME_LEN: two header bytes, the counter, the payload, two checksum bytes.
FrameLen == 3 + PayloadBytes + 2

(***************************************************************************)
(* The checksum, driven by a table: frame_crc_init, frame_crc16.           *)
(***************************************************************************)

WordPairs == WordRange \X WordRange

\* From the exclusive or of the low n bits of two words to that of n + 1.
BitMore(xor) ==
  [p \in WordPairs |-> 2 * xor[<<p[1] \div 2, p[2] \div 2>>] + ((p[1] + p[2]) % 2)]

Xors[n \in 0 .. 2 * Bits] ==
  IF n = 0 THEN [p \in WordPairs |-> 0] ELSE BitMore(Xors[n - 1])

XorTable ==
  [a \in WordRange |-> [b \in WordRange |-> Xors[2 * Bits][<<a, b>>]]]

Xor(a, b) == XorTable[a][b]

\* Shift a word by one bit, and divide.
ShiftIn(crc) ==
  IF crc >= Words \div 2 THEN Xor((2 * crc) % Words, Poly) ELSE 2 * crc

\* ... by n bits.
Shifts(crc) ==
  LET s[n \in 0 .. Bits] == IF n = 0 THEN crc ELSE ShiftIn(s[n - 1]) IN s

\* frame_crc_init.
CrcTable == [b \in ByteRange |-> Shifts(b * Bytes)[Bits]]

\* Mutant: a byte's place in the table is taken from the low byte.
CrcByteLow(crc, b) == Xor((crc * Bytes) % Words, CrcTable[Xor(crc % Bytes, b)])

CrcByte(crc, b) == Xor((crc * Bytes) % Words, CrcTable[Xor(crc \div Bytes, b)])

\* frame_crc16, of each beginning of s.
Crcs(s) ==
  LET crc[n \in 0 .. Len(s)] ==
        IF n = 0 THEN Words - 1 ELSE CrcByte(crc[n - 1], s[n])
  IN  crc

\* The low byte goes first.
Checksum(s) == LET crc == Crcs(s)[Len(s)] IN <<crc % Bytes, crc \div Bytes>>

\* What the table stands for: the remainder, bit by bit.
DivideByte(crc, b) == Shifts(Xor(crc, b * Bytes))[Bits]

Remainders(s) ==
  LET crc[n \in 0 .. Len(s)] ==
        IF n = 0 THEN Words - 1 ELSE DivideByte(crc[n - 1], s[n])
  IN  crc

(***************************************************************************)
(* frame_build_sensor.                                                     *)
(***************************************************************************)
PayloadByte(counter, i) == (counter + i) % Half

Frames ==
  [counter \in ByteRange |->
     LET body == <<Sync0, Sync1, counter>>
                 \o [i \in 1 .. PayloadBytes |-> PayloadByte(counter, i - 1)]
     IN  body \o Checksum(body)]

FrameOf(counter) == Frames[counter]

\* Mutant: bridge bytes take the whole byte.
BridgeByteAtUnmasked(pos) == pos % Bytes

\* bridge_byte_at.
BridgeByteAt(pos) == pos % Half

\* A header nowhere but at the start of a frame: not further on in one, nor
\* where one ends and a burst begins.
HeaderOnce ==
  /\ \A c \in ByteRange, i \in 2 .. FrameLen - 1 :
       ~(FrameOf(c)[i] = Sync0 /\ FrameOf(c)[i + 1] = Sync1)
  /\ Sync1 # BridgeByteAt(0)

(***************************************************************************)
(* frame_rx_t.                                                             *)
(***************************************************************************)
RxInit ==
  [state |-> "sync0", buf |-> <<>>, have |-> FALSE, last |-> 0,
   bridge |-> 0, whole |-> FALSE, snapshot |-> <<>>,
   crc |-> FALSE, gaps |-> FALSE, resyncs |-> FALSE, payload |-> FALSE,
   isotp |-> FALSE]

\* Mutant: a burst is over one byte late.
BridgeByteLate(rx, b) ==
  IF b # BridgeByteAt(rx.bridge)
    THEN [rx EXCEPT !.isotp = TRUE,
                    !.bridge = (@ \div Half) * Half + ((b + 1) % Half)]
  ELSE IF rx.bridge >= BurstBytes
    THEN [rx EXCEPT !.bridge = 0, !.whole = ~@]
  ELSE [rx EXCEPT !.bridge = @ + 1]

\* A byte outside a frame is checked against the count; a whole burst of them
\* is a burst reassembled.
BridgeByte(rx, b) ==
  IF b # BridgeByteAt(rx.bridge)
    THEN [rx EXCEPT !.isotp = TRUE,
                    !.bridge = (@ \div Half) * Half + ((b + 1) % Half)]
  ELSE IF rx.bridge + 1 >= BurstBytes
    THEN [rx EXCEPT !.bridge = 0, !.whole = ~@]
  ELSE [rx EXCEPT !.bridge = @ + 1]

\* Mutant: the snapshot is of the first good frame.
CheckFrameFirst(rx) ==
  [rx EXCEPT !.have = TRUE, !.last = rx.buf[3],
             !.snapshot = IF rx.have THEN @ ELSE rx.buf]

\* Mutant: after a gap the counter is not taken over.
GapKeepsLast(rx, counter) ==
  IF rx.have /\ counter # (rx.last + 1) % Bytes
  THEN [rx EXCEPT !.gaps = TRUE]
  ELSE [rx EXCEPT !.have = TRUE, !.last = counter]

\* The counter of a good frame is the next one, or there is a gap.
TakeCounter(rx, counter) ==
  [rx EXCEPT !.gaps = @ \/ (rx.have /\ counter # (rx.last + 1) % Bytes),
             !.have = TRUE, !.last = counter]

\* check_frame, of a full buffer.
CheckFrame(rx) ==
  LET body == SubSeq(rx.buf, 1, FrameLen - 2)
      counter == rx.buf[3]
      wrong == \E i \in 1 .. PayloadBytes : rx.buf[3 + i] # PayloadByte(counter, i - 1)
  IN
  IF Checksum(body) # SubSeq(rx.buf, FrameLen - 1, FrameLen)
    THEN [rx EXCEPT !.crc = TRUE, !.resyncs = TRUE]
    ELSE [TakeCounter(rx, counter) EXCEPT !.payload = @ \/ wrong,
                                          !.snapshot = rx.buf]

\* Mutant: half a burst is not worth an error.
CompleteFrameQuiet(rx) ==
  [CheckFrame([rx EXCEPT !.bridge = 0]) EXCEPT !.state = "sync0", !.buf = <<>>]
\* Mutant: the count goes on where it was.
CompleteFrameOn(rx) ==
  [CheckFrame([rx EXCEPT !.isotp = @ \/ rx.bridge # 0])
     EXCEPT !.state = "sync0", !.buf = <<>>]

\* A frame that completes part way through a burst cut the burst in half.
CompleteFrame(rx) ==
  [CheckFrame([rx EXCEPT !.isotp = @ \/ rx.bridge # 0, !.bridge = 0])
     EXCEPT !.state = "sync0", !.buf = <<>>]

RxByte(rx, b) ==
  CASE rx.state = "sync0" ->
         IF b = Sync0 THEN [rx EXCEPT !.state = "sync1", !.buf = <<b>>]
                      ELSE BridgeByte(rx, b)
    [] rx.state = "sync1" ->
         IF b = Sync1 THEN [rx EXCEPT !.state = "collect", !.buf = Append(@, b)]
         ELSE IF b = Sync0 THEN rx
         ELSE BridgeByte([rx EXCEPT !.resyncs = TRUE, !.state = "sync0", !.buf = <<>>], b)
    [] rx.state = "collect" ->
         LET more == [rx EXCEPT !.buf = Append(@, b)] IN
         IF Len(more.buf) < FrameLen THEN more ELSE CompleteFrame(more)

\* No fault has been counted.
Clean(rx) == ~(rx.crc \/ rx.gaps \/ rx.resyncs \/ rx.payload \/ rx.isotp)
================================================================================
