-------------------------------- MODULE Bridge ---------------------------------
(***************************************************************************)
(* The protocol bridge end to end: the transmit side (Line), the UART in   *)
(* loopback, the receive interrupt, the protocol task with its verifier    *)
(* (Receiver) and the requests the CAN side makes.                         *)
(*                                                                         *)
(* Priorities are those of main.c: receive interrupt, byte tick, CAN slot, *)
(* protocol task, sensor task, sweep task.  Both tasks run on the kernel   *)
(* tick, the protocol task first, and take no time; interrupts come        *)
(* between any two of their steps.                                         *)
(***************************************************************************)
EXTENDS Line, Receiver, SequencesExt

CONSTANTS
  RxRingBytes,    \* RING_BYTES, of the receive ring
  Requests,       \* idle slots may raise requests
  HandBacks       \* how often the sweep hands the line back, at most

\* Bursts end before the next one is due, and the receive ring holds what comes
\* between two runs of the protocol task.
ASSUME BridgeAssumption ==
  /\ Frame = FrameLen
  /\ Burst = BurstBytes
  /\ Period > Slots
  /\ RxRingBytes \in Nat /\ KernelTick + 2 * ByteTime < ByteTime * RxRingBytes
  /\ Requests \in BOOLEAN
  /\ HandBacks \in Nat

\* What the sweep, clearing the verifier in the middle of a frame, counts on: a
\* header is one, what remains of a frame is not counted as a burst, and what is
\* on its way of a burst is not one with the burst's first bytes.
ASSUME HandBackAssumption ==
  /\ HeaderOnce
  /\ Half > 1 /\ 5 * (Half - 1) + PayloadBytes <= BurstBytes
  /\ KernelTick + 3 * ByteTime <= ByteTime * (BurstBytes - Half)

VARIABLES
  air,            \* bytes written to the UART and not yet received
  rxRing,         \* bytes in the receive ring
  rxLost,         \* the receive ring was full when a byte came
  counter,        \* counter byte of the frame being sent
  begun,          \* parity of the bursts begun, as rx.whole of those reassembled
  proto,          \* where the protocol task is
  rx,             \* s_verifier
  pending,        \* s_req_pending
  owed,           \* s_requests - s_responses - s_response_failures
  failed,         \* s_response_failures is not zero
  waited,         \* history: times the task woke since the request came
  handed          \* how often the sweep has handed the line back

uart == <<air, rxRing, rxLost, counter>>
asking == <<pending, owed, failed, waited>>
allVars == <<vars, uart, begun, proto, rx, asking, handed>>

\* Every variable has its type.
BridgeTypeOK ==
  /\ TypeOK
  /\ air \in BoundedSeq(ByteRange, 2)
  /\ Len(rxRing) <= RxRingBytes
  /\ rxLost \in BOOLEAN /\ begun \in BOOLEAN
  /\ counter \in ByteRange
  /\ proto \in {"delayed", "drain", "answer", "clear", "ran"}
  /\ rx.state \in {"sync0", "sync1", "collect"}
  /\ rx.bridge \in 0 .. BurstBytes - 1
  /\ Len(rx.buf) < FrameLen
  /\ pending \in BOOLEAN /\ failed \in BOOLEAN
  /\ owed \in -1 .. 1
  /\ waited \in Nat /\ handed \in 0 .. HandBacks

(***************************************************************************)
(* engine_init, the primed sensor ring, and both timers just started.      *)
(***************************************************************************)
BridgeInit ==
  /\ tick \in Phases
  /\ slot = SlotTime
  /\ wake = KernelTick
  /\ tp = [active |-> FALSE, slot |-> 0, since |-> Period - Slots]
  /\ pushing = 0 /\ bridge = 0 /\ lost = FALSE
  /\ sensor = (SensorRing \div Frame) * Frame /\ filling = 0
  /\ txRemaining = 0 /\ txFromBridge = FALSE
  /\ ticks = 0
  /\ trace = [active |-> FALSE, len |-> 0, top |-> 0]
  /\ done = [ready |-> FALSE, top |-> 0]
  /\ wire = "sensor" /\ sent = 0 /\ age = 0 /\ top = 0 /\ bursts = 0
  /\ air = <<>> /\ rxRing = <<>> /\ rxLost = FALSE /\ counter = 0
  /\ begun = FALSE
  /\ proto = "delayed"
  /\ rx = RxInit
  /\ pending = FALSE /\ owed = 0 /\ failed = FALSE /\ waited = 0
  /\ handed = 0

(***************************************************************************)
(* Interrupts.                                                             *)
(***************************************************************************)

\* Mutant: the slot does not look whether a request is being answered.
MayAskAnyTime == Requests

\* An idle slot may ask, if the last request has been dealt with.
MayAsk == Requests /\ ~pending

\* engine_on_can_slot.  The generator that times the requests is a choice.
Slot ==
  /\ CanSlot
  /\ begun' = IF Starts THEN ~begun ELSE begun
  /\ \/ UNCHANGED asking
     \/ /\ ~tp.active /\ ~Starts
        /\ MayAsk
        /\ pending' = TRUE
        /\ owed' = owed + 1
        /\ UNCHANGED <<failed, waited>>
  /\ UNCHANGED <<uart, proto, rx>>

Push == CanPush /\ UNCHANGED <<uart, begun, proto, rx, asking>>

\* engine_on_byte_tick: what the arbiter picks goes to the UART.  The UART
\* shifts as fast as the tick writes, so at most two bytes are in it.
Tick ==
  /\ Len(air) < 2
  /\ ByteTick
  /\ CASE wire' = "bridge" ->
            air' = Append(air, BridgeByteAt(sent)) /\ UNCHANGED counter
       [] wire' = "sensor" ->
            /\ air' = Append(air, FrameOf(counter)[Frame - txRemaining'])
            /\ counter' = IF txRemaining' = 0 THEN (counter + 1) % Bytes ELSE counter
       [] wire' = "idle" -> UNCHANGED <<air, counter>>
  /\ UNCHANGED <<rxRing, rxLost, begun, proto, rx, asking>>

\* engine_on_rx_byte, above everything else.
RxIsr ==
  /\ air # <<>>
  /\ air' = Tail(air)
  /\ IF Len(rxRing) < RxRingBytes
       THEN rxRing' = Append(rxRing, Head(air)) /\ UNCHANGED rxLost
       ELSE rxLost' = TRUE /\ UNCHANGED rxRing
  /\ UNCHANGED <<vars, counter, begun, proto, rx, asking>>

(***************************************************************************)
(* The protocol task: drain the ring, then answer.                         *)
(***************************************************************************)
ProtoWakes ==
  /\ proto = "delayed" /\ wake = 0 /\ pushing = 0
  /\ proto' = "drain"
  /\ waited' = IF pending THEN waited + 1 ELSE 0
  /\ UNCHANGED <<vars, uart, begun, rx, pending, owed, failed>>

ProtoByte ==
  /\ proto = "drain" /\ pushing = 0
  /\ rxRing # <<>>
  /\ rx' = RxByte(rx, Head(rxRing))
  /\ rxRing' = Tail(rxRing)
  /\ UNCHANGED <<vars, air, rxLost, counter, begun, proto, asking>>

\* Mutant: no answer once a request has failed.
ProtoDrainedGivesUp ==
  /\ proto = "drain" /\ pushing = 0
  /\ rxRing = <<>>
  /\ proto' = IF pending /\ ~failed THEN "answer" ELSE "ran"
  /\ UNCHANGED <<vars, uart, begun, rx, asking>>

ProtoDrained ==
  /\ proto = "drain" /\ pushing = 0
  /\ rxRing = <<>>
  /\ proto' = IF pending THEN "answer" ELSE "ran"
  /\ UNCHANGED <<vars, uart, begun, rx, asking>>

\* A snapshot there is, whose checksum and payload are right.
Answerable ==
  /\ rx.snapshot # <<>>
  /\ rx.snapshot = FrameOf(rx.snapshot[3])

\* answer_request counts the answer, good or failed...
ProtoAnswers ==
  /\ proto = "answer" /\ pushing = 0
  /\ owed' = owed - 1
  /\ failed' = (failed \/ ~Answerable)
  /\ proto' = "clear"
  /\ UNCHANGED <<vars, uart, begun, rx, pending, waited>>

\* ... and only then lets the slot ask again.
ProtoClears ==
  /\ proto = "clear" /\ pushing = 0
  /\ pending' = FALSE /\ waited' = 0
  /\ proto' = "ran"
  /\ UNCHANGED <<vars, uart, begun, rx, owed, failed>>

(***************************************************************************)
(* The sensor task, and time.                                              *)
(***************************************************************************)
SensorWakes ==
  /\ proto = "ran"
  /\ SensorTask
  /\ proto' = "delayed"
  /\ UNCHANGED <<uart, begun, rx, asking>>

SensorFills == SensorPush /\ UNCHANGED <<uart, begun, proto, rx, asking>>

Time == Advance /\ UNCHANGED <<uart, begun, proto, rx, asking>>

(***************************************************************************)
(* sweep_task handing the line back: it waits for engine_between_bursts    *)
(* and calls engine_reset_counters.  The lowest priority of all: nothing   *)
(* else is in the middle of anything.  s_req_pending is not cleared.       *)
(***************************************************************************)
BetweenBursts == ~tp.active /\ rx.bridge = 0 /\ bridge = 0

SweepHandsBack ==
  /\ handed < HandBacks
  /\ handed' = handed + 1
  /\ pushing = 0 /\ filling = 0 /\ proto = "delayed" /\ wake > 0
  /\ BetweenBursts
  /\ rx' = RxInit
  /\ rxLost' = FALSE /\ lost' = FALSE
  /\ begun' = FALSE
  /\ owed' = 0 /\ failed' = FALSE
  /\ UNCHANGED <<timers, tp, pushing, bridge, sensor, filling, arbiter, tracing, wire, sent,
                 history, air, rxRing, counter, proto, pending, waited>>

Steps ==
  \/ Slot
  \/ Push
  \/ Tick
  \/ RxIsr
  \/ ProtoWakes
  \/ ProtoByte
  \/ ProtoDrained
  \/ ProtoAnswers
  \/ ProtoClears
  \/ SensorWakes
  \/ SensorFills
  \/ Time

Machine == Steps /\ UNCHANGED handed

BridgeNext == Machine \/ SweepHandsBack

BridgeSpec == BridgeInit /\ [][BridgeNext]_allVars

(***************************************************************************)
(* What must hold.                                                         *)
(***************************************************************************)

\* On a line that loses nothing the verifier finds nothing wrong: whatever the
\* phases of the interrupts and of the tasks, frames and bursts come out of
\* the receive ring as they went in, whole and in order (README.md, frame.h).
\* Counters cleared by the sweep are another matter: see the README.
NoFaults == handed = 0 => Clean(rx) /\ ~rxLost /\ ~lost

\* Every burst has been reassembled by the time the next one begins.
Reassembled == Starts /\ slot = 0 => rx.whole = begun

\* A request is counted once as answered or failed, and there is never more
\* than one (engine.c:66-74, 364-397); once the counters were zeroed, which
\* leaves s_req_pending, the answers run ahead of the requests by at most one.
LedgerBalanced ==
  LET open == IF pending /\ proto # "clear" THEN 1 ELSE 0
  IN  owed \in IF handed = 0 THEN {open} ELSE {open - 1, open}

\* The snapshot a request is answered from passes answer_request's checks, so
\* that none fails once a frame has been heard, and is one of the last frames
\* sent: the one before the frame in progress, or as many older as wait in the
\* receive ring and the UART (engine.c:364-391).
SnapshotFresh ==
  rx.snapshot # <<>> =>
    /\ Answerable
    /\ (counter - rx.snapshot[3]) % Bytes
         <= 1 + (Len(rxRing) + Len(air) + Len(rx.buf)) \div Frame

\* A request is dealt with by the next wake-up of the protocol task, or the
\* one that is on: "1 ms poll + jitter" (scripts/analyze.py:175).
AnsweredByNextWake == waited <= 1

\* The table of frame_crc_init stands for the division by the polynomial: the
\* checksum of whatever was gathered for a frame is the remainder that dividing
\* bit by bit leaves (frame.c:18-40).
TableDivides ==
  Len(rx.buf) = FrameLen - 1 =>
    LET s == SubSeq(rx.buf, 1, FrameLen - 2)
        crc == Remainders(s)[Len(s)]
    IN  Checksum(s) = <<crc % Bytes, crc \div Bytes>>
================================================================================
