--------------------------------- MODULE Line ----------------------------------
(***************************************************************************)
(* The transmit side of the bridge in time: the CAN slot interrupt that    *)
(* delivers ISO-TP bursts into the bridge ring, the sensor task that keeps *)
(* the sensor ring full, and the byte tick that gives the line to one of   *)
(* the two streams (firmware/src/engine/engine.c, isotp.c).                *)
(*                                                                         *)
(* Time is counted in units of which ByteTime make one byte time, SlotTime *)
(* one CAN slot and KernelTick one FreeRTOS tick.  A timer that has run    *)
(* out must be served before time goes on.  Handlers take no time, but the *)
(* byte tick preempts the slot interrupt between any two of its pushes.    *)
(*                                                                         *)
(* Rings are FIFO queues (module ByteRing), so only the number of bytes in *)
(* them matters here: the bridge stream is a count of bytes.  The request  *)
(* an idle slot may raise is not modelled here; it touches nothing below.  *)
(***************************************************************************)
EXTENDS Integers

CONSTANTS
  ByteTime, SlotTime, KernelTick,
  Frame,          \* SENSOR_FRAME_BYTES
  SensorRing,     \* bytes of the sensor ring
  BridgeRing,     \* RING_BYTES
  Payload,        \* CAN_FRAME_PAYLOAD
  DataFrames,     \* ISOTP_DATA_FRAMES
  BlockSize,      \* ISOTP_BLOCK_SIZE
  Period,         \* CAN_BURST_PERIOD_SLOTS
  TraceEvery,     \* TRACE_TICK_DIVISOR
  TraceSamples,   \* BURST_TRACE_SAMPLES
  Endless,        \* bursts go on for ever
  MaxBursts,      \* bound: bursts that are followed when they do not
  Phases          \* bound: initial phases of the byte tick

ASSUME LineAssumption ==
  /\ {ByteTime, SlotTime, KernelTick, Frame, Payload, DataFrames, BlockSize,
      Period, TraceEvery, TraceSamples} \subseteq Nat \ {0}
  /\ DataFrames % BlockSize = 0
  /\ SensorRing \in Nat /\ SensorRing >= 2 * Frame
  /\ BridgeRing \in Nat
  /\ Endless \in BOOLEAN
  /\ MaxBursts \in Nat \ {0}
  /\ Phases \subseteq 0 .. ByteTime - 1

\* CAN_BURST_BYTES and ISOTP_FRAMES_TOTAL: First Frame, a Flow Control and
\* BlockSize Consecutive Frames per block, closing ACK, end.
Burst == DataFrames * Payload
Slots == DataFrames + DataFrames \div BlockSize + 3

\* The rates of config.h: a CAN frame lasts the UART longer than the two slots
\* to the next one; a burst and the sensor frame it waits for are through a
\* kernel tick before the next burst, and its trace is taken before that; the
\* sensor frames that fit into the ring, but for two, last for a kernel tick;
\* the bridge ring holds a burst.
ASSUME RateAssumption ==
  /\ 2 * SlotTime < ByteTime * Payload
  /\ ByteTime * (Burst + Frame + 2) + KernelTick <= SlotTime * Period
  /\ ByteTime * (TraceEvery * (TraceSamples + 1)) < SlotTime * (Slots + Period - 1)
  /\ KernelTick <= ByteTime * (Frame * (SensorRing \div Frame - 2))
  /\ Burst <= BridgeRing

VARIABLES
  tick,           \* time to the next byte tick
  slot,           \* time to the next CAN slot
  wake,           \* time to the next kernel tick, on which the sensor task runs
  tp,             \* isotp_t: active, slot and since_burst
  pushing,        \* bytes of a Consecutive Frame that the slot has yet to push
  bridge,         \* bytes in the bridge ring
  lost,           \* a push into the bridge ring found it full
  sensor,         \* bytes in the sensor ring
  filling,        \* bytes of a built frame that the sensor task has yet to push
  txRemaining,    \* s_tx_remaining
  txFromBridge,   \* s_tx_from_bridge
  ticks,          \* s_tick_count
  trace,          \* s_trace_active, s_trace_fill_len, highest sample in s_trace_fill
  done,           \* highest sample in s_trace_done, and whether there is one
  wire,           \* what the last byte tick put on the line
  sent,           \* history: bridge bytes sent since the last whole burst
  age,            \* history: slots since the current burst began
  top,            \* history: highest occupancy since the current burst began
  bursts          \* history: bursts begun, up to MaxBursts

timers == <<tick, slot, wake>>
arbiter == <<txRemaining, txFromBridge>>
tracing == <<ticks, trace, done>>
history == <<age, top, bursts>>
vars == <<timers, tp, pushing, bridge, lost, sensor, filling, arbiter, tracing, wire, sent, history>>

(***************************************************************************)
(* Types.                                                                  *)
(***************************************************************************)

\* Every variable has its type.
TypeOK ==
  /\ tick \in 0 .. ByteTime /\ slot \in 0 .. SlotTime /\ wake \in 0 .. KernelTick
  /\ tp \in [active : BOOLEAN, slot : 0 .. Slots, since : 0 .. Period]
  /\ pushing \in 0 .. Payload
  /\ bridge \in 0 .. BridgeRing
  /\ lost \in BOOLEAN
  /\ sensor \in 0 .. SensorRing
  /\ filling \in 0 .. Frame
  /\ txRemaining \in 0 .. Frame
  /\ txFromBridge \in BOOLEAN
  /\ ticks \in 0 .. TraceEvery - 1
  /\ trace \in [active : BOOLEAN, len : 0 .. TraceSamples, top : 0 .. BridgeRing]
  /\ done \in [ready : BOOLEAN, top : 0 .. BridgeRing]
  /\ wire \in {"bridge", "sensor", "idle"}
  /\ sent \in 0 .. Burst - 1
  /\ age \in 0 .. Period + Slots
  /\ top \in 0 .. BridgeRing
  /\ bursts \in 0 .. MaxBursts

(***************************************************************************)
(* Steady state just before a burst.  The two PWM slices are started one   *)
(* after the other and their periods have no common divisor that matters,  *)
(* so over the bursts every phase between them occurs, and the frame on    *)
(* the line is at any of its bytes.                                        *)
(***************************************************************************)
Init ==
  /\ tick \in Phases
  /\ slot = 0
  /\ wake = KernelTick
  /\ tp = [active |-> FALSE, slot |-> 0, since |-> Period - 1]
  /\ pushing = 0
  /\ bridge = 0
  /\ lost = FALSE
  /\ txRemaining \in 0 .. Frame - 1
  /\ sensor = txRemaining + (SensorRing \div Frame - 1) * Frame
  /\ filling = 0
  /\ txFromBridge = FALSE
  /\ ticks = 0
  /\ trace = [active |-> FALSE, len |-> 0, top |-> 0]
  /\ done = [ready |-> FALSE, top |-> 0]
  /\ wire = "sensor"
  /\ sent = 0
  /\ age = 0
  /\ top = 0
  /\ bursts = 0

(***************************************************************************)
(* The CAN slot interrupt: isotp_slot, then the pushes.                    *)
(***************************************************************************)

\* Mutant: no Flow Control frame between the blocks.
KindNoFlow(s) ==
  IF s = 0 \/ s >= Slots - 2 THEN "protocol" ELSE "consecutive"

\* What slot s of a burst carries.
Kind(s) ==
  IF s = 0 \/ s >= Slots - 2 \/ (s - 1) % (1 + BlockSize) = 0
    THEN "protocol"     \* First Frame, ACK, end, Flow Control
    ELSE "consecutive"

\* isotp_slot begins a burst in this slot.
Starts == ~tp.active /\ tp.since + 1 >= Period

CanSlot ==
  /\ slot = 0
  /\ pushing = 0
  /\ Starts => Endless \/ bursts < MaxBursts
  /\ slot' = SlotTime
  /\ IF ~tp.active /\ ~Starts
       THEN /\ tp' = [tp EXCEPT !.since = @ + 1]
            /\ UNCHANGED <<pushing, trace, top, bursts>>
            /\ age' = age + 1
       ELSE LET s == IF Starts THEN 0 ELSE tp.slot IN
            /\ tp' = [active |-> s + 1 < Slots,
                      slot   |-> s + 1,
                      since  |-> IF Starts THEN 0 ELSE tp.since]
            /\ pushing' = IF Kind(s) = "consecutive" THEN Payload ELSE 0
            /\ trace' = IF Starts THEN [active |-> TRUE, len |-> 0, top |-> 0] ELSE trace
            /\ age' = IF Starts THEN 0 ELSE age + 1
            /\ top' = IF Starts THEN bridge ELSE top
            /\ bursts' = IF Starts /\ bursts < MaxBursts THEN bursts + 1 ELSE bursts
  /\ UNCHANGED <<tick, wake, bridge, lost, sensor, filling, arbiter, ticks, done, wire, sent>>

\* rb_push of one payload byte.
CanPush ==
  /\ pushing > 0
  /\ pushing' = pushing - 1
  /\ IF bridge < BridgeRing
       THEN bridge' = bridge + 1 /\ UNCHANGED lost
       ELSE lost' = TRUE /\ UNCHANGED bridge
  /\ top' = IF bridge' > top THEN bridge' ELSE top
  /\ UNCHANGED <<timers, tp, sensor, filling, arbiter, tracing, wire, sent, age, bursts>>

(***************************************************************************)
(* The byte tick: arbiter, then trace.                                     *)
(***************************************************************************)

\* Mutant: the arbiter changes its mind inside a sensor frame.
HasLineMidFrame == IF txFromBridge THEN bridge > 0 ELSE bridge >= Payload

\* Mutant: the eight byte rule also decides whether the bridge continues.
HasLineStrict == IF txRemaining > 0 THEN txFromBridge ELSE bridge >= Payload

\* To start, a whole CAN frame has to be waiting; to continue, one byte.
HasLine ==
  IF txRemaining > 0 THEN txFromBridge
  ELSE IF txFromBridge THEN bridge > 0
  ELSE bridge >= Payload

\* A frame in progress goes on; a new one begins when the ring has all of it.
SensorTurn == txRemaining > 0 \/ sensor >= Frame

Arbitrate ==
  LET fromBridge == HasLine /\ bridge > 0
      left == IF txRemaining > 0 THEN txRemaining ELSE Frame
  IN
  /\ txFromBridge' = fromBridge
  /\ IF fromBridge
       THEN /\ bridge' = bridge - 1
            /\ wire' = "bridge"
            /\ sent' = (sent + 1) % Burst
            /\ UNCHANGED <<sensor, txRemaining>>
       ELSE /\ UNCHANGED <<bridge, sent>>
            /\ IF SensorTurn /\ sensor > 0
                 THEN /\ sensor' = sensor - 1
                      /\ txRemaining' = left - 1
                      /\ wire' = "sensor"
                 ELSE wire' = "idle" /\ UNCHANGED <<sensor, txRemaining>>


\* Mutant: a trace too short for a burst.
HasRoomShort(len) == len < TraceSamples \div 8

HasRoom(len) == len < TraceSamples

\* Every TraceEvery-th tick samples the bridge ring while a trace is armed; a
\* full trace is copied over and disarmed at the sample after its last.
Trace ==
  /\ ticks' = (ticks + 1) % TraceEvery
  /\ IF ticks' # 0 \/ ~trace.active THEN UNCHANGED <<trace, done>>
     ELSE IF HasRoom(trace.len)
       THEN /\ trace' = [trace EXCEPT !.len = @ + 1,
                                      !.top = IF bridge' > @ THEN bridge' ELSE @]
            /\ UNCHANGED done
     ELSE /\ done' = [ready |-> TRUE, top |-> trace.top]
          /\ trace' = [active |-> FALSE, len |-> 0, top |-> 0]

ByteTick ==
  /\ tick = 0
  /\ tick' = ByteTime
  /\ Arbitrate
  /\ Trace
  /\ UNCHANGED <<slot, wake, tp, pushing, lost, filling, history>>

(***************************************************************************)
(* The sensor task: whole frames while there is room for one, pushed byte  *)
(* by byte under both interrupts, then a delay of one kernel tick.         *)
(***************************************************************************)

\* Mutant: a task that waits for its ring to run dry.
ToFillWhenEmpty(n) == IF n = 0 THEN Frame ELSE 0

\* The frame to build and push when the ring holds n bytes, if it has room.
ToFill(n) == IF SensorRing - n >= Frame THEN Frame ELSE 0

SensorTask ==
  /\ wake = 0
  /\ pushing = 0
  /\ filling = 0
  /\ wake' = KernelTick
  /\ filling' = ToFill(sensor)
  /\ UNCHANGED <<tick, slot, tp, pushing, bridge, lost, sensor, arbiter, tracing, wire, sent, history>>

SensorPush ==
  /\ filling > 0
  /\ pushing = 0
  /\ sensor' = sensor + 1
  /\ filling' = IF filling > 1 THEN filling - 1 ELSE ToFill(sensor + 1)
  /\ UNCHANGED <<timers, tp, pushing, bridge, lost, arbiter, tracing, wire, sent, history>>

(***************************************************************************)
(* Time goes on to the next timer.                                         *)
(***************************************************************************)
Earliest == CHOOSE t \in {tick, slot, wake} : \A u \in {tick, slot, wake} : t <= u

Advance ==
  /\ pushing = 0
  /\ filling = 0
  /\ Earliest > 0
  /\ tick' = tick - Earliest
  /\ slot' = slot - Earliest
  /\ wake' = wake - Earliest
  /\ UNCHANGED <<tp, pushing, bridge, lost, sensor, filling, arbiter, tracing, wire, sent, history>>

Next ==
  \/ CanSlot
  \/ CanPush
  \/ ByteTick
  \/ SensorTask
  \/ SensorPush
  \/ Advance

Spec == Init /\ [][Next]_vars

(***************************************************************************)
(* What must hold.                                                         *)
(***************************************************************************)

\* Neither stream is cut: no sensor frame begins, and none is in progress,
\* part way through the 1024 bytes of a burst, and the bridge never has the
\* line inside a frame.  Nothing in the arbiter counts to 1024; it is the rates
\* and the two thresholds that keep the ring from running dry before the last
\* Consecutive Frame (engine.c:150-172).
StreamsWhole ==
  /\ wire = "sensor" => sent = 0
  /\ txRemaining > 0 => ~txFromBridge /\ sent = 0

\* The line is never idle once it runs: the sensor ring has a whole frame at
\* every frame boundary (engine.c:453-456).
LineFull == wire # "idle"

\* Nothing is lost in the bridge ring, and its peak is what the arithmetic
\* gives: the burst, less what drains between its first and its last
\* Consecutive Frame, more at most a frame's wait for the line.
FirstToLast == (Slots - 5) * SlotTime
DrainLeast == (FirstToLast - 1) \div ByteTime
DrainMost == FirstToLast \div ByteTime + 1
PeakBounded ==
  /\ ~lost
  /\ top <= Burst - DrainLeast + Frame - 1
  /\ ~tp.active /\ age > 0 /\ bursts > 0 => top >= Burst - DrainMost

\* A burst is over, drained and its trace taken when the next one begins.
ReadyForNext == Starts /\ slot = 0 => bridge = 0 /\ sent = 0 /\ ~trace.active

\* The trace shows the peak of its burst, to within the ticks between samples,
\* if there are samples enough for all its slots.
LongTrace == SlotTime * (Slots - 3) < ByteTime * (TraceEvery * (TraceSamples - 1))
TraceShowsPeak ==
  done.ready /\ ~trace.active => done.top <= top /\ done.top >= top - TraceEvery
================================================================================
