------------------------------ MODULE Line_proofs ------------------------------
(***************************************************************************)
(* The transmit side, for every ring, frame, burst and clock rate that     *)
(* meets RateAssumption: neither stream is cut, nothing is lost, the line  *)
(* is never idle, a burst is over when the next one begins, the bridge     *)
(* ring fills as far as the rates say and the trace shows how far.         *)
(*                                                                         *)
(* The arguments are about time.  A ring that is read a byte per ByteTime  *)
(* runs dry at the byte tick that is due in tick + ByteTime * bytes; the   *)
(* invariants compare that with the time to whatever refills the ring.     *)
(***************************************************************************)
EXTENDS Line, Arithmetic, TLAPS

(***************************************************************************)
(* The constants.                                                          *)
(***************************************************************************)

LEMMA Constants ==
  /\ ByteTime \in Nat /\ ByteTime > 0
  /\ SlotTime \in Nat /\ SlotTime > 0
  /\ KernelTick \in Nat /\ KernelTick > 0
  /\ Frame \in Nat /\ Frame > 0
  /\ Payload \in Nat /\ Payload > 0
  /\ DataFrames \in Nat /\ DataFrames > 0
  /\ BlockSize \in Nat /\ BlockSize > 0
  /\ Period \in Nat /\ Period > 0
  /\ TraceEvery \in Nat /\ TraceEvery > 0
  /\ TraceSamples \in Nat /\ TraceSamples > 0
  /\ SensorRing \in Nat /\ BridgeRing \in Nat /\ MaxBursts \in Nat
BY LineAssumption

\* Multiplication by the byte time, as the solvers need it said.
LEMMA Times ==
  /\ \A n \in Int : ByteTime * n \in Int
  /\ \A m, n \in Int : ByteTime * (m + n) = ByteTime * m + ByteTime * n
  /\ \A m, n \in Int : ByteTime * (m - n) = ByteTime * m - ByteTime * n
  /\ \A m, n \in Int : m <= n => ByteTime * m <= ByteTime * n
  /\ ByteTime * 1 = ByteTime /\ ByteTime * 0 = 0
BY Constants

\* Time goes on to the timer that runs out first.
LEMMA EarliestIs ==
  ASSUME tick \in Nat, slot \in Nat, wake \in Nat
  PROVE  /\ Earliest \in Nat
         /\ Earliest <= tick /\ Earliest <= slot /\ Earliest <= wake
<1>1. \E t \in {tick, slot, wake} : \A u \in {tick, slot, wake} : t <= u
  <2>1. CASE tick <= slot /\ tick <= wake  BY <2>1
  <2>2. CASE slot <= tick /\ slot <= wake  BY <2>2
  <2>3. CASE wake <= slot /\ wake <= tick  BY <2>3
  <2> QED  BY <2>1, <2>2, <2>3
<1>2. /\ Earliest \in {tick, slot, wake}
      /\ \A u \in {tick, slot, wake} : Earliest <= u
  BY <1>1 DEF Earliest
<1> QED  BY <1>2

(***************************************************************************)
(* The sensor ring.                                                        *)
(***************************************************************************)

Clocks == tick \in 0 .. ByteTime /\ slot \in 0 .. SlotTime /\ wake \in 0 .. KernelTick

\* What is in the sensor ring over a frame lasts until the task runs next.
\* While it fills the ring, a byte tick that is due finds a whole frame.
SensorInv ==
  /\ Clocks
  /\ sensor \in Nat /\ filling \in 0 .. Frame
  /\ sensor + filling <= SensorRing
  /\ txRemaining \in 0 .. Frame - 1
  /\ filling = 0 => wake <= tick + ByteTime * (sensor - Frame)
  /\ filling > 0 /\ tick = 0 => sensor >= Frame
  /\ wire \in {"bridge", "sensor"}

\* A frame is built when there is room for it; when there is none, what is in
\* the ring lasts for a kernel tick.
LEMMA FillLasts ==
  ASSUME NEW n \in Nat, n <= SensorRing
  PROVE  /\ ToFill(n) \in 0 .. Frame /\ n + ToFill(n) <= SensorRing
         /\ ToFill(n) = 0 => KernelTick <= ByteTime * (n - Frame)
<1>1. ToFill(n) \in 0 .. Frame /\ n + ToFill(n) <= SensorRing
  BY Constants DEF ToFill
<1>2. ASSUME ToFill(n) = 0  PROVE KernelTick <= ByteTime * (n - Frame)
  <2> DEFINE q == SensorRing \div Frame
  <2>1. q \in Nat /\ SensorRing = Frame * q + (SensorRing % Frame)
        /\ SensorRing % Frame \in 0 .. Frame - 1
    BY Constants
  <2> HIDE DEF q
  <2>2. SensorRing - n < Frame  BY <1>2, Constants DEF ToFill
  <2>3. Frame * (q - 2) = Frame * q - Frame - Frame  BY <2>1, Constants
  <2>4. Frame * (q - 2) \in Int /\ Frame * (q - 2) <= n - Frame
    BY <2>1, <2>2, <2>3, Constants
  <2>5. KernelTick <= ByteTime * (Frame * (q - 2))
    BY RateAssumption DEF q
  <2> QED  BY <2>4, <2>5, Times, Constants
<1> QED  BY <1>1, <1>2

\* The frames the ring starts with but one last for a kernel tick.
LEMMA SensorInit == Init => SensorInv
<1> SUFFICES ASSUME Init PROVE SensorInv  OBVIOUS
<1> DEFINE q == SensorRing \div Frame
<1>1. q \in Nat /\ SensorRing = Frame * q + (SensorRing % Frame)
      /\ SensorRing % Frame \in 0 .. Frame - 1
  BY Constants
<1>2. q >= 2
  <2>1. SensorRing >= 2 * Frame  BY LineAssumption
  <2>2. CASE q = 0  BY <1>1, <2>1, <2>2, Constants
  <2>3. CASE q = 1  BY <1>1, <2>1, <2>3, Constants
  <2> QED  BY <1>1, <2>2, <2>3
<1>3. /\ tick \in 0 .. ByteTime - 1 /\ slot = 0 /\ wake = KernelTick
      /\ txRemaining \in 0 .. Frame - 1 /\ filling = 0 /\ wire = "sensor"
      /\ sensor = txRemaining + (q - 1) * Frame
  BY LineAssumption DEF Init
<1>4. KernelTick <= ByteTime * (Frame * (q - 2))
  BY RateAssumption
<1> HIDE DEF q
<1>5. /\ (q - 1) * Frame = Frame * q - Frame
      /\ Frame * (q - 2) = Frame * q - Frame - Frame
      /\ Frame * q \in Nat
  BY <1>1, Constants
<1>6. sensor \in Nat /\ sensor <= SensorRing
  BY <1>1, <1>2, <1>3, <1>5, Constants
<1>7. Frame * (q - 2) \in Int /\ Frame * (q - 2) <= sensor - Frame
  BY <1>1, <1>3, <1>5, Constants
<1>8. wake <= ByteTime * (sensor - Frame) /\ ByteTime * (sensor - Frame) \in Int
  BY <1>3, <1>4, <1>6, <1>7, Times, Constants
<1> QED  BY <1>3, <1>6, <1>8, Constants DEF SensorInv, Clocks

\* A byte tick that is due finds a whole frame.
LEMMA SensorReady == SensorInv /\ tick = 0 => sensor >= Frame
<1> SUFFICES ASSUME SensorInv, tick = 0 PROVE sensor >= Frame  OBVIOUS
<1>1. /\ wake \in Nat /\ sensor \in Nat /\ filling \in 0 .. Frame
      /\ ByteTime * (sensor - Frame) \in Int
  BY Times, Constants DEF SensorInv, Clocks
<1>2. CASE filling > 0  BY <1>2 DEF SensorInv
<1>3. CASE filling = 0
  <2>1. 0 <= ByteTime * (sensor - Frame)  BY <1>1, <1>3 DEF SensorInv
  <2>2. sensor - Frame >= 0  BY <1>1, <2>1, Constants
  <2> QED  BY <1>1, <2>2, Constants
<1> QED  BY <1>1, <1>2, <1>3, Constants

LEMMA SensorNext == SensorInv /\ [Next]_vars => SensorInv'
<1> SUFFICES ASSUME SensorInv, [Next]_vars PROVE SensorInv'  OBVIOUS
<1> USE Constants
<1>1. /\ tick \in 0 .. ByteTime /\ slot \in 0 .. SlotTime /\ wake \in 0 .. KernelTick
      /\ sensor \in Nat /\ filling \in 0 .. Frame /\ sensor + filling <= SensorRing
      /\ txRemaining \in 0 .. Frame - 1 /\ wire \in {"bridge", "sensor"}
      /\ sensor - Frame \in Int /\ ByteTime * (sensor - Frame) \in Int
  BY Times DEF SensorInv, Clocks
<1>2. CASE CanSlot \/ CanPush
  <2>1. /\ UNCHANGED <<tick, wake, sensor, filling, txRemaining, wire>>
        /\ slot' \in 0 .. SlotTime
    BY <1>1, <1>2 DEF CanSlot, CanPush, timers, arbiter
  <2> QED  BY <1>1, <2>1 DEF SensorInv, Clocks
<1>3. CASE ByteTick
  <2>1. /\ tick = 0 /\ tick' = ByteTime /\ UNCHANGED <<slot, wake, filling>>
    BY <1>3 DEF ByteTick
  <2>2. sensor >= Frame  BY <2>1, SensorReady
  <2>3. SensorTurn /\ sensor > 0  BY <1>1, <2>2 DEF SensorTurn
  <2>4. \/ UNCHANGED <<sensor, txRemaining>> /\ wire' = "bridge"
        \/ /\ sensor' = sensor - 1 /\ wire' = "sensor"
           /\ txRemaining' = (IF txRemaining > 0 THEN txRemaining ELSE Frame) - 1
    BY <1>1, <1>3, <2>3 DEF ByteTick, Arbitrate
  <2>5. CASE UNCHANGED <<sensor, txRemaining>> /\ wire' = "bridge"
    BY <1>1, <2>1, <2>5 DEF SensorInv, Clocks
  <2>6. CASE /\ sensor' = sensor - 1 /\ wire' = "sensor"
             /\ txRemaining' = (IF txRemaining > 0 THEN txRemaining ELSE Frame) - 1
    <3>1. (sensor - 1) - Frame = (sensor - Frame) - 1  BY <1>1
    <3>2. ByteTime * (sensor' - Frame) = ByteTime * (sensor - Frame) - ByteTime
      BY <1>1, <2>6, <3>1, Times
    <3>3. txRemaining' \in 0 .. Frame - 1  BY <1>1, <2>6
    <3>4. sensor' \in Nat /\ sensor' + filling' <= SensorRing  BY <1>1, <2>1, <2>2, <2>6
    <3>5. filling' = 0 => wake' <= tick' + ByteTime * (sensor' - Frame)
      BY <1>1, <2>1, <3>2 DEF SensorInv
    <3> QED  BY <1>1, <2>1, <2>6, <3>3, <3>4, <3>5 DEF SensorInv, Clocks
  <2> QED  BY <2>4, <2>5, <2>6
<1>4. CASE SensorTask
  <2>1. /\ wake = 0 /\ filling = 0 /\ wake' = KernelTick /\ filling' = ToFill(sensor)
        /\ UNCHANGED <<tick, slot, sensor, txRemaining, wire>>
    BY <1>4 DEF SensorTask, arbiter
  <2>2. /\ ToFill(sensor) \in 0 .. Frame /\ sensor + ToFill(sensor) <= SensorRing
        /\ ToFill(sensor) = 0 => KernelTick <= ByteTime * (sensor - Frame)
    BY <1>1, FillLasts
  <2>3. tick = 0 => sensor >= Frame  BY SensorReady
  <2> QED  BY <1>1, <2>1, <2>2, <2>3 DEF SensorInv, Clocks
<1>5. CASE SensorPush
  <2>1. /\ filling > 0 /\ sensor' = sensor + 1
        /\ filling' = IF filling > 1 THEN filling - 1 ELSE ToFill(sensor + 1)
        /\ UNCHANGED <<tick, slot, wake, txRemaining, wire>>
    BY <1>5 DEF SensorPush, arbiter, timers
  <2>2. /\ ToFill(sensor') \in 0 .. Frame /\ sensor' + ToFill(sensor') <= SensorRing
        /\ ToFill(sensor') = 0 => KernelTick <= ByteTime * (sensor' - Frame)
    BY <1>1, <2>1, FillLasts
  <2>3. tick = 0 => sensor >= Frame  BY <1>1, <2>1 DEF SensorInv
  <2>4. ByteTime * (sensor' - Frame) \in Int  BY <1>1, <2>1, Times
  <2> QED  BY <1>1, <2>1, <2>2, <2>3, <2>4 DEF SensorInv, Clocks
<1>6. CASE Advance
  <2>1. /\ filling = 0
        /\ tick' = tick - Earliest /\ slot' = slot - Earliest /\ wake' = wake - Earliest
        /\ UNCHANGED <<sensor, filling, txRemaining, wire>>
    BY <1>6 DEF Advance, arbiter
  <2>2. Earliest \in Nat /\ Earliest <= tick /\ Earliest <= slot /\ Earliest <= wake
    BY <1>1, EarliestIs
  <2> QED  BY <1>1, <2>1, <2>2 DEF SensorInv, Clocks
<1>7. CASE UNCHANGED vars
  BY <1>7 DEF vars, timers, arbiter, SensorInv, Clocks
<1> QED
  BY <1>2, <1>3, <1>4, <1>5, <1>6, <1>7 DEF Next

\* The line is never idle: every byte tick finds a whole frame in the sensor
\* ring, wherever the sensor task is (sensor_task, engine_on_byte_tick).
THEOREM LineIsFull == Spec => []LineFull
<1>1. SensorInv => LineFull  BY DEF SensorInv, LineFull
<1> QED  BY SensorInit, SensorNext, <1>1, PTL DEF Spec

(***************************************************************************)
(* The bridge ring.                                                        *)
(***************************************************************************)

\* Bytes of the burst that the slots before s have pushed.
Made(s) ==
  IF s >= Slots - 2 THEN Burst
  ELSE LET blocks == (s - 1) \div (1 + BlockSize)
           place == (s - 1) % (1 + BlockSize)
       IN  Payload * (blocks * BlockSize + IF place = 0 THEN 0 ELSE place - 1)

\* Of the current burst, or the last.
Due == IF tp.active THEN Made(tp.slot) ELSE Burst

\* Time to the next Consecutive Frame of a burst, and to the next burst.
ToFrame == slot + (IF Kind(tp.slot) = "consecutive" THEN 0 ELSE SlotTime)

SlotsToBurst == (Period - 1 - tp.since) + (IF tp.active THEN Slots - tp.slot ELSE 0)

ToBurst == slot + SlotTime * SlotsToBurst

AtRest == sent = 0 /\ bridge = 0 /\ pushing = 0 /\ ~txFromBridge

BridgeTypes ==
  /\ tp \in [active : BOOLEAN, slot : 0 .. Slots, since : 0 .. Period - 1]
  /\ tp.active => tp.slot \in 1 .. Slots - 1 /\ tp.since = 0
  /\ pushing \in 0 .. Payload /\ (~tp.active => pushing = 0)
  /\ bridge \in Nat /\ sent \in 0 .. Burst - 1
  /\ txFromBridge \in BOOLEAN /\ lost \in BOOLEAN

\* Every byte of the burst is where it should be, or the burst is through.
Account ==
  \/ sent + bridge + pushing = Due
  \/ Due = Burst /\ sent = 0 /\ bridge = 0 /\ pushing = 0

\* While a burst is on the line the bridge has it.
OneOwner ==
  /\ sent > 0 => txFromBridge
  /\ txFromBridge => txRemaining = 0
  /\ txFromBridge /\ sent = 0 => Due = Burst /\ bridge = 0 /\ pushing = 0
  /\ wire = "sensor" => sent = 0

\* What is in the ring lasts beyond the next Consecutive Frame, if there is
\* to be one, and the slot that pushes it is not too late for a byte tick.
KeepsUp ==
  /\ sent > 0 /\ Due < Burst => ToFrame < tick + ByteTime * (bridge + pushing)
  /\ sent > 0 /\ pushing > 0 /\ tick = 0 => bridge > 0

\* What is left for the receiver when a burst is through.
Margin == ByteTime + KernelTick

LEMMA MarginIs ==
  /\ Margin \in Nat
  /\ SlotTime * Period \in Int /\ ByteTime * (Burst + Frame + 1) \in Int
  /\ ByteTime * (Burst + Frame + 1) + Margin <= SlotTime * Period
<1>1. Burst \in Nat  BY Constants DEF Burst
<1>2. Burst + Frame + 1 \in Int /\ 1 \in Int
      /\ (Burst + Frame + 1) + 1 = Burst + Frame + 2
  BY <1>1, Constants
<1>3. ByteTime * (Burst + Frame + 2) = ByteTime * (Burst + Frame + 1) + ByteTime
  BY <1>2, Times
<1>4. ByteTime * (Burst + Frame + 2) + KernelTick <= SlotTime * Period
  BY RateAssumption
<1>5. ByteTime * (Burst + Frame + 1) \in Int /\ SlotTime * Period \in Int
  BY <1>2, Constants
<1> QED  BY <1>3, <1>4, <1>5, Constants DEF Margin

\* After a burst the ring is empty, and the arbiter has noticed, before the
\* next.
Drains ==
  ~tp.active /\ ~AtRest => tick + ByteTime * (bridge + txRemaining) + Margin < ToBurst

BridgeInv ==
  BridgeTypes /\ ~lost /\ Account /\ OneOwner /\ KeepsUp /\ Drains

(***************************************************************************)
(* Which slots carry what.                                                 *)
(***************************************************************************)

\* A burst is whole blocks of a Flow Control and BlockSize frames, between the
\* First Frame and the last two slots.
LEMMA BurstIs ==
  LET blocks == DataFrames \div BlockSize
  IN  /\ blocks \in Nat /\ blocks > 0
      /\ Slots = (1 + BlockSize) * blocks + 3 /\ Slots \in Nat /\ Slots >= 5
      /\ Burst = Payload * (blocks * BlockSize) /\ Burst \in Nat /\ Burst >= Payload
<1> DEFINE blocks == DataFrames \div BlockSize
<1>1. blocks \in Nat /\ DataFrames = BlockSize * blocks
  <2>1. DataFrames % BlockSize = 0  BY LineAssumption
  <2>2. blocks \in Nat /\ DataFrames = BlockSize * blocks + (DataFrames % BlockSize)
    BY Constants, DivMod
  <2> QED  BY <2>1, <2>2, Constants
<1>2. Slots = DataFrames + blocks + 3 /\ Burst = DataFrames * Payload
  BY DEF Slots, Burst
<1> HIDE DEF blocks
<1>3. blocks > 0  BY <1>1, Constants
<1>4. BlockSize * blocks \in Nat /\ BlockSize * blocks >= blocks
      /\ (1 + BlockSize) * blocks = blocks + BlockSize * blocks
      /\ blocks * BlockSize = BlockSize * blocks
  BY <1>1, <1>3, Constants
<1>5. Slots = (1 + BlockSize) * blocks + 3 /\ Slots \in Nat /\ Slots >= 5
  BY <1>1, <1>2, <1>3, <1>4, Constants
<1>6. DataFrames >= 1 /\ DataFrames * Payload = Payload * DataFrames
      /\ DataFrames * Payload \in Nat /\ DataFrames * Payload >= Payload
  BY Constants
<1> QED  BY <1>1, <1>2, <1>3, <1>4, <1>5, <1>6 DEF blocks

\* Each Consecutive Frame brings its payload; a Flow Control brings nothing
\* and is followed by a Consecutive Frame.
LEMMA SlotIs ==
  ASSUME NEW s \in 1 .. Slots - 3
  PROVE  /\ Made(s) \in 0 .. Burst - 1 /\ Made(s + 1) \in 0 .. Burst
         /\ Kind(s) = "consecutive" => Made(s + 1) = Made(s) + Payload
         /\ Kind(s) # "consecutive" =>
              /\ Made(s + 1) = Made(s)
              /\ s + 1 \in 1 .. Slots - 3 /\ Kind(s + 1) = "consecutive"
<1> DEFINE L == 1 + BlockSize
           N == DataFrames \div BlockSize
           q == (s - 1) \div L
           r == (s - 1) % L
           f == IF r = 0 THEN 0 ELSE r - 1
<1>1. /\ N \in Nat /\ N > 0 /\ Slots = L * N + 3 /\ Slots \in Nat
      /\ Burst = Payload * (N * BlockSize)
  BY BurstIs
<1>2. L \in Nat /\ L > 1 /\ BlockSize = L - 1  BY Constants
<1>3. q \in Nat /\ r \in 0 .. L - 1 /\ s - 1 = L * q + r
  <2>1. s - 1 \in Nat /\ L \in Nat \ {0}  BY <1>2
  <2> HIDE DEF L
  <2> QED  BY <1>2, <2>1, DivMod
<1>4. s < Slots - 2 /\ s # 0 /\ s \in Nat  BY <1>1
<1>5. Made(s) = Payload * (q * BlockSize + f)  BY <1>1, <1>4 DEF Made
<1>6. Kind(s) = IF r = 0 THEN "protocol" ELSE "consecutive"
  BY <1>1, <1>4 DEF Kind
<1>7. q < N
  <2> HIDE DEF L, N, q, r
  <2>1. L * q + r < L * N  BY <1>1, <1>2, <1>3, <1>4
  <2>2. ASSUME q >= N PROVE L * q >= L * N  BY <1>1, <1>2, <1>3, <2>2
  <2> QED  BY <1>1, <1>2, <1>3, <2>1, <2>2
<1>8. q * BlockSize + f \in Nat /\ q * BlockSize + f < N * BlockSize
  <2>1. f \in 0 .. BlockSize - 1  BY <1>2, <1>3, Constants
  <2> HIDE DEF L, N, q, r, f
  <2>2. (q + 1) * BlockSize <= N * BlockSize /\ (q + 1) * BlockSize = q * BlockSize + BlockSize
    BY <1>1, <1>3, <1>7, Constants
  <2>3. q * BlockSize \in Nat /\ N * BlockSize \in Nat  BY <1>1, <1>3, Constants
  <2> QED  BY <2>1, <2>2, <2>3, Constants
<1>9. Made(s) \in 0 .. Burst - 1
  <2> HIDE DEF L, N, q, r, f
  <2> DEFINE a == q * BlockSize + f
             b == N * BlockSize
  <2>1. a \in Nat /\ b \in Nat /\ a < b  BY <1>1, <1>8, Constants
  <2>2. Made(s) = Payload * a /\ Burst = Payload * b  BY <1>1, <1>5
  <2> HIDE DEF a, b
  <2>3. Payload * a \in Nat /\ Payload * a < Payload * b /\ Payload * b \in Nat
    BY <2>1, Constants
  <2> QED  BY <2>2, <2>3
<1>10. CASE r < L - 1
  <2>1. s + 1 - 1 = L * q + (r + 1) /\ r + 1 \in 0 .. L - 1
    <3> HIDE DEF L, N, q, r, f
    <3>1. L * q \in Nat  BY <1>2, <1>3
    <3> QED  BY <1>2, <1>3, <1>4, <1>10, <3>1
  <2>2. (s + 1 - 1) \div L = q /\ (s + 1 - 1) % L = r + 1
    <3> HIDE DEF L, N, q, r
    <3> QED  BY <1>2, <1>3, <2>1, DivModIs
  <2>3. s + 1 \in 1 .. Slots - 3
    <3> HIDE DEF L, N, q, r, f
    <3>1. L * (q + 1) <= L * N /\ L * (q + 1) = L * q + L /\ L * q \in Nat /\ L * N \in Nat
      BY <1>1, <1>2, <1>3, <1>7
    <3> QED  BY <1>1, <1>2, <1>3, <1>4, <1>10, <3>1
  <2>4. Made(s + 1) = Payload * (q * BlockSize + r)
    <3>1. ~(s + 1 >= Slots - 2) /\ r + 1 # 0 /\ r + 1 - 1 = r  BY <1>1, <1>3, <1>4, <2>3
    <3> DEFINE p == (s + 1 - 1) \div L
               o == (s + 1 - 1) % L
    <3>2. Made(s + 1) = Payload * (p * BlockSize + IF o = 0 THEN 0 ELSE o - 1)
      BY <3>1 DEF Made
    <3> HIDE DEF L, N, q, r, f
    <3>3. p = q /\ o = r + 1  BY <2>2
    <3> HIDE DEF p, o
    <3>4. (IF o = 0 THEN 0 ELSE o - 1) = r  BY <1>2, <1>3, <3>3
    <3> QED  BY <3>2, <3>3, <3>4
  <2>5. Kind(s + 1) = "consecutive"
    <3>1. s + 1 # 0 /\ ~(s + 1 >= Slots - 2) /\ r + 1 # 0  BY <1>1, <1>3, <1>4, <2>3
    <3> QED  BY <2>2, <3>1 DEF Kind
  <2>6. Made(s + 1) = IF r = 0 THEN Made(s) ELSE Made(s) + Payload
    <3> HIDE DEF L, N, q, r
    <3>1. q * BlockSize \in Nat  BY <1>3, Constants
    <3>2. CASE r = 0  BY <1>5, <2>4, <3>2
    <3>3. CASE r # 0
      <4>1. q * BlockSize + r = (q * BlockSize + (r - 1)) + 1 /\ q * BlockSize + (r - 1) \in Nat
        BY <1>2, <1>3, <3>1, <3>3
      <4> QED  BY <1>5, <2>4, <3>3, <4>1, Constants
    <3> QED  BY <3>2, <3>3
  <2>7. Made(s + 1) \in 0 .. Burst
    <3>1. CASE r = 0  BY <1>9, <2>6, <3>1, Constants, BurstIs
    <3>2. CASE r # 0
      <4>1. f + 1 = r /\ f \in Nat  BY <1>3, <3>2
      <4> HIDE DEF L, N, q, r, f
      <4> DEFINE a == q * BlockSize + r
                 b == N * BlockSize
      <4>2. q * BlockSize \in Nat /\ b \in Nat  BY <1>1, <1>3, Constants
      <4>5. a \in Nat /\ b \in Nat /\ a <= b
        BY <1>2, <1>3, <1>8, <4>1, <4>2
      <4>3. Made(s + 1) = Payload * a /\ Burst = Payload * b  BY <1>1, <2>4
      <4> HIDE DEF a, b
      <4>4. Payload * a \in Nat /\ Payload * a <= Payload * b /\ Payload * b \in Nat
        BY <4>5, Constants
      <4> QED  BY <4>3, <4>4
    <3> QED  BY <3>1, <3>2
  <2> QED  BY <1>6, <1>9, <2>3, <2>5, <2>6, <2>7
<1>11. CASE r = L - 1
  <2>1. r # 0 /\ f = L - 2  BY <1>2, <1>11
  <2>2. s + 1 - 1 = L * (q + 1) + 0
    <3> HIDE DEF L, N, q, r, f
    <3>1. L * (q + 1) = L * q + L /\ L * q \in Nat  BY <1>2, <1>3
    <3> QED  BY <1>2, <1>3, <1>4, <1>11, <3>1
  <2>3. (s + 1 - 1) \div L = q + 1 /\ (s + 1 - 1) % L = 0
    <3> HIDE DEF L, N, q, r, f
    <3>1. q + 1 \in Nat /\ 0 \in 0 .. L - 1  BY <1>2, <1>3
    <3> QED  BY <1>2, <2>2, <3>1, DivModIs
  <2>4. Made(s + 1) = Payload * ((q + 1) * BlockSize)
    <3>1. CASE s + 1 >= Slots - 2
      <4> HIDE DEF L, N, q, r, f
      <4>1. s + 1 - 1 = L * N  BY <1>1, <1>2, <1>4, <3>1
      <4>2. L * (q + 1) = L * N  BY <1>2, <1>3, <2>2, <4>1
      <4>3. q + 1 = N
        <5>1. ASSUME q + 1 < N PROVE FALSE
          <6>1. L * (N - (q + 1)) > 0 /\ L * (N - (q + 1)) = L * N - L * (q + 1)
                /\ L * N \in Int
            BY <1>1, <1>2, <1>3, <5>1
          <6> QED  BY <4>2, <6>1
        <5> QED  BY <1>1, <1>3, <1>7, <5>1
      <4> QED  BY <1>1, <3>1, <4>3 DEF Made
    <3>2. CASE ~(s + 1 >= Slots - 2)
      <4>1. (q + 1) * BlockSize + 0 = (q + 1) * BlockSize
        <5> HIDE DEF q
        <5> QED  BY <1>3, Constants
      <4> QED  BY <2>3, <3>2, <4>1 DEF Made
    <3> QED  BY <3>1, <3>2
  <2>5. Made(s + 1) = Made(s) + Payload
    <3> HIDE DEF N, q, r
    <3>1. q * BlockSize \in Nat /\ (q + 1) * BlockSize = q * BlockSize + BlockSize
      BY <1>3, Constants
    <3>2. (q + 1) * BlockSize = (q * BlockSize + f) + 1 /\ q * BlockSize + f \in Nat
      BY <1>2, <2>1, <3>1, Constants
    <3> HIDE DEF f
    <3> DEFINE a == q * BlockSize + f
    <3>3. Made(s + 1) = Payload * (a + 1) /\ Made(s) = Payload * a /\ a \in Nat
      BY <1>5, <2>4, <3>2
    <3> HIDE DEF a
    <3> QED  BY <3>3, Constants
  <2>6. Made(s + 1) \in 0 .. Burst
    <3> HIDE DEF L, q, r, f
    <3> DEFINE a == (q + 1) * BlockSize
               b == N * BlockSize
    <3>1. a \in Nat /\ b \in Nat /\ a <= b  BY <1>1, <1>3, <1>7, Constants
    <3>2. Made(s + 1) = Payload * a /\ Burst = Payload * b  BY <1>1, <2>4
    <3> HIDE DEF a, b
    <3>3. Payload * a \in Nat /\ Payload * a <= Payload * b /\ Payload * b \in Nat
      BY <3>1, Constants
    <3> QED  BY <3>2, <3>3
  <2> QED  BY <1>6, <1>9, <2>1, <2>5, <2>6
<1> QED  BY <1>2, <1>3, <1>10, <1>11

\* The slots that are left bring nothing.
LEMMA OtherSlots ==
  /\ Kind(0) = "protocol" /\ Made(1) = 0
  /\ \A s \in Nat : s >= Slots - 2 => Kind(s) = "protocol" /\ Made(s) = Burst
<1>1. Made(1) = 0
  <2>1. 1 - 1 = (1 + BlockSize) * 0 + 0 /\ 0 \in 0 .. (1 + BlockSize) - 1
        /\ 1 + BlockSize \in Nat /\ 1 + BlockSize > 0
    BY Constants
  <2>2. (1 - 1) \div (1 + BlockSize) = 0 /\ (1 - 1) % (1 + BlockSize) = 0
    BY <2>1, DivModIs
  <2>3. ~(1 >= Slots - 2)  BY BurstIs
  <2>4. Made(1) = Payload * (0 * BlockSize + 0)  BY <2>2, <2>3 DEF Made
  <2> QED  BY <2>4, Constants
<1> QED  BY <1>1 DEF Kind, Made

(***************************************************************************)
(* The bridge ring, step by step.                                          *)
(***************************************************************************)

\* What the invariant says of the types, for the solvers.
LEMMA BridgeFacts ==
  ASSUME BridgeInv
  PROVE  /\ tp \in [active : BOOLEAN, slot : 0 .. Slots, since : 0 .. Period - 1]
         /\ tp.active \in BOOLEAN /\ tp.slot \in 0 .. Slots /\ tp.since \in 0 .. Period - 1
         /\ tp.active => tp.slot \in 1 .. Slots - 1 /\ tp.since = 0
         /\ pushing \in 0 .. Payload /\ (~tp.active => pushing = 0)
         /\ bridge \in Nat /\ sent \in 0 .. Burst - 1
         /\ Due \in 0 .. Burst /\ bridge + pushing <= Burst
<1>1. /\ tp \in [active : BOOLEAN, slot : 0 .. Slots, since : 0 .. Period - 1]
      /\ tp.active \in BOOLEAN /\ tp.slot \in 0 .. Slots /\ tp.since \in 0 .. Period - 1
      /\ tp.active => tp.slot \in 1 .. Slots - 1 /\ tp.since = 0
      /\ pushing \in 0 .. Payload /\ (~tp.active => pushing = 0)
      /\ bridge \in Nat /\ sent \in 0 .. Burst - 1
  BY DEF BridgeInv, BridgeTypes
<1>2. Due \in 0 .. Burst
  <2>1. CASE ~tp.active  BY <2>1, BurstIs DEF Due
  <2>2. CASE tp.active /\ tp.slot \in 1 .. Slots - 3
    <3>1. Made(tp.slot) \in 0 .. Burst - 1  BY <2>2, SlotIs
    <3> QED  BY <2>2, <3>1, BurstIs DEF Due
  <2>3. CASE tp.active /\ tp.slot >= Slots - 2
    BY <1>1, <2>3, OtherSlots, BurstIs DEF Due
  <2> QED  BY <1>1, <2>1, <2>2, <2>3, BurstIs
<1>3. bridge + pushing <= Burst
  BY <1>1, <1>2, BurstIs, Constants DEF BridgeInv, Account
<1> QED  BY <1>1, <1>2, <1>3

LEMMA RingInit == Init => BridgeInv
<1> SUFFICES ASSUME Init PROVE BridgeInv  OBVIOUS
<1>1. /\ tp = [active |-> FALSE, slot |-> 0, since |-> Period - 1]
      /\ pushing = 0 /\ bridge = 0 /\ lost = FALSE /\ txFromBridge = FALSE /\ sent = 0
  BY DEF Init
<1>2. Due = Burst /\ AtRest
  BY <1>1 DEF Due, AtRest
<1>3. BridgeTypes
  <2>1. tp \in [active : BOOLEAN, slot : 0 .. Slots, since : 0 .. Period - 1] /\ ~tp.active
    BY <1>1, BurstIs, Constants
  <2>2. pushing \in 0 .. Payload /\ pushing = 0 /\ bridge \in Nat
        /\ sent \in 0 .. Burst - 1
    BY <1>1, BurstIs, Constants
  <2>3. txFromBridge \in BOOLEAN /\ lost \in BOOLEAN  BY <1>1
  <2> QED  BY <2>1, <2>2, <2>3 DEF BridgeTypes
<1> QED
  BY <1>1, <1>2, <1>3 DEF BridgeInv, Account, OneOwner, KeepsUp, Drains

\* An idle slot, or the first of a burst: it finds the bridge at rest.
LEMMA IdleSlot ==
  ASSUME SensorInv, BridgeInv, CanSlot, ~tp.active
  PROVE  BridgeInv'
<1> USE Constants, BurstIs
<1>0. tick \in Nat /\ txRemaining \in Nat  BY DEF SensorInv, Clocks
<1>1. /\ tp \in [active : BOOLEAN, slot : 0 .. Slots, since : 0 .. Period - 1]
      /\ tp.since \in 0 .. Period - 1 /\ tp.slot \in 0 .. Slots
      /\ bridge \in Nat /\ sent \in 0 .. Burst - 1 /\ pushing = 0 /\ Due = Burst
  BY BridgeFacts DEF Due
<1>2. /\ slot = 0 /\ slot' = SlotTime
      /\ UNCHANGED <<tick, bridge, lost, txRemaining, txFromBridge, wire, sent>>
  BY DEF CanSlot, arbiter
<1>3. CASE ~Starts
  <2>1. tp' = [tp EXCEPT !.since = @ + 1] /\ pushing' = pushing
    BY <1>3 DEF CanSlot
  <2>2. tp.since + 1 \in 0 .. Period - 1  BY <1>1, <1>3 DEF Starts
  <2>3. /\ tp' \in [active : BOOLEAN, slot : 0 .. Slots, since : 0 .. Period - 1]
        /\ ~tp'.active /\ tp'.since = tp.since + 1
    BY <1>1, <2>1, <2>2
  <2>4. BridgeTypes' /\ Due' = Burst
    BY <1>1, <1>2, <2>1, <2>3 DEF BridgeInv, BridgeTypes, Due
  <2>5. ToBurst' = ToBurst
    <3>1. Period - 1 - tp.since = (Period - 1 - (tp.since + 1)) + 1  BY <1>1
    <3>2. SlotsToBurst = SlotsToBurst' + 1 /\ SlotsToBurst' \in Int
      BY <1>1, <2>3, <3>1 DEF SlotsToBurst
    <3> DEFINE n == SlotsToBurst'
    <3> HIDE DEF n
    <3>3. ToBurst = SlotTime * (n + 1) /\ ToBurst' = SlotTime + SlotTime * n /\ n \in Int
      BY <1>2, <3>2 DEF ToBurst, n
    <3> QED  BY <3>3
  <2>6. AtRest' = AtRest  BY <1>2, <2>1 DEF AtRest
  <2>7. Drains'  BY <1>2, <2>3, <2>5, <2>6 DEF BridgeInv, Drains
  <2>8. KeepsUp'  BY <1>1, <1>2, <2>1, <2>4 DEF KeepsUp
  <2>9. Account' /\ OneOwner' /\ ~lost'
    BY <1>1, <1>2, <2>1, <2>4 DEF BridgeInv, Account, OneOwner
  <2> QED  BY <2>4, <2>7, <2>8, <2>9 DEF BridgeInv
<1>4. CASE Starts
  <2>1. AtRest
    <3>1. tp.since = Period - 1  BY <1>1, <1>4 DEF Starts
    <3>2. ToBurst = 0  BY <1>1, <1>2, <3>1 DEF ToBurst, SlotsToBurst
    <3>3. ByteTime * (bridge + txRemaining) \in Nat  BY <1>0, <1>1
    <3>4. tick + ByteTime * (bridge + txRemaining) + Margin \in Nat
      BY <1>0, <3>3, MarginIs
    <3> QED  BY <3>2, <3>3, <3>4 DEF BridgeInv, Drains
  <2>2. tp' = [active |-> TRUE, slot |-> 1, since |-> 0] /\ pushing' = 0
    <3>1. Kind(0) = "protocol"  BY OtherSlots
    <3>2. tp' = [active |-> 0 + 1 < Slots, slot |-> 0 + 1, since |-> 0]
      BY <1>4 DEF CanSlot
    <3>3. (0 + 1 < Slots) = TRUE /\ 0 + 1 = 1  OBVIOUS
    <3>4. pushing' = 0  BY <1>4, <3>1 DEF CanSlot
    <3> QED  BY <3>2, <3>3, <3>4
  <2>3. BridgeTypes'
    BY <1>1, <1>2, <2>1, <2>2 DEF BridgeInv, BridgeTypes, AtRest
  <2>4. Due' = 0  BY <2>2, OtherSlots DEF Due
  <2>5. /\ sent' = 0 /\ bridge' = 0 /\ ~txFromBridge' /\ ~lost'
    BY <1>2, <2>1 DEF AtRest, BridgeInv
  <2> QED
    BY <2>2, <2>3, <2>4, <2>5 DEF BridgeInv, Account, OneOwner, KeepsUp, Drains
<1> QED  BY <1>3, <1>4

\* A byte that the slot pushes.
LEMMA PushInv ==
  ASSUME SensorInv, BridgeInv, CanPush
  PROVE  BridgeInv'
<1> USE Constants, BurstIs
<1>1. /\ pushing \in 0 .. Payload /\ bridge \in Nat /\ sent \in 0 .. Burst - 1
      /\ bridge + pushing <= Burst /\ (~tp.active => pushing = 0)
  BY BridgeFacts
<1>2. /\ pushing > 0 /\ pushing' = pushing - 1
      /\ UNCHANGED <<tick, slot, tp, txRemaining, txFromBridge, wire, sent>>
  BY DEF CanPush, timers, arbiter
<1>3. bridge < BridgeRing  BY <1>1, <1>2, RateAssumption
<1>4. bridge' = bridge + 1 /\ lost' = lost  BY <1>3 DEF CanPush
<1>5. tp.active /\ Due' = Due /\ ToFrame' = ToFrame
  BY <1>1, <1>2 DEF Due, ToFrame
<1>6. bridge' + pushing' = bridge + pushing  BY <1>1, <1>2, <1>4
<1>7. BridgeTypes'
  BY <1>1, <1>2, <1>4 DEF BridgeInv, BridgeTypes
<1>8. Account'
  <2>1. sent + bridge + pushing = Due  BY <1>1, <1>2 DEF BridgeInv, Account
  <2>2. sent + (bridge + 1) + (pushing - 1) = sent + bridge + pushing  BY <1>1
  <2> QED  BY <1>2, <1>4, <1>5, <2>1, <2>2 DEF Account
<1>9. OneOwner'
  BY <1>1, <1>2, <1>5 DEF BridgeInv, OneOwner
<1>10. KeepsUp'
  BY <1>1, <1>2, <1>4, <1>5, <1>6 DEF BridgeInv, KeepsUp
<1>11. Drains' /\ ~lost'
  BY <1>2, <1>4, <1>5 DEF BridgeInv, Drains
<1> QED  BY <1>7, <1>8, <1>9, <1>10, <1>11 DEF BridgeInv

\* A slot of a burst: what it brings is owed to the burst.
LEMMA BusySlot ==
  ASSUME SensorInv, BridgeInv, CanSlot, tp.active
  PROVE  BridgeInv'
<1> DEFINE s == tp.slot
<1> USE Constants, BurstIs
<1>1. /\ s \in 1 .. Slots - 1 /\ tp.since = 0
      /\ bridge \in Nat /\ sent \in 0 .. Burst - 1 /\ pushing = 0
      /\ bridge <= Burst /\ Due \in 0 .. Burst /\ Due = Made(s)
  <2>1. pushing = 0 /\ bridge + pushing <= Burst  BY BridgeFacts DEF CanSlot
  <2>2. tp.slot \in 1 .. Slots - 1 /\ tp.since = 0 /\ Due \in 0 .. Burst
        /\ bridge \in Nat /\ sent \in 0 .. Burst - 1
    BY BridgeFacts
  <2> QED  BY <2>1, <2>2 DEF Due
<1>2. /\ slot = 0 /\ slot' = SlotTime /\ ~Starts
      /\ UNCHANGED <<tick, bridge, lost, txRemaining, txFromBridge, wire, sent>>
  BY DEF CanSlot, arbiter, Starts
<1>3. tick \in 0 .. ByteTime /\ txRemaining \in 0 .. Frame - 1
  BY DEF SensorInv, Clocks
<1>4. tp' = [active |-> s + 1 < Slots, slot |-> s + 1, since |-> tp.since]
  BY <1>2 DEF CanSlot
<1>5. pushing' = IF Kind(s) = "consecutive" THEN Payload ELSE 0
  BY <1>2 DEF CanSlot
<1>6. /\ tp'.slot = s + 1 /\ tp'.since = 0 /\ (tp'.active <=> s + 1 < Slots)
      /\ tp' \in [active : BOOLEAN, slot : 0 .. Slots, since : 0 .. Period - 1]
  <2> HIDE DEF s
  <2>1. s + 1 \in 0 .. Slots /\ (s + 1 < Slots) \in BOOLEAN /\ tp.since \in 0 .. Period - 1
    BY <1>1
  <2> QED  BY <1>1, <1>4, <2>1
<1> HIDE DEF s
<1>7. BridgeTypes'
  <2>1. pushing' \in 0 .. Payload  BY <1>5
  <2>2. tp'.active => tp'.slot \in 1 .. Slots - 1  BY <1>1, <1>6
  <2>3. ~tp'.active => pushing' = 0
    <3>1. ASSUME ~tp'.active PROVE Kind(s) = "protocol"
      BY <1>1, <1>6, <3>1, OtherSlots
    <3> QED  BY <1>5, <3>1
  <2> QED  BY <1>1, <1>2, <1>6, <2>1, <2>2, <2>3 DEF BridgeInv, BridgeTypes
<1>8. sent + bridge = Due \/ (Due = Burst /\ sent = 0 /\ bridge = 0)
  BY <1>1 DEF BridgeInv, Account
<1>9. CASE s \in 1 .. Slots - 3
  <2>1. /\ Due < Burst /\ sent + bridge = Due
        /\ Due' = Made(s + 1)
    <3>1. Made(s) \in 0 .. Burst - 1  BY <1>9, SlotIs
    <3>2. tp'.active  BY <1>1, <1>6, <1>9
    <3> QED  BY <1>1, <1>6, <1>8, <3>1, <3>2 DEF Due
  <2>2. ToFrame = IF Kind(s) = "consecutive" THEN 0 ELSE SlotTime
    BY <1>2 DEF ToFrame, s
  <2>3. ToFrame' = SlotTime + (IF Kind(s + 1) = "consecutive" THEN 0 ELSE SlotTime)
    BY <1>2, <1>6 DEF ToFrame
  <2>4. sent > 0 => ToFrame < tick + ByteTime * bridge
    BY <1>1, <2>1 DEF BridgeInv, KeepsUp
  <2>5. (txFromBridge => sent > 0) /\ (sent > 0 => txFromBridge)
        /\ (txFromBridge => txRemaining = 0) /\ (wire = "sensor" => sent = 0)
    BY <1>1, <2>1 DEF BridgeInv, OneOwner
  <2>6. CASE Kind(s) = "consecutive"
    <3>1. pushing' = Payload /\ Due' = Due + Payload
      BY <1>1, <1>5, <1>9, <2>1, <2>6, SlotIs
    <3>2. sent' + bridge' + pushing' = Due'
      BY <1>1, <1>2, <2>1, <3>1
    <3>3. /\ ByteTime * (bridge + Payload) = ByteTime * bridge + ByteTime * Payload
          /\ ByteTime * bridge \in Int /\ ByteTime * Payload \in Int
          /\ 2 * SlotTime < ByteTime * Payload
      BY <1>1, Times, RateAssumption
    <3>4. sent > 0 => SlotTime + SlotTime < tick + ByteTime * (bridge + Payload)
      BY <1>1, <1>3, <2>2, <2>4, <2>6, <3>3
    <3>5. sent > 0 /\ tick = 0 => bridge > 0
      BY <1>1, <1>3, <2>2, <2>4, <2>6
    <3>6. KeepsUp'
      <4>1. ToFrame' = SlotTime \/ ToFrame' = SlotTime + SlotTime  BY <2>3
      <4>2. CASE ToFrame' = SlotTime
        <5>1. sent > 0 => SlotTime < tick + ByteTime * (bridge + Payload)
          BY <1>1, <1>3, <3>3, <3>4
        <5> QED  BY <1>2, <3>1, <3>5, <4>2, <5>1 DEF KeepsUp
      <4>3. CASE ToFrame' = SlotTime + SlotTime
        BY <1>2, <3>1, <3>4, <3>5, <4>3 DEF KeepsUp
      <4> QED  BY <4>1, <4>2, <4>3
    <3>7. OneOwner'
      <4>1. txFromBridge' /\ sent' = 0 => FALSE  BY <1>1, <1>2, <2>5
      <4> QED  BY <1>2, <2>5, <4>1 DEF OneOwner
    <3>8. Drains' /\ ~lost'  BY <1>1, <1>2, <1>6, <1>9 DEF Drains, BridgeInv
    <3> QED  BY <1>7, <3>2, <3>6, <3>7, <3>8 DEF BridgeInv, Account
  <2>7. CASE Kind(s) # "consecutive"
    <3>1. pushing' = 0 /\ Due' = Due /\ Kind(s + 1) = "consecutive"
      BY <1>1, <1>5, <1>9, <2>1, <2>7, SlotIs
    <3>2. sent' + bridge' + pushing' = Due'
      BY <1>1, <1>2, <2>1, <3>1
    <3>3. ToFrame = SlotTime /\ ToFrame' = SlotTime  BY <2>2, <2>3, <2>7, <3>1
    <3>4. bridge + 0 = bridge  BY <1>1
    <3>5. KeepsUp'  BY <1>2, <2>4, <3>1, <3>3, <3>4 DEF KeepsUp
    <3>6. OneOwner'
      <4>1. txFromBridge' /\ sent' = 0 => FALSE  BY <1>1, <1>2, <2>5
      <4> QED  BY <1>2, <2>5, <4>1 DEF OneOwner
    <3>7. Drains' /\ ~lost'  BY <1>1, <1>2, <1>6, <1>9 DEF Drains, BridgeInv
    <3> QED  BY <1>7, <3>2, <3>5, <3>6, <3>7 DEF BridgeInv, Account
  <2> QED  BY <2>6, <2>7
<1>10. CASE s \in {Slots - 2, Slots - 1}
  <2>1. Kind(s) = "protocol" /\ Made(s) = Burst
    BY <1>1, <1>10, OtherSlots
  <2>2. pushing' = 0 /\ Due = Burst  BY <1>1, <1>5, <2>1
  <2>3. Due' = Burst
    <3>1. CASE tp'.active
      <4>1. Made(s + 1) = Burst  BY <1>1, <1>10, OtherSlots
      <4> QED  BY <1>6, <3>1, <4>1 DEF Due
    <3>2. CASE ~tp'.active  BY <3>2 DEF Due
    <3> QED  BY <3>1, <3>2
  <2>4. Account' /\ OneOwner' /\ KeepsUp' /\ ~lost'
    BY <1>1, <1>2, <2>2, <2>3 DEF BridgeInv, Account, OneOwner, KeepsUp
  <2>5. Drains'
    <3>1. CASE tp'.active  BY <3>1 DEF Drains
    <3>2. CASE ~tp'.active
      <4>1. ToBurst' = SlotTime * Period
        <5>1. SlotsToBurst' = Period - 1
          BY <1>6, <3>2 DEF SlotsToBurst
        <5>2. SlotTime + SlotTime * (Period - 1) = SlotTime * Period  OBVIOUS
        <5> QED  BY <1>2, <5>1, <5>2 DEF ToBurst
      <4>2. bridge + txRemaining + 1 <= Burst + Frame /\ bridge + txRemaining \in Nat
        BY <1>1, <1>3
      <4>3. ByteTime * (bridge + txRemaining) + ByteTime <= ByteTime * (Burst + Frame)
            /\ ByteTime * (bridge + txRemaining) \in Int /\ ByteTime * (Burst + Frame) \in Int
        <5>1. bridge + txRemaining \in Int /\ 1 \in Int /\ Burst + Frame \in Int
              /\ bridge + txRemaining + 1 \in Int
          BY <4>2
        <5> QED  BY <4>2, <5>1, Times
      <4>4. ByteTime * (Burst + Frame) < ByteTime * (Burst + Frame + 1)
        <5>1. Burst + Frame \in Int /\ 1 \in Int  OBVIOUS
        <5>2. ByteTime * (Burst + Frame + 1) = ByteTime * (Burst + Frame) + ByteTime
          BY <5>1, Times
        <5> QED  BY <4>3, <5>2
      <4>5. ByteTime * (Burst + Frame + 1) \in Int /\ SlotTime * Period \in Int
            /\ ByteTime * (Burst + Frame + 1) + Margin <= SlotTime * Period
            /\ Margin \in Nat
        BY MarginIs
      <4>6. tick + ByteTime * (bridge + txRemaining) + Margin < SlotTime * Period
        BY <1>3, <4>3, <4>4, <4>5
      <4> QED  BY <1>2, <4>1, <4>6 DEF Drains
    <3> QED  BY <3>1, <3>2
  <2> QED  BY <1>7, <2>4, <2>5 DEF BridgeInv
<1> QED  BY <1>1, <1>9, <1>10

\* While bytes of a burst are on their way the bridge has the line, and a byte
\* to send at every tick that is due.
LEMMA NeverCut ==
  ASSUME SensorInv, BridgeInv, tick = 0, sent > 0
  PROVE  bridge > 0 /\ txFromBridge /\ txRemaining = 0
<1> USE Constants, BurstIs
<1>1. /\ pushing \in 0 .. Payload /\ bridge \in Nat /\ sent \in 0 .. Burst - 1
      /\ Due \in 0 .. Burst
  BY BridgeFacts
<1>2. txFromBridge /\ txRemaining = 0  BY DEF BridgeInv, OneOwner
<1>3. CASE pushing > 0
  BY <1>2, <1>3 DEF BridgeInv, KeepsUp
<1>4. CASE pushing = 0 /\ Due = Burst
  BY <1>1, <1>2, <1>4 DEF BridgeInv, Account
<1>5. CASE pushing = 0 /\ Due < Burst
  <2>1. ToFrame < ByteTime * bridge
    BY <1>1, <1>5 DEF BridgeInv, KeepsUp
  <2>2. ToFrame >= 0 /\ ToFrame \in Int  BY DEF ToFrame, SensorInv, Clocks
  <2>3. ByteTime * bridge \in Int /\ ByteTime * bridge > 0  BY <1>1, <2>1, <2>2
  <2> QED  BY <1>1, <1>2, <2>3
<1> QED  BY <1>1, <1>2, <1>3, <1>4, <1>5

\* The arbiter takes a byte from the bridge ring.
LEMMA BridgeByteInv ==
  ASSUME SensorInv, BridgeInv, ByteTick, HasLine, bridge > 0
  PROVE  BridgeInv'
<1> USE Constants, BurstIs
<1>1. /\ pushing \in 0 .. Payload /\ bridge \in Nat /\ sent \in 0 .. Burst - 1
      /\ Due \in 0 .. Burst /\ tp.slot \in 0 .. Slots
      /\ (tp.active => tp.slot \in 1 .. Slots - 1) /\ (~tp.active => pushing = 0)
  BY BridgeFacts
<1>2. slot \in 0 .. SlotTime /\ txRemaining \in 0 .. Frame - 1
  BY DEF SensorInv, Clocks
<1>3. /\ tick = 0 /\ tick' = ByteTime /\ UNCHANGED <<slot, tp, pushing, lost>>
      /\ txFromBridge' = TRUE /\ bridge' = bridge - 1 /\ wire' = "bridge"
      /\ sent' = (sent + 1) % Burst /\ txRemaining' = txRemaining
  BY DEF ByteTick, Arbitrate
<1>4. txRemaining = 0
  BY <1>2 DEF BridgeInv, OneOwner, HasLine
<1>5. sent + bridge + pushing = Due  BY <1>1 DEF BridgeInv, Account
<1>6. Due' = Due /\ ToFrame' = ToFrame /\ ToBurst' = ToBurst
  BY <1>3 DEF Due, ToFrame, ToBurst, SlotsToBurst
<1>7. /\ ByteTime + ByteTime * (bridge - 1 + pushing) = ByteTime * (bridge + pushing)
      /\ ByteTime + ByteTime * (bridge - 1) = ByteTime * bridge
      /\ ByteTime * (bridge + pushing) \in Int /\ ByteTime * bridge \in Int
  <2>1. bridge - 1 + pushing = (bridge + pushing) - 1 /\ bridge + pushing \in Int
        /\ bridge \in Int /\ 1 \in Int
    BY <1>1
  <2> QED  BY <2>1, Times
<1>8. BridgeTypes'
  <2>1. (sent + 1) % Burst \in 0 .. Burst - 1  BY <1>1
  <2>2. bridge - 1 \in Nat  BY <1>1
  <2> QED  BY <1>3, <2>1, <2>2 DEF BridgeInv, BridgeTypes
<1>9. Drains'
  <2>1. CASE tp.active  BY <1>3, <2>1 DEF Drains
  <2>2. CASE ~tp.active
    <3>1. ByteTime * (bridge + 0) + Margin < ToBurst
      BY <1>1, <1>3, <1>4, <2>2 DEF BridgeInv, Drains, AtRest
    <3>2. bridge + 0 = bridge /\ (bridge - 1) + 0 = bridge - 1  BY <1>1
    <3> QED  BY <1>3, <1>4, <1>6, <1>7, <3>1, <3>2 DEF Drains
  <2> QED  BY <2>1, <2>2
<1>10. CASE sent + 1 < Burst
  <2>1. sent' = sent + 1  BY <1>1, <1>3, <1>10
  <2>2. Account'
    <3>1. (sent + 1) + (bridge - 1) + pushing = sent + bridge + pushing  BY <1>1
    <3> QED  BY <1>3, <1>5, <1>6, <2>1, <3>1 DEF Account
  <2>3. OneOwner'
    <3>1. sent' # 0  BY <1>1, <2>1
    <3> QED  BY <1>3, <1>4, <3>1 DEF OneOwner
  <2>4. Due < Burst => ToFrame < ByteTime * (bridge + pushing)
    <3>1. CASE sent > 0  BY <1>1, <1>3, <3>1 DEF BridgeInv, KeepsUp
    <3>2. CASE sent = 0 /\ Due < Burst
      <4>1. ~txFromBridge  BY <3>2 DEF BridgeInv, OneOwner
      <4>2. bridge >= Payload  BY <1>4, <4>1 DEF HasLine
      <4>3. Payload <= bridge + pushing /\ bridge + pushing \in Int  BY <1>1, <4>2
      <4>4. ByteTime * Payload <= ByteTime * (bridge + pushing) /\ ByteTime * Payload \in Int
        BY <4>3, Times
      <4>5. ToFrame \in Int /\ ToFrame <= 2 * SlotTime  BY <1>2 DEF ToFrame
      <4> QED  BY <1>7, <4>4, <4>5, RateAssumption
    <3> QED  BY <1>1, <3>1, <3>2
  <2>5. KeepsUp'  BY <1>3, <1>6, <1>7, <2>4 DEF KeepsUp
  <2> QED  BY <1>3, <1>8, <1>9, <2>2, <2>3, <2>5 DEF BridgeInv
<1>11. CASE sent + 1 = Burst
  <2>1. sent' = 0  BY <1>1, <1>3, <1>11
  <2>2. bridge = 1 /\ pushing = 0 /\ Due = Burst  BY <1>1, <1>5, <1>11
  <2>3. bridge' = 0 /\ pushing' = 0 /\ Due' = Burst  BY <1>3, <1>6, <2>2
  <2>4. Account' /\ KeepsUp'  BY <2>1, <2>3 DEF Account, KeepsUp
  <2>5. OneOwner'  BY <1>3, <1>4, <2>1, <2>3 DEF OneOwner
  <2> QED  BY <1>3, <1>8, <1>9, <2>4, <2>5 DEF BridgeInv
<1> QED  BY <1>1, <1>10, <1>11

\* The arbiter takes no byte from the bridge ring: none of a burst is waiting
\* to follow one that has been sent.
LEMMA OtherByteInv ==
  ASSUME SensorInv, BridgeInv, ByteTick, ~(HasLine /\ bridge > 0)
  PROVE  BridgeInv'
<1> USE Constants, BurstIs
<1>1. /\ pushing \in 0 .. Payload /\ bridge \in Nat /\ sent \in 0 .. Burst - 1
      /\ Due \in 0 .. Burst /\ (~tp.active => pushing = 0 /\ Due = Burst)
  BY BridgeFacts DEF Due
<1>2. slot \in 0 .. SlotTime /\ txRemaining \in 0 .. Frame - 1 /\ sensor >= Frame
      /\ sensor \in Nat /\ tick = 0
  BY SensorReady DEF SensorInv, Clocks, ByteTick
<1>3. /\ tick' = ByteTime /\ UNCHANGED <<slot, tp, pushing, lost, bridge, sent>>
      /\ txFromBridge' = FALSE
  BY DEF ByteTick, Arbitrate
<1>4. Due' = Due /\ ToFrame' = ToFrame /\ ToBurst' = ToBurst
  BY <1>3 DEF Due, ToFrame, ToBurst, SlotsToBurst
<1>5. sent = 0
  <2>1. ~(sent > 0)
    <3>1. ASSUME sent > 0 PROVE FALSE
      <4>1. bridge > 0 /\ txFromBridge /\ txRemaining = 0  BY <1>2, <3>1, NeverCut
      <4> QED  BY <4>1 DEF HasLine
    <3> QED  BY <3>1
  <2> QED  BY <1>1, <2>1
<1>6. BridgeTypes'  BY <1>3 DEF BridgeInv, BridgeTypes
<1>7. Account' /\ OneOwner' /\ KeepsUp' /\ ~lost'
  BY <1>3, <1>4, <1>5 DEF BridgeInv, Account, OneOwner, KeepsUp
<1>8. Drains'
  <2>1. CASE tp.active  BY <1>3, <2>1 DEF Drains
  <2>2. CASE ~tp.active /\ bridge = 0
    BY <1>1, <1>3, <1>5, <2>2 DEF Drains, AtRest
  <2>3. CASE ~tp.active /\ bridge > 0
    <3>1. bridge = Burst  BY <1>1, <1>5, <2>3 DEF BridgeInv, Account
    <3>2. txRemaining > 0
      BY <1>1, <1>2, <2>3, <3>1 DEF HasLine
    <3>3. txRemaining' = txRemaining - 1
      <4>1. SensorTurn /\ sensor > 0  BY <1>2, <3>2 DEF SensorTurn
      <4> QED  BY <3>2, <4>1 DEF ByteTick, Arbitrate
    <3>4. ByteTime * (bridge + txRemaining) + Margin < ToBurst
      BY <1>1, <1>2, <2>3 DEF BridgeInv, Drains, AtRest
    <3>5. ByteTime + ByteTime * (bridge + (txRemaining - 1)) = ByteTime * (bridge + txRemaining)
      <4>1. bridge + (txRemaining - 1) = (bridge + txRemaining) - 1
            /\ bridge + txRemaining \in Int /\ 1 \in Int
        BY <1>1, <1>2
      <4> QED  BY <4>1, Times
    <3> QED  BY <1>3, <1>4, <3>3, <3>4, <3>5 DEF Drains
  <2> QED  BY <1>1, <2>1, <2>2, <2>3
<1> QED  BY <1>6, <1>7, <1>8 DEF BridgeInv

LEMMA AdvanceInv ==
  ASSUME SensorInv, BridgeInv, Advance
  PROVE  BridgeInv'
<1> USE Constants, BurstIs
<1>1. /\ tick \in Nat /\ slot \in Nat /\ wake \in Nat /\ txRemaining \in Nat
      /\ bridge \in Nat /\ pushing = 0 /\ tp.slot \in Int /\ tp.since \in Int
  BY BridgeFacts DEF SensorInv, Clocks, Advance
<1>2. /\ tick' = tick - Earliest /\ slot' = slot - Earliest
      /\ UNCHANGED <<tp, pushing, bridge, lost, txRemaining, txFromBridge, wire, sent>>
  BY DEF Advance, arbiter
<1>3. Earliest \in Nat  BY <1>1, EarliestIs
<1>4. Due' = Due  BY <1>2 DEF Due
<1>5. BridgeTypes' /\ Account' /\ OneOwner' /\ ~lost'
  BY <1>2, <1>4 DEF BridgeInv, BridgeTypes, Account, OneOwner
<1>6. KeepsUp'
  <2>1. ToFrame' = ToFrame - Earliest /\ ToFrame \in Int
    BY <1>1, <1>2, <1>3 DEF ToFrame
  <2>2. ByteTime * (bridge + pushing) \in Int  BY <1>1
  <2>3. sent > 0 /\ Due < Burst =>
          ToFrame - Earliest < (tick - Earliest) + ByteTime * (bridge + pushing)
    BY <1>1, <1>3, <2>1, <2>2 DEF BridgeInv, KeepsUp
  <2> QED  BY <1>1, <1>2, <1>4, <2>1, <2>3 DEF KeepsUp
<1>7. Drains'
  <2> DEFINE n == SlotsToBurst
  <2>1. SlotsToBurst' = n /\ n \in Int  BY <1>1, <1>2 DEF SlotsToBurst
  <2> HIDE DEF n
  <2>2. SlotTime * n \in Int  BY <2>1
  <2>3. ToBurst = slot + SlotTime * n /\ ToBurst' = slot - Earliest + SlotTime * n
    BY <1>2, <2>1 DEF ToBurst, n
  <2>4. ToBurst' = ToBurst - Earliest /\ ToBurst \in Int  BY <1>1, <1>3, <2>2, <2>3
  <2>5. ByteTime * (bridge + txRemaining) \in Int  BY <1>1
  <2>6. ~tp.active /\ ~AtRest =>
          (tick - Earliest) + ByteTime * (bridge + txRemaining) + Margin < ToBurst - Earliest
    BY <1>1, <1>3, <2>4, <2>5, MarginIs DEF BridgeInv, Drains
  <2>7. AtRest' = AtRest  BY <1>2 DEF AtRest
  <2> QED  BY <1>2, <2>4, <2>6, <2>7 DEF Drains
<1> QED  BY <1>5, <1>6, <1>7 DEF BridgeInv

LEMMA RingNext == SensorInv /\ BridgeInv /\ [Next]_vars => BridgeInv'
<1> SUFFICES ASSUME SensorInv, BridgeInv, [Next]_vars PROVE BridgeInv'  OBVIOUS
<1>1. CASE CanSlot
  <2>1. tp.active \in BOOLEAN  BY BridgeFacts
  <2> QED  BY <1>1, <2>1, IdleSlot, BusySlot
<1>2. CASE CanPush  BY <1>2, PushInv
<1>3. CASE ByteTick  BY <1>3, BridgeByteInv, OtherByteInv
<1>4. CASE SensorTask \/ SensorPush \/ UNCHANGED vars
  <2>1. UNCHANGED <<tick, slot, tp, pushing, bridge, lost, txRemaining, txFromBridge, wire, sent>>
    BY <1>4 DEF SensorTask, SensorPush, vars, timers, arbiter
  <2> QED
    BY <2>1 DEF BridgeInv, BridgeTypes, Account, OneOwner, KeepsUp, Drains, Due,
       ToFrame, ToBurst, SlotsToBurst, AtRest
<1>5. CASE Advance  BY <1>5, AdvanceInv
<1> QED  BY <1>1, <1>2, <1>3, <1>4, <1>5 DEF Next

LEMMA StreamsHold == SensorInv /\ BridgeInv => StreamsWhole
BY Constants DEF SensorInv, BridgeInv, BridgeTypes, OneOwner, StreamsWhole

\* Neither stream is cut, whatever the phases of the timers: the arbiter gives
\* a burst the line until all of it is sent (engine_on_byte_tick).
THEOREM StreamsAreWhole == Spec => []StreamsWhole
BY SensorInit, SensorNext, RingInit, RingNext, StreamsHold, PTL DEF Spec

(***************************************************************************)
(* The trace of the bridge ring.                                           *)
(***************************************************************************)

\* Byte ticks to the one that ends the trace.
TicksOfTrace == TraceEvery * (TraceSamples - trace.len) + (TraceEvery - ticks)

\* A trace is taken before the next burst; it and the peak are of the burst.
TraceInv ==
  /\ ticks \in 0 .. TraceEvery - 1
  /\ trace \in [active : BOOLEAN, len : 0 .. TraceSamples, top : 0 .. BridgeRing]
  /\ done \in [ready : BOOLEAN, top : 0 .. BridgeRing]
  /\ top \in 0 .. BridgeRing /\ bridge <= top
  /\ trace.active => tick + ByteTime * (TicksOfTrace - 1) < ToBurst
  /\ trace.active => trace.top <= top
  /\ done.ready /\ ~trace.active => done.top <= top
  /\ bursts \in 0 .. MaxBursts
  /\ age \in Nat
  /\ tp.active => age = tp.slot - 1
  /\ ~tp.active => age <= Slots - 1 + tp.since

LEMMA TraceInit == Init => TraceInv
<1> SUFFICES ASSUME Init PROVE TraceInv  OBVIOUS
<1>1. /\ tp.active = FALSE /\ tp.since = Period - 1 /\ bridge = 0 /\ ticks = 0
      /\ trace = [active |-> FALSE, len |-> 0, top |-> 0]
      /\ done = [ready |-> FALSE, top |-> 0]
      /\ age = 0 /\ top = 0 /\ bursts = 0
  BY DEF Init
<1>2. trace \in [active : BOOLEAN, len : 0 .. TraceSamples, top : 0 .. BridgeRing]
      /\ ~trace.active
  BY <1>1, Constants
<1>3. done \in [ready : BOOLEAN, top : 0 .. BridgeRing] /\ ~done.ready
  BY <1>1, Constants
<1>4. ~tp.active /\ age <= Slots - 1 + tp.since  BY <1>1, BurstIs, Constants
<1>5. ticks \in 0 .. TraceEvery - 1 /\ top \in 0 .. BridgeRing /\ bridge <= top
      /\ bursts \in 0 .. MaxBursts /\ age \in Nat
  BY <1>1, Constants
<1> QED  BY <1>2, <1>3, <1>4, <1>5 DEF TraceInv

\* What a slot does to the generator, case by case.
LEMMA SlotSteps ==
  ASSUME BridgeInv, CanSlot
  PROVE  /\ tp.active => /\ ~Starts /\ tp'.slot = tp.slot + 1 /\ tp'.since = 0
                         /\ (tp'.active <=> tp.slot + 1 < Slots)
                         /\ pushing' = IF Kind(tp.slot) = "consecutive" THEN Payload ELSE 0
         /\ Starts => /\ ~tp.active /\ tp.since = Period - 1
                      /\ tp'.active /\ tp'.slot = 1 /\ tp'.since = 0 /\ pushing' = 0
         /\ ~tp.active /\ ~Starts => /\ ~tp'.active /\ tp'.slot = tp.slot
                                    /\ tp'.since = tp.since + 1 /\ pushing' = 0
<1> USE Constants, BurstIs
<1>1. /\ tp \in [active : BOOLEAN, slot : 0 .. Slots, since : 0 .. Period - 1]
      /\ tp.slot \in 0 .. Slots /\ tp.since \in 0 .. Period - 1
      /\ (tp.active => tp.since = 0) /\ pushing = 0
  BY BridgeFacts DEF CanSlot
<1>2. CASE tp.active
  <2>1. ~Starts  BY <1>2 DEF Starts
  <2>2. /\ tp' = [active |-> tp.slot + 1 < Slots, slot |-> tp.slot + 1, since |-> tp.since]
        /\ pushing' = IF Kind(tp.slot) = "consecutive" THEN Payload ELSE 0
    BY <1>2, <2>1 DEF CanSlot
  <2> QED  BY <1>1, <1>2, <2>1, <2>2
<1>3. CASE Starts
  <2>1. ~tp.active /\ tp.since = Period - 1  BY <1>1, <1>3 DEF Starts
  <2>2. tp' = [active |-> 0 + 1 < Slots, slot |-> 0 + 1, since |-> 0]
    BY <1>3 DEF CanSlot
  <2>3. (0 + 1 < Slots) = TRUE /\ 0 + 1 = 1  OBVIOUS
  <2>4. pushing' = 0  BY <1>3, OtherSlots DEF CanSlot
  <2> QED  BY <1>3, <2>1, <2>2, <2>3, <2>4
<1>4. CASE ~tp.active /\ ~Starts
  <2>1. tp' = [tp EXCEPT !.since = @ + 1] /\ pushing' = pushing
    BY <1>4 DEF CanSlot
  <2> QED  BY <1>1, <1>4, <2>1
<1> QED  BY <1>2, <1>3, <1>4

\* A slot is a step on the way to the next burst.
LEMMA SlotToBurst ==
  ASSUME BridgeInv, CanSlot
  PROVE  /\ ToBurst \in Int
         /\ ~Starts => ToBurst' = ToBurst
         /\ Starts => ToBurst = 0 /\ ToBurst' = SlotTime * (Slots + Period - 1)
<1> USE Constants, BurstIs
<1>1. /\ tp.slot \in 0 .. Slots /\ tp.since \in 0 .. Period - 1 /\ tp.active \in BOOLEAN
      /\ (tp.active => tp.slot \in 1 .. Slots - 1 /\ tp.since = 0)
      /\ slot = 0 /\ slot' = SlotTime
  BY BridgeFacts DEF CanSlot
<1> DEFINE n == SlotsToBurst
           m == SlotsToBurst'
<1>2. n \in Int /\ m \in Int /\ (~Starts => n = m + 1)
      /\ (Starts => n = 0 /\ m = Period - 1 + (Slots - 1))
  <2>1. CASE tp.active
    <3>1. ~Starts /\ n = Period - 1 - 0 + (Slots - tp.slot)  BY <1>1, <2>1, SlotSteps DEF SlotsToBurst
    <3>2. tp'.since = 0 /\ tp'.slot = tp.slot + 1 /\ (tp'.active <=> tp.slot + 1 < Slots)
      BY <2>1, SlotSteps
    <3>3. m = Period - 1 - 0 + (Slots - (tp.slot + 1))
      <4>1. CASE tp'.active  BY <3>2, <4>1 DEF SlotsToBurst
      <4>2. CASE ~tp'.active
        <5>2. ~(tp.slot + 1 < Slots)  BY <3>2, <4>2
        <5>1. Slots - (tp.slot + 1) = 0  BY <1>1, <2>1, <5>2
        <5> QED  BY <3>2, <4>2, <5>1 DEF SlotsToBurst
      <4> QED  BY <4>1, <4>2
    <3> QED  BY <1>1, <3>1, <3>3
  <2>2. CASE Starts
    <3>1. n = 0  BY <1>1, <2>2, SlotSteps DEF SlotsToBurst
    <3>2. m = Period - 1 - 0 + (Slots - 1)  BY <2>2, SlotSteps DEF SlotsToBurst
    <3> QED  BY <2>2, <3>1, <3>2
  <2>3. CASE ~tp.active /\ ~Starts
    <3>1. n = Period - 1 - tp.since + 0  BY <1>1, <2>3 DEF SlotsToBurst
    <3>2. m = Period - 1 - (tp.since + 1) + 0  BY <2>3, SlotSteps DEF SlotsToBurst
    <3> QED  BY <1>1, <2>3, <3>1, <3>2
  <2> QED  BY <2>1, <2>2, <2>3
<1>3. ToBurst = 0 + SlotTime * n /\ ToBurst' = SlotTime + SlotTime * m
  BY <1>1 DEF ToBurst
<1> HIDE DEF n, m
<1>4. /\ SlotTime * n \in Int /\ SlotTime * m \in Int
      /\ SlotTime * (m + 1) = SlotTime * m + SlotTime
      /\ SlotTime * 0 = 0
  BY <1>2
<1>5. Starts => ToBurst' = SlotTime * (Slots + Period - 1)
  <2>1. ASSUME Starts PROVE m + 1 = Slots + Period - 1  BY <1>2, <2>1
  <2> QED  BY <1>2, <1>3, <1>4, <2>1
<1> QED  BY <1>2, <1>3, <1>4, <1>5

\* A new trace is through before the burst after this one.
LEMMA TraceSlot ==
  ASSUME SensorInv, BridgeInv, TraceInv, CanSlot
  PROVE  TraceInv'
<1> USE Constants, BurstIs
<1>1. /\ ticks \in 0 .. TraceEvery - 1 /\ tick \in 0 .. ByteTime
      /\ bridge \in Nat /\ bridge <= Burst /\ top \in 0 .. BridgeRing /\ bridge <= top
      /\ tp.slot \in 0 .. Slots /\ tp.since \in 0 .. Period - 1 /\ age \in Nat
      /\ bursts \in 0 .. MaxBursts
      /\ (tp.active => tp.slot \in 1 .. Slots - 1 /\ tp.since = 0)
  <2>1. pushing = 0 /\ bridge + pushing <= Burst /\ bridge \in Nat  BY BridgeFacts DEF CanSlot
  <2>2. bridge <= Burst  BY <2>1
  <2> QED  BY <2>1, <2>2, BridgeFacts DEF SensorInv, Clocks, TraceInv
<1>2. UNCHANGED <<tick, bridge, ticks, done>>
  BY DEF CanSlot
<1>3. CASE Starts
  <2>1. trace' = [active |-> TRUE, len |-> 0, top |-> 0] /\ top' = bridge /\ age' = 0
        /\ bursts' = IF Starts /\ bursts < MaxBursts THEN bursts + 1 ELSE bursts
    BY <1>3 DEF CanSlot
  <2>2. bursts' \in 0 .. MaxBursts  BY <1>1, <2>1
  <2>3. trace' \in [active : BOOLEAN, len : 0 .. TraceSamples, top : 0 .. BridgeRing]
        /\ trace'.active /\ trace'.top = 0 /\ trace'.len = 0
    BY <2>1
  <2>4. ~tp.active /\ tp'.active /\ tp'.slot = 1  BY <1>3, SlotSteps
  <2>5. bridge \in 0 .. BridgeRing  BY <1>1, RateAssumption
  <2>6. tick' + ByteTime * (TicksOfTrace' - 1) < ToBurst'
    <3>1. TicksOfTrace' = TraceEvery * (TraceSamples - 0) + (TraceEvery - ticks)
      BY <1>2, <2>3 DEF TicksOfTrace
    <3> DEFINE n == TraceEvery * (TraceSamples + 1)
               d == TraceEvery * (TraceSamples - 0) + (TraceEvery - ticks)
    <3>2. n \in Int /\ d \in Int /\ d <= n
      <4>1. TraceEvery * (TraceSamples + 1) = TraceEvery * TraceSamples + TraceEvery
            /\ TraceEvery * TraceSamples \in Int /\ TraceSamples - 0 = TraceSamples
        OBVIOUS
      <4> QED  BY <1>1, <4>1
    <3>3. ToBurst' = SlotTime * (Slots + Period - 1) /\ SlotTime * (Slots + Period - 1) \in Int
      BY <1>3, SlotToBurst
    <3>4. ByteTime * n < SlotTime * (Slots + Period - 1)  BY RateAssumption
    <3>5. TicksOfTrace' = d  BY <3>1
    <3> HIDE DEF n, d
    <3>6. ByteTime * (d - 1) = ByteTime * d - ByteTime /\ ByteTime * d <= ByteTime * n
          /\ ByteTime * d \in Int /\ ByteTime * n \in Int
      <4>1. 1 \in Int  OBVIOUS
      <4> QED  BY <3>2, <4>1, Times
    <3>7. tick + ByteTime * (d - 1) < SlotTime * (Slots + Period - 1)
      BY <1>1, <3>3, <3>4, <3>6
    <3> QED  BY <1>2, <3>3, <3>5, <3>7
  <2> QED
    BY <1>1, <1>2, <2>1, <2>2, <2>3, <2>4, <2>5, <2>6 DEF TraceInv
<1>4. CASE ~Starts
  <2>1. UNCHANGED <<trace, top, bursts>> /\ age' = age + 1
    BY <1>4 DEF CanSlot
  <2>2. ToBurst' = ToBurst /\ TicksOfTrace' = TicksOfTrace
    BY <1>2, <1>4, <2>1, SlotToBurst DEF TicksOfTrace
  <2>3. (tp'.active => age' = tp'.slot - 1) /\ (~tp'.active => age' <= Slots - 1 + tp'.since)
    <3>1. CASE tp.active
      <4>1. age = tp.slot - 1  BY <3>1 DEF TraceInv
      <4>2. age + 1 = tp.slot + 1 - 1 /\ age + 1 <= Slots - 1 + 0  BY <1>1, <3>1, <4>1
      <4>3. tp'.slot = tp.slot + 1 /\ tp'.since = 0  BY <3>1, SlotSteps
      <4>4. age' = tp'.slot - 1
        <5>1. tp'.slot - 1 = tp.slot + 1 - 1  BY <1>1, <4>3
        <5> QED  BY <2>1, <4>2, <5>1
      <4>5. age' <= Slots - 1 + tp'.since
        <5>1. Slots - 1 + tp'.since = Slots - 1 + 0  BY <4>3
        <5> QED  BY <2>1, <4>2, <5>1
      <4> QED  BY <4>4, <4>5
    <3>2. CASE ~tp.active
      <4>1. age + 1 <= Slots - 1 + (tp.since + 1)  BY <1>1, <3>2 DEF TraceInv
      <4> QED  BY <1>4, <2>1, <3>2, <4>1, SlotSteps
    <3> QED  BY <3>1, <3>2
  <2>4. age' \in Nat  BY <1>1, <2>1
  <2> QED  BY <1>2, <2>1, <2>2, <2>3, <2>4 DEF TraceInv
<1> QED  BY <1>3, <1>4

\* The sampler: a tick nearer to the end of the trace.
LEMMA TraceByte ==
  ASSUME SensorInv, BridgeInv, TraceInv, ByteTick
  PROVE  TraceInv'
<1> USE Constants, BurstIs
<1>1. /\ ticks \in 0 .. TraceEvery - 1 /\ tick = 0
      /\ trace \in [active : BOOLEAN, len : 0 .. TraceSamples, top : 0 .. BridgeRing]
      /\ trace.active \in BOOLEAN /\ trace.len \in 0 .. TraceSamples
      /\ trace.top \in 0 .. BridgeRing
      /\ bridge \in Nat /\ top \in 0 .. BridgeRing /\ bridge <= top
  BY BridgeFacts DEF TraceInv, ByteTick
<1>2. /\ tick' = ByteTime
      /\ UNCHANGED <<slot, tp, age, top, bursts>>
      /\ bridge' = bridge \/ (bridge > 0 /\ bridge' = bridge - 1)
  BY DEF ByteTick, Arbitrate, history
<1>3. ToBurst' = ToBurst  BY <1>2 DEF ToBurst, SlotsToBurst
<1>4. bridge' \in 0 .. BridgeRing /\ bridge' <= top
  <2>1. CASE bridge' = bridge  BY <1>1, <2>1
  <2>2. CASE bridge > 0 /\ bridge' = bridge - 1  BY <1>1, <2>2
  <2> QED  BY <1>2, <2>1, <2>2
<1>5. ticks' = (ticks + 1) % TraceEvery  BY DEF ByteTick, Trace
<1> DEFINE d == TraceEvery * (TraceSamples - trace.len)
<1>6. d \in Int /\ TicksOfTrace = d + (TraceEvery - ticks)
  BY <1>1 DEF TicksOfTrace
<1>7. trace.active => ByteTime * (TicksOfTrace - 1) < ToBurst
  <2>1. ByteTime * (TicksOfTrace - 1) \in Int
    <3> DEFINE n == TicksOfTrace
    <3>1. n - 1 \in Int  BY <1>1, <1>6
    <3> HIDE DEF n
    <3>2. ByteTime * (n - 1) \in Int  BY <3>1, Times
    <3> QED  BY <3>2 DEF n
  <2> QED  BY <1>1, <2>1 DEF TraceInv
<1>8. ASSUME trace'.active, trace.active, TicksOfTrace' = TicksOfTrace - 1
      PROVE  tick' + ByteTime * (TicksOfTrace' - 1) < ToBurst'
  <2> DEFINE n == TicksOfTrace
             b == ToBurst
  <2>1. n \in Int  BY <1>1, <1>6
  <2>2. b' = b /\ ByteTime * (n - 1) < b /\ TicksOfTrace' = n - 1  BY <1>3, <1>7, <1>8
  <2> HIDE DEF n
  <2>3. ByteTime * (n - 1) = ByteTime + ByteTime * ((n - 1) - 1)
    <3>1. n - 1 \in Int /\ 1 \in Int  BY <2>1
    <3> QED  BY <3>1, Times
  <2>4. tick' + ByteTime * (TicksOfTrace' - 1) = ByteTime * (n - 1)  BY <1>2, <2>2, <2>3
  <2> QED  BY <2>2, <2>4
<1>9. UNCHANGED <<tp, age, top, bursts>>
  BY <1>2
<1>10. CASE ticks + 1 < TraceEvery \/ ~trace.active
  <2>1. UNCHANGED <<trace, done>>
    <3>1. CASE ticks + 1 < TraceEvery
      <4>1. ticks' # 0  BY <1>1, <1>5, <3>1
      <4> QED  BY <4>1 DEF ByteTick, Trace
    <3>2. CASE ~trace.active  BY <3>2 DEF ByteTick, Trace
    <3> QED  BY <1>10, <3>1, <3>2
  <2>2. ticks' \in 0 .. TraceEvery - 1  BY <1>1, <1>5
  <2>3. trace.active => tick' + ByteTime * (TicksOfTrace' - 1) < ToBurst'
    <3>1. ASSUME trace.active PROVE TicksOfTrace' = TicksOfTrace - 1
      <4>1. ticks' = ticks + 1  BY <1>1, <1>5, <1>10, <3>1
      <4>2. TicksOfTrace' = d + (TraceEvery - (ticks + 1))  BY <2>1, <4>1 DEF TicksOfTrace
      <4> QED  BY <1>1, <1>6, <4>2
    <3> QED  BY <1>8, <2>1, <3>1
  <2> QED  BY <1>1, <1>4, <1>9, <2>1, <2>2, <2>3 DEF TraceInv
<1>11. CASE ticks + 1 = TraceEvery /\ trace.active /\ trace.len < TraceSamples
  <2>1. ticks' = 0  BY <1>1, <1>5, <1>11
  <2>2. /\ trace' = [trace EXCEPT !.len = @ + 1, !.top = IF bridge' > @ THEN bridge' ELSE @]
        /\ done' = done
    BY <1>11, <2>1 DEF ByteTick, Trace, HasRoom
  <2>3. /\ trace'.active /\ trace'.len = trace.len + 1
        /\ trace'.top = IF bridge' > trace.top THEN bridge' ELSE trace.top
    BY <1>1, <1>11, <2>2
  <2>4. trace.len + 1 \in 0 .. TraceSamples
        /\ (IF bridge' > trace.top THEN bridge' ELSE trace.top) \in 0 .. BridgeRing
    BY <1>1, <1>4, <1>11
  <2>5. trace' \in [active : BOOLEAN, len : 0 .. TraceSamples, top : 0 .. BridgeRing]
    BY <1>1, <2>2, <2>4
  <2>6. trace.top <= top  BY <1>11 DEF TraceInv
  <2>7. trace'.top <= top'
    <3>1. CASE trace'.top = bridge'  BY <1>2, <1>4, <3>1
    <3>2. CASE trace'.top = trace.top  BY <1>2, <2>6, <3>2
    <3> QED  BY <2>3, <3>1, <3>2
  <2>8. TicksOfTrace' = TicksOfTrace - 1
    <3>1. TicksOfTrace' = TraceEvery * (TraceSamples - (trace.len + 1)) + (TraceEvery - 0)
      BY <2>1, <2>3 DEF TicksOfTrace
    <3>2. TraceEvery * (TraceSamples - (trace.len + 1)) = d - TraceEvery
      BY <1>1
    <3> HIDE DEF d
    <3> QED  BY <1>1, <1>6, <1>11, <3>1, <3>2
  <2>9. tick' + ByteTime * (TicksOfTrace' - 1) < ToBurst'  BY <1>8, <1>11, <2>3, <2>8
  <2>10. ticks' \in 0 .. TraceEvery - 1  BY <2>1
  <2> QED  BY <1>1, <1>4, <1>9, <2>2, <2>3, <2>5, <2>7, <2>9, <2>10 DEF TraceInv
<1>12. CASE ticks + 1 = TraceEvery /\ trace.active /\ trace.len = TraceSamples
  <2>1. ticks' = 0  BY <1>1, <1>5, <1>12
  <2>2. /\ done' = [ready |-> TRUE, top |-> trace.top]
        /\ trace' = [active |-> FALSE, len |-> 0, top |-> 0]
    BY <1>12, <2>1 DEF ByteTick, Trace, HasRoom
  <2>3. /\ trace' \in [active : BOOLEAN, len : 0 .. TraceSamples, top : 0 .. BridgeRing]
        /\ done' \in [ready : BOOLEAN, top : 0 .. BridgeRing]
        /\ ~trace'.active /\ done'.top = trace.top
    BY <1>1, <2>2
  <2>4. done'.top <= top'  BY <1>2, <1>12, <2>3 DEF TraceInv
  <2>5. ticks' \in 0 .. TraceEvery - 1  BY <2>1
  <2> QED  BY <1>1, <1>4, <1>9, <2>3, <2>4, <2>5 DEF TraceInv
<1> QED  BY <1>1, <1>10, <1>11, <1>12

LEMMA TraceNext == SensorInv /\ BridgeInv /\ TraceInv /\ [Next]_vars => TraceInv'
<1> SUFFICES ASSUME SensorInv, BridgeInv, TraceInv, [Next]_vars PROVE TraceInv'  OBVIOUS
<1>1. CASE CanSlot  BY <1>1, TraceSlot
<1>2. CASE CanPush
  <2>1. /\ pushing \in 0 .. Payload /\ bridge \in Nat /\ bridge + pushing <= Burst
        /\ top \in 0 .. BridgeRing /\ bridge <= top
    BY BridgeFacts DEF TraceInv
  <2>2. /\ pushing > 0
        /\ UNCHANGED <<tick, slot, tp, ticks, trace, done, age, bursts>>
    BY <1>2 DEF CanPush, timers, tracing
  <2>3. bridge < BridgeRing  BY <2>1, <2>2, RateAssumption, BurstIs, Constants
  <2>4. bridge' = bridge + 1 /\ top' = IF bridge + 1 > top THEN bridge + 1 ELSE top
    BY <1>2, <2>3 DEF CanPush
  <2>5. top' \in 0 .. BridgeRing /\ bridge' <= top'
    <3>1. CASE bridge + 1 > top  BY <2>1, <2>3, <2>4, <3>1, Constants
    <3>2. CASE ~(bridge + 1 > top)  BY <2>1, <2>3, <2>4, <3>2, Constants
    <3> QED  BY <3>1, <3>2
  <2>6. trace.top \in Int /\ done.top \in Int  BY Constants DEF TraceInv
  <2>7. trace.active => trace.top <= top'
    <3>1. CASE top' = top  BY <3>1 DEF TraceInv
    <3>2. CASE top' = bridge + 1 /\ bridge + 1 > top  BY <2>1, <2>6, <3>2, Constants DEF TraceInv
    <3> QED  BY <2>4, <3>1, <3>2
  <2>8. done.ready /\ ~trace.active => done.top <= top'
    <3>1. CASE top' = top  BY <3>1 DEF TraceInv
    <3>2. CASE top' = bridge + 1 /\ bridge + 1 > top  BY <2>1, <2>6, <3>2, Constants DEF TraceInv
    <3> QED  BY <2>4, <3>1, <3>2
  <2>9. TicksOfTrace' = TicksOfTrace /\ ToBurst' = ToBurst
    BY <2>2 DEF TicksOfTrace, ToBurst, SlotsToBurst
  <2> QED  BY <2>2, <2>5, <2>7, <2>8, <2>9 DEF TraceInv
<1>3. CASE ByteTick  BY <1>3, TraceByte
<1>4. CASE SensorTask \/ SensorPush \/ UNCHANGED vars
  <2>1. UNCHANGED <<tick, slot, tp, bridge, ticks, trace, done, age, top, bursts>>
    BY <1>4 DEF SensorTask, SensorPush, vars, timers, tracing, history
  <2> QED  BY <2>1 DEF TraceInv, TicksOfTrace, ToBurst, SlotsToBurst
<1>5. CASE Advance
  <2> USE Constants, BurstIs
  <2>1. /\ tick \in Nat /\ slot \in Nat /\ wake \in Nat /\ tp.slot \in Int /\ tp.since \in Int
        /\ trace.len \in Int /\ ticks \in Int
    BY BridgeFacts DEF SensorInv, Clocks, TraceInv
  <2>2. /\ tick' = tick - Earliest /\ slot' = slot - Earliest
        /\ UNCHANGED <<tp, bridge, ticks, trace, done, age, top, bursts>>
    BY <1>5 DEF Advance, tracing, history
  <2>3. Earliest \in Nat  BY <2>1, EarliestIs
  <2>4. TicksOfTrace' = TicksOfTrace  BY <2>2 DEF TicksOfTrace
  <2>5. ToBurst' = ToBurst - Earliest /\ ToBurst \in Int
    <3> DEFINE n == SlotsToBurst
    <3>1. SlotsToBurst' = n /\ n \in Int  BY <2>1, <2>2 DEF SlotsToBurst
    <3>2. ToBurst = slot + SlotTime * n /\ ToBurst' = slot - Earliest + SlotTime * n
      BY <2>2, <3>1 DEF ToBurst
    <3> HIDE DEF n
    <3>3. SlotTime * n \in Int  BY <3>1
    <3> QED  BY <2>1, <2>3, <3>2, <3>3
  <2>6. ByteTime * (TicksOfTrace - 1) \in Int
    <3> DEFINE n == TicksOfTrace
    <3>1. n \in Int  BY <2>1 DEF TicksOfTrace
    <3> HIDE DEF n
    <3>2. n - 1 \in Int  BY <3>1
    <3>3. ByteTime * (n - 1) \in Int  BY <3>2, Times
    <3> QED  BY <3>3 DEF n
  <2>7. trace.active => (tick - Earliest) + ByteTime * (TicksOfTrace - 1) < ToBurst - Earliest
    BY <2>1, <2>3, <2>5, <2>6 DEF TraceInv
  <2>8. trace'.active => tick' + ByteTime * (TicksOfTrace' - 1) < ToBurst'
    BY <2>2, <2>4, <2>5, <2>7
  <2> QED  BY <2>2, <2>8 DEF TraceInv
<1> QED  BY <1>1, <1>2, <1>3, <1>4, <1>5 DEF Next

LEMMA TypesHold == SensorInv /\ BridgeInv /\ TraceInv => TypeOK
<1> SUFFICES ASSUME SensorInv, BridgeInv, TraceInv PROVE TypeOK  OBVIOUS
<1> USE Constants, BurstIs
<1>1. /\ tp \in [active : BOOLEAN, slot : 0 .. Slots, since : 0 .. Period - 1]
      /\ tp.slot \in 0 .. Slots /\ tp.since \in 0 .. Period - 1 /\ tp.active \in BOOLEAN
      /\ pushing \in 0 .. Payload /\ sent \in 0 .. Burst - 1
  BY BridgeFacts
<1>2. tp \in [active : BOOLEAN, slot : 0 .. Slots, since : 0 .. Period]
  BY <1>1
<1>3. bridge \in 0 .. BridgeRing
  BY BridgeFacts, RateAssumption
<1>4. lost \in BOOLEAN /\ txFromBridge \in BOOLEAN
  BY Zenon DEF BridgeInv, BridgeTypes
<1>5. age \in 0 .. Period + Slots
  <2>1. CASE tp.active  BY <1>1, <2>1 DEF TraceInv
  <2>2. CASE ~tp.active  BY <1>1, <2>2 DEF TraceInv
  <2> QED  BY <2>1, <2>2
<1>6. /\ tick \in 0 .. ByteTime /\ slot \in 0 .. SlotTime /\ wake \in 0 .. KernelTick
      /\ sensor \in 0 .. SensorRing /\ filling \in 0 .. Frame /\ txRemaining \in 0 .. Frame
      /\ wire \in {"bridge", "sensor", "idle"}
  BY DEF SensorInv, Clocks
<1> QED  BY <1>1, <1>2, <1>3, <1>4, <1>5, <1>6 DEF TypeOK, TraceInv

\* Every variable has its type: no occupancy, counter or timer leaves its
\* range, for all the rates that meet RateAssumption (engine.c, isotp.c).
THEOREM TypeIsRight == Spec => []TypeOK
<1> DEFINE Inv == SensorInv /\ BridgeInv /\ TraceInv
<1>1. Init => Inv  BY SensorInit, RingInit, TraceInit
<1>2. Inv /\ [Next]_vars => Inv'  BY SensorNext, RingNext, TraceNext
<1>3. Inv => TypeOK  BY TypesHold
<1> QED  BY <1>1, <1>2, <1>3, PTL DEF Spec

LEMMA ReadyHolds == SensorInv /\ BridgeInv /\ TraceInv => ReadyForNext
<1> SUFFICES ASSUME SensorInv, BridgeInv, TraceInv, Starts, slot = 0
             PROVE  bridge = 0 /\ sent = 0 /\ ~trace.active
  BY DEF ReadyForNext
<1> USE Constants, BurstIs
<1>1. /\ tick \in Nat /\ txRemaining \in Nat /\ bridge \in Nat /\ ~tp.active
      /\ tp.since \in 0 .. Period - 1 /\ ticks \in 0 .. TraceEvery - 1
      /\ trace.len \in 0 .. TraceSamples
  BY BridgeFacts DEF SensorInv, Clocks, TraceInv, Starts
<1>2. ToBurst = 0
  <2>1. tp.since = Period - 1  BY <1>1 DEF Starts
  <2> QED  BY <1>1, <2>1 DEF ToBurst, SlotsToBurst
<1>3. AtRest
  <2>1. ByteTime * (bridge + txRemaining) \in Nat  BY <1>1
  <2>2. tick + ByteTime * (bridge + txRemaining) + Margin \in Nat  BY <1>1, <2>1, MarginIs
  <2> QED  BY <1>1, <1>2, <2>2 DEF BridgeInv, Drains
<1>4. ~trace.active
  <2>1. TicksOfTrace - 1 \in Nat
    <3>1. TraceEvery * (TraceSamples - trace.len) \in Nat  BY <1>1
    <3> QED  BY <1>1, <3>1 DEF TicksOfTrace
  <2> DEFINE n == TicksOfTrace - 1
  <2> HIDE DEF n
  <2>2. n \in Nat  BY <2>1 DEF n
  <2>3. tick + ByteTime * n \in Nat  BY <1>1, <2>2
  <2>4. trace.active => tick + ByteTime * n < ToBurst  BY DEF TraceInv, n
  <2> QED  BY <1>2, <2>3, <2>4
<1> QED  BY <1>3, <1>4 DEF AtRest

\* A burst is over, drained and its trace taken when the next one begins: the
\* handlers that start a burst find no leftover of the one before it
\* (isotp_slot, engine_on_can_slot).
THEOREM NextFindsReady == Spec => []ReadyForNext
<1> DEFINE Inv == SensorInv /\ BridgeInv /\ TraceInv
<1>1. Init => Inv  BY SensorInit, RingInit, TraceInit
<1>2. Inv /\ [Next]_vars => Inv'  BY SensorNext, RingNext, TraceNext
<1>3. Inv => ReadyForNext  BY ReadyHolds
<1> QED  BY <1>1, <1>2, <1>3, PTL DEF Spec

(***************************************************************************)
(* The peak.                                                               *)
(***************************************************************************)

Peak == Burst - DrainLeast + Frame - 1

\* Time to the last Consecutive Frame of the burst.
ToLast == slot + SlotTime * (Slots - 3 - tp.slot)

\* Sensor bytes that a burst which has begun to come in may yet wait for.
Wait ==
  IF sent > 0 THEN 0
  ELSE IF txRemaining = 0 /\ tick = 0 /\ bridge < Payload THEN Frame
  ELSE txRemaining

\* The first Consecutive Frame is in, the last is not.
Between == tp.active /\ tp.slot \in 3 .. Slots - 3

\* By the last Consecutive Frame the line has taken all but a frame's wait of
\* what it could.
PeakHigh ==
  /\ bridge + pushing <= Peak /\ top <= Peak
  /\ Between => tick + ByteTime * (DrainLeast - Frame - sent + Wait) < ToLast

\* No Consecutive Frame of this burst is to come.
Landed == (tp.active => tp.slot >= Slots - 2) /\ pushing = 0

\* And it has not taken more than it could.
PeakLow ==
  /\ Between => ByteTime * sent + ToLast <= FirstToLast + tick
  /\ tp.slot >= Slots - 2 /\ pushing > 0 => ByteTime * sent <= FirstToLast + tick
  /\ Landed /\ (tp.active \/ bursts > 0) => top >= Burst - DrainMost

\* The slots to the last Consecutive Frame are no more than twice the frames
\* that are to come, so the ring grows faster than it drains.
LEMMA GrowsFaster ==
  ASSUME NEW s \in 1 .. Slots - 2
  PROVE  /\ SlotTime * (Slots - 2 - s) <= ByteTime * (Burst - Made(s))
         /\ s >= 3 => Made(s) >= Payload
<1> DEFINE L == 1 + BlockSize
           N == DataFrames \div BlockSize
           q == (s - 1) \div L
           r == (s - 1) % L
           f == IF r = 0 THEN 0 ELSE r - 1
<1>1. /\ N \in Nat /\ N > 0 /\ Slots = L * N + 3 /\ Slots \in Nat
      /\ Burst = Payload * (N * BlockSize) /\ Burst \in Nat /\ Burst >= Payload
  BY BurstIs
<1>2. L \in Nat /\ L > 1 /\ L = BlockSize + 1 /\ BlockSize \in Nat /\ BlockSize >= 1
  BY Constants
<1>3. CASE s = Slots - 2
  <2>1. Made(s) = Burst  BY <1>1, <1>3, OtherSlots
  <2> HIDE DEF L, N, q, r, f
  <2>2. Burst - Made(s) = 0 /\ Slots - 2 - s = 0  BY <1>1, <1>3, <2>1
  <2>3. SlotTime * 0 = 0 /\ ByteTime * 0 = 0  BY Constants
  <2> QED  BY <1>1, <2>1, <2>2, <2>3
<1>4. CASE s < Slots - 2
  <2>1. q \in Nat /\ r \in 0 .. L - 1 /\ s - 1 = L * q + r
    <3>1. s - 1 \in Nat /\ L \in Nat \ {0}  BY <1>2
    <3> HIDE DEF L
    <3> QED  BY <1>2, <3>1, DivMod
  <2>2. Made(s) = Payload * (q * BlockSize + f)
    <3>1. ~(s >= Slots - 2)  BY <1>1, <1>4
    <3> QED  BY <3>1 DEF Made
  <2>3. f \in Nat /\ (r = 0 => f = 0) /\ (r > 0 => f = r - 1)  BY <1>2, <2>1
  <2> HIDE DEF f
  <2> HIDE DEF q
  <2> HIDE DEF r
  <2> HIDE DEF N
  <2> HIDE DEF L
  <2> DEFINE m == N - q
             B == BlockSize
  <2>4. q < N
    <3>1. L * q + r < L * N  BY <1>1, <1>2, <1>4, <2>1
    <3>2. ASSUME q >= N PROVE L * q >= L * N  BY <1>1, <1>2, <2>1, <3>2
    <3> QED  BY <1>1, <1>2, <2>1, <3>1, <3>2
  <2>5. m \in Nat /\ m >= 1 /\ N = q + m  BY <1>1, <2>1, <2>4
  <2> HIDE DEF m
  <2>6. Slots - 2 - s = L * m - r
    <3>1. L * N = L * q + L * m  BY <1>2, <2>1, <2>5
    <3> QED  BY <1>1, <1>2, <2>1, <2>5, <3>1
  <2>7. N * BlockSize = q * BlockSize + m * BlockSize /\ m * BlockSize \in Nat
        /\ q * BlockSize \in Nat
    BY <1>2, <2>1, <2>5
  <2>8. L * m = m * BlockSize + m  BY <1>2, <2>5
  <2>9. m - r + f + f <= m * BlockSize
    <3>1. m * BlockSize >= m  BY <1>2, <2>5
    <3>2. m * BlockSize >= m + BlockSize - 1
      <4>1. (m - 1) * (BlockSize - 1) >= 0  BY <1>2, <2>5
      <4>2. (m - 1) * (BlockSize - 1) = m * BlockSize - m - BlockSize + 1  BY <1>2, <2>5
      <4> QED  BY <1>2, <2>5, <2>7, <4>1, <4>2
    <3> QED  BY <1>2, <2>1, <2>3, <2>5, <2>7, <3>1, <3>2
  <2> DEFINE c == m * BlockSize - f
             d == L * m - r
  <2>10. c \in Int /\ d \in Int /\ d <= 2 * c /\ d > 0
    <3>1. r < L /\ L * m >= L  BY <1>2, <2>1, <2>5
    <3> QED  BY <1>2, <2>1, <2>3, <2>5, <2>7, <2>8, <2>9, <3>1
  <2>11. Burst - Made(s) = Payload * c
    <3> DEFINE a == q * BlockSize + f
    <3>1. N * BlockSize = a + c /\ a \in Nat  BY <2>3, <2>7
    <3>2. Made(s) = Payload * a /\ Burst = Payload * (N * BlockSize)  BY <1>1, <2>2
    <3> HIDE DEF a, c
    <3>3. Burst = Payload * (a + c)  BY <3>1, <3>2
    <3> QED  BY <2>10, <3>1, <3>2, <3>3, Constants
  <2>12. SlotTime * (Slots - 2 - s) <= ByteTime * (Burst - Made(s))
    <3>0. Slots - 2 - s = d  BY <2>6
    <3> HIDE DEF c, d
    <3>1. c > 0  BY <2>10
    <3>2. SlotTime * d <= SlotTime * (2 * c) /\ SlotTime * (2 * c) = (2 * SlotTime) * c
      BY <2>10, Constants
    <3>3. (2 * SlotTime) * c <= (ByteTime * Payload) * c
      <4> DEFINE x == 2 * SlotTime
                 y == ByteTime * Payload
      <4>1. x \in Int /\ y \in Int /\ x <= y  BY RateAssumption, Constants
      <4> HIDE DEF x, y
      <4>2. x * c <= y * c  BY <2>10, <3>1, <4>1
      <4> QED  BY <4>2 DEF x, y
    <3>4. (ByteTime * Payload) * c = ByteTime * (Payload * c)
          /\ SlotTime * d \in Int /\ (2 * SlotTime) * c \in Int /\ (ByteTime * Payload) * c \in Int
      BY <2>10, Constants
    <3> QED  BY <2>11, <3>0, <3>2, <3>3, <3>4
  <2>13. ASSUME s >= 3 PROVE Made(s) >= Payload
    <3>1. q * BlockSize + f >= 1
      <4>1. CASE q = 0
        <5>1. L * q = 0  BY <1>2, <4>1
        <5> QED  BY <1>2, <2>1, <2>3, <2>7, <2>13, <5>1
      <4>2. CASE q > 0
        <5>1. q * BlockSize >= 1  BY <1>2, <2>1, <4>2
        <5> QED  BY <2>3, <2>7, <5>1
      <4> QED  BY <2>1, <4>1, <4>2
    <3> DEFINE a == q * BlockSize + f
    <3>2. a \in Nat /\ a >= 1 /\ Made(s) = Payload * a  BY <2>2, <2>3, <2>7, <3>1
    <3> HIDE DEF a
    <3> QED  BY <3>2, Constants
  <2> QED  BY <2>12, <2>13
<1> QED
  <2> HIDE DEF L, N, q, r, f
  <2> QED  BY <1>1, <1>3, <1>4

\* The first three slots, and the last frame.
LEMMA FirstFrame ==
  /\ Kind(1) # "consecutive" /\ Kind(2) = "consecutive"
  /\ Made(2) = 0 /\ Made(3) = Payload
  /\ Kind(Slots - 3) = "consecutive" /\ Made(Slots - 2) = Burst
<1> USE Constants, BurstIs
<1>1. 1 \in 1 .. Slots - 3 /\ 2 \in 1 .. Slots - 3 /\ Slots - 3 \in 1 .. Slots - 3
      /\ Slots - 2 \in Nat
  OBVIOUS
<1>2. Kind(1) # "consecutive"
  <2>1. 1 - 1 = (1 + BlockSize) * 0 + 0 /\ 0 \in 0 .. (1 + BlockSize) - 1
        /\ 1 + BlockSize \in Nat /\ 1 + BlockSize > 0
    OBVIOUS
  <2>2. (1 - 1) % (1 + BlockSize) = 0  BY <2>1, DivModIs
  <2> QED  BY <2>2 DEF Kind
<1>3. Made(1 + 1) = Made(1) /\ Kind(1 + 1) = "consecutive"  BY <1>1, <1>2, SlotIs
<1>4. Made(2) = 0 /\ Kind(2) = "consecutive"
  <2>1. 1 + 1 = 2  OBVIOUS
  <2> QED  BY <1>3, <2>1, OtherSlots
<1>5. Made(2 + 1) = Made(2) + Payload  BY <1>1, <1>4, SlotIs
<1>6. Made(3) = Payload
  <2>1. 2 + 1 = 3 /\ 0 + Payload = Payload  OBVIOUS
  <2> QED  BY <1>4, <1>5, <2>1
<1>7. Kind(Slots - 3) = "consecutive"
  <2>1. ~(Slots - 3 + 1 \in 1 .. Slots - 3)  OBVIOUS
  <2> QED  BY <1>1, <2>1, SlotIs
<1> QED  BY <1>1, <1>2, <1>4, <1>6, <1>7, OtherSlots

\* The drain, without the quotient.
LEMMA DrainIs ==
  /\ DrainLeast \in Int /\ DrainMost \in Int /\ FirstToLast \in Int
  /\ FirstToLast = SlotTime * (Slots - 5)
  /\ ByteTime * DrainLeast < FirstToLast
  /\ \A n \in Nat : ByteTime * n <= FirstToLast + ByteTime => n <= DrainMost
  /\ Peak \in Int /\ Peak >= Payload
<1> USE Constants, BurstIs
<1>1. FirstToLast \in Nat /\ FirstToLast = SlotTime * (Slots - 5)
  <2>1. (Slots - 5) * SlotTime = SlotTime * (Slots - 5) /\ Slots - 5 \in Nat  OBVIOUS
  <2>2. SlotTime * (Slots - 5) \in Nat  BY <2>1
  <2> QED  BY <2>1, <2>2 DEF FirstToLast
<1>2. DrainLeast \in Int /\ ByteTime * DrainLeast <= FirstToLast - 1
  <2> DEFINE n == FirstToLast - 1
             p == n \div ByteTime
  <2>1. n \in Int  BY <1>1
  <2>2. p \in Int /\ ByteTime * p <= n
    <3> HIDE DEF n
    <3> QED  BY <2>1
  <2> QED  BY <2>2 DEF DrainLeast
<1>3. DrainMost \in Int /\ \A n \in Nat : ByteTime * n <= FirstToLast + ByteTime => n <= DrainMost
  <2> DEFINE p == FirstToLast \div ByteTime
             o == FirstToLast % ByteTime
  <2>1. p \in Nat /\ o \in 0 .. ByteTime - 1 /\ FirstToLast = ByteTime * p + o
    BY <1>1, DivMod
  <2>2. DrainMost = p + 1  BY DEF DrainMost
  <2> HIDE DEF p, o
  <2>3. ASSUME NEW n \in Nat, ByteTime * n <= FirstToLast + ByteTime PROVE n <= p + 1
    <3>1. ByteTime * (n - p) < 2 * ByteTime
      <4>1. ByteTime * (n - p) = ByteTime * n - ByteTime * p /\ ByteTime * p \in Int
            /\ ByteTime * n \in Int
        BY <2>1, Times
      <4> QED  BY <1>1, <2>1, <2>3, <4>1
    <3>2. ~(n - p >= 2)
      <4> DEFINE k == n - p
      <4>1. k \in Int  BY <2>1
      <4> HIDE DEF k
      <4>2. ASSUME k >= 2 PROVE ByteTime * k >= ByteTime * 2  BY <4>1, <4>2
      <4>3. ByteTime * k < 2 * ByteTime /\ ByteTime * 2 = 2 * ByteTime  BY <3>1 DEF k
      <4>4. ~(k >= 2)  BY <4>1, <4>2, <4>3
      <4> QED  BY <4>4 DEF k
    <3> QED  BY <2>1, <3>2
  <2> QED  BY <2>1, <2>2, <2>3
<1>4. Peak \in Int /\ Peak >= Payload
  <2>1. 3 \in 1 .. Slots - 2  OBVIOUS
  <2>2. SlotTime * (Slots - 2 - 3) <= ByteTime * (Burst - Made(3))  BY <2>1, GrowsFaster
  <2>3. Slots - 2 - 3 = Slots - 5 /\ Made(3) = Payload  BY FirstFrame
  <2> DEFINE a == DrainLeast
             b == Burst - Payload
  <2>4. ByteTime * a < ByteTime * b /\ a \in Int /\ b \in Int
    <3>1. a \in Int /\ b \in Int  BY <1>2
    <3>2. ByteTime * a \in Int /\ ByteTime * b \in Int  BY <3>1, Times
    <3>3. FirstToLast <= ByteTime * b  BY <1>1, <2>2, <2>3
    <3> QED  BY <1>1, <1>2, <3>1, <3>2, <3>3
  <2> HIDE DEF a, b
  <2>5. ~(b <= a)
    <3>1. ASSUME b <= a PROVE ByteTime * b <= ByteTime * a  BY <2>4, <3>1, Times
    <3> QED  BY <2>4, <3>1, Times
  <2>6. a < b  BY <2>4, <2>5
  <2>7. DrainLeast < Burst - Payload  BY <2>6 DEF a, b
  <2> QED  BY <1>2, <2>7 DEF Peak
<1> QED  BY <1>1, <1>2, <1>3, <1>4

\* The facts the steps below share.
LEMMA PeakFacts ==
  ASSUME SensorInv, BridgeInv, TraceInv
  PROVE  /\ tick \in 0 .. ByteTime /\ slot \in 0 .. SlotTime /\ wake \in 0 .. KernelTick
         /\ txRemaining \in 0 .. Frame - 1
         /\ tp.active \in BOOLEAN /\ tp.slot \in 0 .. Slots /\ tp.since \in 0 .. Period - 1
         /\ tp.active => tp.slot \in 1 .. Slots - 1 /\ Due = Made(tp.slot)
         /\ pushing \in 0 .. Payload /\ (~tp.active => pushing = 0)
         /\ bridge \in Nat /\ sent \in 0 .. Burst - 1 /\ top \in Nat /\ bridge <= top
         /\ Due \in 0 .. Burst
         /\ tp.active /\ tp.slot <= Slots - 3 =>
              Due < Burst /\ sent + bridge + pushing = Due
         /\ pushing > 0 => sent + bridge + pushing = Due
         /\ Wait \in 0 .. Frame
<1> USE Constants, BurstIs
<1>1. /\ tick \in 0 .. ByteTime /\ slot \in 0 .. SlotTime /\ wake \in 0 .. KernelTick
      /\ txRemaining \in 0 .. Frame - 1 /\ top \in Nat /\ bridge <= top
  BY DEF SensorInv, Clocks, TraceInv
<1>2. /\ tp.active \in BOOLEAN /\ tp.slot \in 0 .. Slots /\ tp.since \in 0 .. Period - 1
      /\ tp.active => tp.slot \in 1 .. Slots - 1 /\ Due = Made(tp.slot)
      /\ pushing \in 0 .. Payload /\ (~tp.active => pushing = 0)
      /\ bridge \in Nat /\ sent \in 0 .. Burst - 1 /\ Due \in 0 .. Burst
  BY BridgeFacts DEF Due
<1>3. tp.active /\ tp.slot <= Slots - 3 => Due < Burst /\ sent + bridge + pushing = Due
  <2> SUFFICES ASSUME tp.active, tp.slot <= Slots - 3
               PROVE  Due < Burst /\ sent + bridge + pushing = Due
    OBVIOUS
  <2>1. tp.slot \in 1 .. Slots - 3  BY <1>2
  <2>2. Made(tp.slot) \in 0 .. Burst - 1  BY <2>1, SlotIs
  <2> QED  BY <1>2, <2>2 DEF BridgeInv, Account
<1>4. pushing > 0 => sent + bridge + pushing = Due
  BY <1>2 DEF BridgeInv, Account
<1>5. Wait \in 0 .. Frame  BY <1>1 DEF Wait
<1> QED  BY <1>1, <1>2, <1>3, <1>4, <1>5

LEMMA PeakInit == Init => PeakHigh /\ PeakLow
<1> SUFFICES ASSUME Init PROVE PeakHigh /\ PeakLow  OBVIOUS
<1>1. tp.active = FALSE /\ pushing = 0 /\ bridge = 0 /\ top = 0 /\ bursts = 0
  BY DEF Init
<1>2. 0 <= Peak /\ bridge + pushing = 0  BY <1>1, DrainIs, Constants
<1>3. ~(bursts > 0)  BY <1>1
<1> QED  BY <1>1, <1>2, <1>3 DEF PeakHigh, PeakLow, Between, Landed

\* A slot of a burst that has not landed brings the ring no nearer to the peak
\* than the last one will.
LEMMA PeakSlot ==
  ASSUME SensorInv, BridgeInv, TraceInv, PeakHigh, CanSlot
  PROVE  PeakHigh'
<1> USE Constants, BurstIs
<1> DEFINE s == tp.slot
           b == Burst - Made(s + 1)
           a == DrainLeast - Frame - sent + Wait
<1>1. /\ tick \in 0 .. ByteTime /\ slot = 0 /\ slot' = SlotTime /\ pushing = 0
      /\ bridge \in Nat /\ bridge <= Peak /\ top <= Peak /\ top \in Nat
      /\ sent \in 0 .. Burst - 1 /\ Wait \in 0 .. Frame
      /\ txRemaining \in 0 .. Frame - 1 /\ tp.active \in BOOLEAN
      /\ UNCHANGED <<tick, bridge, sent, txRemaining>>
  <2>1. pushing = 0 /\ bridge + pushing <= Peak  BY DEF CanSlot, PeakHigh
  <2>2. bridge \in Nat /\ bridge + 0 = bridge  BY PeakFacts
  <2> QED  BY <2>1, <2>2, PeakFacts DEF CanSlot, PeakHigh, arbiter
<1>2. Peak \in Int /\ Peak >= Payload /\ DrainLeast \in Int /\ FirstToLast \in Int
  BY DrainIs
<1>3. Wait' = Wait  BY <1>1 DEF Wait
<1>4. CASE Starts
  <2>1. top' = bridge /\ pushing' = 0 /\ tp'.slot = 1  BY <1>4, SlotSteps DEF CanSlot
  <2>2. ~Between'  BY <2>1 DEF Between
  <2>3. bridge' + pushing' = bridge  BY <1>1, <2>1
  <2> QED  BY <1>1, <2>1, <2>2, <2>3 DEF PeakHigh
<1>5. CASE ~tp.active /\ ~Starts
  <2>1. top' = top /\ pushing' = 0 /\ ~tp'.active  BY <1>5, SlotSteps DEF CanSlot
  <2>2. bridge' + pushing' = bridge  BY <1>1, <2>1
  <2> QED  BY <1>1, <2>1, <2>2 DEF PeakHigh, Between
<1>6. CASE tp.active
  <2>1. /\ ~Starts /\ tp'.slot = s + 1 /\ top' = top
        /\ pushing' = IF Kind(s) = "consecutive" THEN Payload ELSE 0
        /\ s \in 1 .. Slots - 1
    BY <1>6, SlotSteps, PeakFacts DEF CanSlot
  <2>2. ToLast = SlotTime * (Slots - 3 - s)
    <3>1. SlotTime * (Slots - 3 - s) \in Int  BY <2>1
    <3> QED  BY <1>1, <3>1 DEF ToLast
  <2>3. ToLast' = SlotTime * (Slots - 3 - s)
    <3>1. Slots - 3 - s = (Slots - 3 - (s + 1)) + 1 /\ Slots - 3 - (s + 1) \in Int  BY <2>1
    <3> DEFINE n == Slots - 3 - (s + 1)
    <3>2. ToLast' = SlotTime + SlotTime * n  BY <1>1, <2>1 DEF ToLast
    <3>3. n \in Int /\ Slots - 3 - s = n + 1  BY <3>1
    <3> HIDE DEF n
    <3>4. SlotTime * (n + 1) = SlotTime + SlotTime * n  BY <3>3
    <3> QED  BY <3>2, <3>3, <3>4
  <2>4. Between' => tick' + ByteTime * (DrainLeast - Frame - sent' + Wait') < ToLast'
    <3> SUFFICES ASSUME Between' PROVE tick + ByteTime * a < ToLast'
      BY <1>1, <1>3
    <3>0. s + 1 \in 3 .. Slots - 3  BY <2>1 DEF Between
    <3>1. CASE s >= 3
      <4>1. Between  BY <1>6, <2>1, <3>0, <3>1 DEF Between
      <4> QED  BY <2>2, <2>3, <4>1 DEF PeakHigh
    <3>2. CASE s = 2
      <4>1. Made(s) = 0  BY <3>2, FirstFrame
      <4>2. sent = 0
        <5>1. tp.slot <= Slots - 3  BY <3>0, <3>2
        <5> QED  BY <1>1, <1>6, <4>1, <5>1, PeakFacts
      <4>3. ToLast' = FirstToLast
        <5>1. Slots - 3 - s = Slots - 5  BY <3>2
        <5> QED  BY <2>3, <5>1, DrainIs
      <4>4. a = DrainLeast - (Frame - Wait)  BY <1>1, <1>2, <4>2
      <4> DEFINE w == Frame - Wait
      <4>5. w \in Nat /\ (tick = 0 \/ w >= 1)
        <5>1. CASE tick = 0  BY <1>1, <5>1
        <5>2. CASE tick # 0
          <6>1. Wait = txRemaining  BY <4>2, <5>2 DEF Wait
          <6> QED  BY <1>1, <6>1
        <5> QED  BY <5>1, <5>2
      <4> HIDE DEF w
      <4>6. ByteTime * (DrainLeast - w) = ByteTime * DrainLeast - ByteTime * w
            /\ ByteTime * DrainLeast \in Int /\ ByteTime * w \in Int
        BY <1>2, <4>5, Times
      <4>7. tick <= ByteTime * w
        <5>1. CASE tick = 0
          <6>1. ByteTime * w >= 0  BY <4>5
          <6> QED  BY <4>6, <5>1, <6>1
        <5>2. CASE w >= 1
          <6>1. 1 \in Int  OBVIOUS
          <6>2. ByteTime * 1 <= ByteTime * w  BY <4>5, <5>2, <6>1, Times
          <6> QED  BY <1>1, <4>6, <6>2, Times
        <5> QED  BY <4>5, <5>1, <5>2
      <4>8. tick + ByteTime * (DrainLeast - w) < FirstToLast
        BY <1>1, <1>2, <4>6, <4>7, DrainIs
      <4> QED  BY <4>3, <4>4, <4>8 DEF w
    <3> QED  BY <2>1, <3>0, <3>1, <3>2
  <2>5. bridge' + pushing' <= Peak
    <3>1. CASE Kind(s) # "consecutive"
      <4>1. pushing' = 0  BY <2>1, <3>1
      <4> QED  BY <1>1, <4>1
    <3>2. CASE Kind(s) = "consecutive"
      <4>1. s <= Slots - 3
        <5>1. ASSUME s >= Slots - 2 PROVE FALSE
          <6>1. s \in Nat  BY <2>1
          <6>2. Kind(s) = "protocol"  BY <5>1, <6>1, OtherSlots
          <6> QED  BY <3>2, <6>2
        <5> QED  BY <2>1, <5>1
      <4>2. s # 1  BY <3>2, FirstFrame
      <4>3. s \in 1 .. Slots - 3 /\ s + 1 \in 1 .. Slots - 2 /\ (s = 2 \/ s >= 3)
        BY <2>1, <4>1, <4>2
      <4>4. sent + bridge = Made(s)
        BY <1>1, <1>6, <4>1, PeakFacts
      <4>5. Made(s + 1) = Made(s) + Payload /\ Made(s) \in Int
        BY <3>2, <4>3, SlotIs
      <4>6. pushing' = Payload /\ bridge' + pushing' = Made(s + 1) - sent
        BY <1>1, <2>1, <3>2, <4>4, <4>5
      <4>7. CASE s = 2
        <5>1. Made(s) = 0  BY <4>7, FirstFrame
        <5>2. bridge = 0  BY <1>1, <4>4, <5>1
        <5> QED  BY <1>1, <1>2, <4>6, <5>2
      <4>8. CASE s >= 3
        <5>1. Between  BY <1>6, <2>1, <4>3, <4>8 DEF Between
        <5>2. tick + ByteTime * a < SlotTime * (Slots - 3 - s)  BY <2>2, <5>1 DEF PeakHigh
        <5>3. SlotTime * (Slots - 2 - (s + 1)) <= ByteTime * b  BY <4>3, GrowsFaster
        <5>4. Slots - 2 - (s + 1) = Slots - 3 - s /\ Slots - 3 - s \in Int  BY <4>3
        <5>5. a \in Int /\ b \in Int  BY <1>1, <1>2, <4>5
        <5>6. a < b
          <6> HIDE DEF a, b
          <6> DEFINE n == Slots - 3 - s
          <6>0. n \in Int /\ SlotTime * n <= ByteTime * b /\ tick + ByteTime * a < SlotTime * n
            BY <5>2, <5>3, <5>4
          <6> HIDE DEF n
          <6>1. SlotTime * n \in Int /\ ByteTime * a \in Int /\ ByteTime * b \in Int
            BY <5>5, <6>0, Times
          <6>2. ByteTime * a < ByteTime * b
            BY <1>1, <6>0, <6>1
          <6>3. ASSUME b <= a PROVE ByteTime * b <= ByteTime * a  BY <5>5, <6>3, Times
          <6> QED  BY <5>5, <6>1, <6>2, <6>3
        <5>7. Made(s + 1) - sent <= Burst - DrainLeast + Frame - 1
          BY <1>1, <1>2, <4>5, <5>6
        <5> QED  BY <4>6, <5>7 DEF Peak
      <4> QED  BY <4>3, <4>7, <4>8
    <3> QED  BY <3>1, <3>2
  <2> QED  BY <1>1, <2>1, <2>4, <2>5 DEF PeakHigh
<1> QED  BY <1>1, <1>4, <1>5, <1>6

\* A byte tick that is due takes from the ring, or brings the line nearer to it.
LEMMA ByteOrWait ==
  ASSUME SensorInv, BridgeInv, TraceInv, ByteTick
  PROVE  \/ /\ bridge > 0 /\ bridge' = bridge - 1 /\ wire' = "bridge"
            /\ txFromBridge' = TRUE /\ txRemaining' = 0 /\ txRemaining = 0
            /\ sent + bridge + pushing = Due
            /\ sent' = IF sent + 1 = Burst THEN 0 ELSE sent + 1
            /\ (sent = 0 => bridge >= Payload)
         \/ /\ bridge' = bridge /\ sent' = sent /\ sent = 0 /\ wire' = "sensor"
            /\ txFromBridge' = FALSE
            /\ txRemaining' = (IF txRemaining > 0 THEN txRemaining ELSE Frame) - 1
            /\ (txRemaining = 0 => txFromBridge \/ bridge < Payload)
            /\ (txRemaining = 0 /\ txFromBridge => bridge = 0)
<1> USE Constants, BurstIs
<1>1. /\ tick = 0 /\ txRemaining \in 0 .. Frame - 1 /\ sensor >= Frame /\ sensor \in Nat
      /\ bridge \in Nat /\ sent \in 0 .. Burst - 1 /\ pushing \in 0 .. Payload
      /\ Due \in 0 .. Burst
  BY PeakFacts, SensorReady DEF ByteTick, SensorInv
<1>2. CASE HasLine /\ bridge > 0
  <2>1. /\ bridge' = bridge - 1 /\ wire' = "bridge" /\ txFromBridge' = TRUE
        /\ txRemaining' = txRemaining /\ sent' = (sent + 1) % Burst
    BY <1>2 DEF ByteTick, Arbitrate
  <2>2. txRemaining = 0  BY <1>1, <1>2 DEF BridgeInv, OneOwner, HasLine
  <2>3. sent + bridge + pushing = Due  BY <1>1, <1>2 DEF BridgeInv, Account
  <2>4. sent' = IF sent + 1 = Burst THEN 0 ELSE sent + 1
    <3>1. CASE sent + 1 = Burst  BY <1>1, <2>1, <3>1
    <3>2. CASE sent + 1 # Burst
      <4>1. (sent + 1) % Burst = sent + 1  BY <1>1, <3>2
      <4> QED  BY <2>1, <3>2, <4>1
    <3> QED  BY <3>1, <3>2
  <2>5. sent = 0 => bridge >= Payload
    <3>1. txFromBridge /\ sent = 0 => bridge = 0  BY DEF BridgeInv, OneOwner
    <3> QED  BY <1>1, <1>2, <2>2, <3>1 DEF HasLine
  <2> QED  BY <1>2, <2>1, <2>2, <2>3, <2>4, <2>5
<1>3. CASE ~(HasLine /\ bridge > 0)
  <2>1. bridge' = bridge /\ sent' = sent /\ txFromBridge' = FALSE
    BY <1>3 DEF ByteTick, Arbitrate
  <2>2. SensorTurn /\ sensor > 0  BY <1>1 DEF SensorTurn
  <2>3. /\ txRemaining' = (IF txRemaining > 0 THEN txRemaining ELSE Frame) - 1
        /\ wire' = "sensor"
    BY <1>3, <2>2 DEF ByteTick, Arbitrate
  <2>4. sent = 0
    <3>1. ASSUME sent > 0 PROVE FALSE
      <4>1. bridge > 0 /\ txFromBridge /\ txRemaining = 0  BY <1>1, <3>1, NeverCut
      <4> QED  BY <1>3, <4>1 DEF HasLine
    <3> QED  BY <1>1, <3>1
  <2>5. txRemaining = 0 => txFromBridge \/ bridge < Payload
    BY <1>1, <1>3 DEF HasLine
  <2>6. txRemaining = 0 /\ txFromBridge => bridge = 0
    BY <1>1, <1>3 DEF HasLine
  <2> QED  BY <2>1, <2>3, <2>4, <2>5, <2>6
<1> QED  BY <1>2, <1>3

LEMMA PeakByte ==
  ASSUME SensorInv, BridgeInv, TraceInv, PeakHigh, PeakLow, ByteTick
  PROVE  PeakHigh' /\ PeakLow'
<1> USE Constants, BurstIs
<1>1. /\ tick = 0 /\ tick' = ByteTime /\ UNCHANGED <<slot, tp, pushing, top, bursts>>
      /\ txRemaining \in 0 .. Frame - 1 /\ bridge \in Nat /\ top \in Nat
      /\ sent \in 0 .. Burst - 1 /\ Wait \in 0 .. Frame /\ pushing \in 0 .. Payload
      /\ slot \in 0 .. SlotTime /\ tp.slot \in 0 .. Slots /\ bridge + pushing <= Peak
      /\ top <= Peak /\ Due \in 0 .. Burst
  BY PeakFacts DEF ByteTick, history, PeakHigh
<1>2. Peak \in Int /\ DrainLeast \in Int /\ FirstToLast \in Int  BY DrainIs
<1>3. /\ Between' = Between /\ ToLast' = ToLast /\ Landed' = Landed
      /\ SlotTime * (Slots - 3 - tp.slot) \in Int /\ ToLast \in Int
  <2>1. SlotTime * (Slots - 3 - tp.slot) \in Int  BY <1>1
  <2> QED  BY <1>1, <2>1 DEF Between, ToLast, Landed
<1>4. Between \/ pushing > 0 =>
        /\ sent' - Wait' = sent - Wait + 1
        /\ Wait' \in Int /\ (sent' = sent \/ sent' = sent + 1)
  <2> SUFFICES ASSUME Between \/ pushing > 0
               PROVE  /\ sent' - Wait' = sent - Wait + 1
                      /\ Wait' \in Int /\ (sent' = sent \/ sent' = sent + 1)
    OBVIOUS
  <2>1. Due < Burst \/ pushing > 0  BY PeakFacts DEF Between
  <2>2. ~(txFromBridge /\ sent = 0)
    <3>1. txFromBridge /\ sent = 0 => Due = Burst /\ bridge = 0 /\ pushing = 0
      BY DEF BridgeInv, OneOwner
    <3> QED  BY <1>1, <2>1, <3>1
  <2>3. CASE /\ bridge > 0 /\ bridge' = bridge - 1 /\ txRemaining' = 0 /\ txRemaining = 0
             /\ sent + bridge + pushing = Due
             /\ sent' = IF sent + 1 = Burst THEN 0 ELSE sent + 1
             /\ (sent = 0 => bridge >= Payload)
    <3>1. sent + 1 # Burst  BY <1>1, <2>1, <2>3
    <3>2. sent' = sent + 1  BY <2>3, <3>1
    <3>3. Wait = 0  BY <1>1, <2>3 DEF Wait
    <3>4. Wait' = 0
      <4>1. sent + 1 > 0  BY <1>1
      <4>2. sent' > 0  BY <3>2, <4>1
      <4> QED  BY <4>2 DEF Wait
    <3> QED  BY <1>1, <3>2, <3>3, <3>4
  <2>4. CASE /\ bridge' = bridge /\ sent' = sent /\ sent = 0
             /\ txRemaining' = (IF txRemaining > 0 THEN txRemaining ELSE Frame) - 1
             /\ (txRemaining = 0 => txFromBridge \/ bridge < Payload)
    <3>1. Wait' = txRemaining'
      <4>1. sent' = 0 /\ tick' # 0  BY <1>1, <2>4
      <4> QED  BY <4>1 DEF Wait
    <3>2. Wait = IF txRemaining > 0 THEN txRemaining ELSE Frame
      BY <1>1, <2>2, <2>4 DEF Wait
    <3>3. Wait' = Wait - 1  BY <2>4, <3>1, <3>2
    <3> QED  BY <1>1, <2>4, <3>3
  <2> QED  BY <2>3, <2>4, ByteOrWait
<1>5. bridge' + pushing' <= Peak
  <2>1. CASE bridge' = bridge  BY <1>1, <1>2, <2>1
  <2>2. CASE bridge' = bridge - 1  BY <1>1, <1>2, <2>2
  <2> QED  BY <2>1, <2>2, ByteOrWait
<1>6. Between' => tick' + ByteTime * (DrainLeast - Frame - sent' + Wait') < ToLast'
  <2> SUFFICES ASSUME Between
               PROVE  tick' + ByteTime * (DrainLeast - Frame - sent' + Wait') < ToLast
    BY <1>3
  <2> DEFINE a == DrainLeast - Frame - sent + Wait
             z == sent'
             w == Wait'
  <2>1. z - w = sent - Wait + 1 /\ w \in Int /\ z \in Int
    BY <1>1, <1>4
  <2> HIDE DEF z, w
  <2>2. DrainLeast - Frame - z + w = a - 1 /\ a \in Int
    BY <1>1, <1>2, <2>1
  <2>3. tick + ByteTime * a < ToLast  BY DEF PeakHigh
  <2> HIDE DEF a
  <2>4. ByteTime * (a - 1) = ByteTime * a - ByteTime /\ ByteTime * a \in Int
    <3>1. 1 \in Int  OBVIOUS
    <3> QED  BY <2>2, <3>1, Times
  <2>5. ByteTime + ByteTime * (a - 1) < ToLast  BY <1>1, <1>3, <2>3, <2>4
  <2>6. tick' + ByteTime * (DrainLeast - Frame - z + w) < ToLast
    BY <1>1, <2>2, <2>5
  <2> QED  BY <2>6 DEF z, w
<1>7. /\ Between => ByteTime * sent' + ToLast <= FirstToLast + ByteTime
      /\ tp.slot >= Slots - 2 /\ pushing > 0 =>
           ByteTime * sent' <= FirstToLast + ByteTime
  <2>1. ByteTime * (sent + 1) = ByteTime * sent + ByteTime /\ ByteTime * sent \in Int
    <3>1. sent \in Int /\ 1 \in Int  BY <1>1
    <3> QED  BY <3>1, Times
  <2>2. ASSUME Between PROVE ByteTime * sent' + ToLast <= FirstToLast + ByteTime
    <3>1. ByteTime * sent + ToLast <= FirstToLast  BY <1>1, <1>2, <2>2 DEF PeakLow
    <3>2. CASE sent' = sent  BY <1>2, <1>3, <2>1, <3>1, <3>2
    <3>3. CASE sent' = sent + 1
      <4>1. ByteTime * (sent + 1) + ToLast <= FirstToLast + ByteTime
        BY <1>2, <1>3, <2>1, <3>1
      <4> QED  BY <3>3, <4>1
    <3> QED  BY <1>4, <2>2, <3>2, <3>3
  <2>3. ASSUME tp.slot >= Slots - 2, pushing > 0
        PROVE  ByteTime * sent' <= FirstToLast + ByteTime
    <3>1. ByteTime * sent <= FirstToLast  BY <1>1, <1>2, <2>3 DEF PeakLow
    <3>2. CASE sent' = sent  BY <1>2, <1>3, <2>1, <3>1, <3>2
    <3>3. CASE sent' = sent + 1
      <4>1. ByteTime * (sent + 1) <= FirstToLast + ByteTime
        BY <1>2, <1>3, <2>1, <3>1
      <4> QED  BY <3>3, <4>1
    <3> QED  BY <1>4, <2>3, <3>2, <3>3
  <2> QED  BY <2>2, <2>3
<1>8. PeakHigh'  BY <1>1, <1>5, <1>6 DEF PeakHigh
<1>9. PeakLow'
  <2>1. FirstToLast + tick' = FirstToLast + ByteTime  BY <1>1
  <2> QED  BY <1>1, <1>3, <1>7, <2>1 DEF PeakLow
<1> QED  BY <1>8, <1>9

\* A slot, as to what the line has taken.
LEMMA TakenSlot ==
  ASSUME SensorInv, BridgeInv, TraceInv, PeakLow, CanSlot
  PROVE  PeakLow'
<1> USE Constants, BurstIs
<1> DEFINE s == tp.slot
<1>1. /\ tick \in 0 .. ByteTime /\ slot = 0 /\ slot' = SlotTime /\ pushing = 0
      /\ sent \in 0 .. Burst - 1 /\ tp.active \in BOOLEAN /\ tp.slot \in 0 .. Slots
      /\ UNCHANGED <<tick, bridge, sent>>
  BY PeakFacts DEF CanSlot
<1>2. FirstToLast \in Int /\ FirstToLast = SlotTime * (Slots - 5)  BY DrainIs
<1>3. CASE Starts
  <2>1. tp'.active /\ tp'.slot = 1 /\ pushing' = 0  BY <1>3, SlotSteps
  <2>2. ~Between' /\ ~Landed' /\ ~(pushing' > 0)  BY <2>1 DEF Between, Landed
  <2> QED  BY <2>2 DEF PeakLow
<1>4. CASE ~tp.active /\ ~Starts
  <2>1. top' = top /\ bursts' = bursts /\ pushing' = 0 /\ ~tp'.active
    BY <1>4, SlotSteps DEF CanSlot
  <2> QED  BY <1>1, <1>4, <2>1 DEF PeakLow, Between, Landed
<1>5. CASE tp.active
  <2>1. /\ ~Starts /\ tp'.slot = s + 1 /\ top' = top /\ bursts' = bursts
        /\ pushing' = IF Kind(s) = "consecutive" THEN Payload ELSE 0
        /\ (tp'.active <=> s + 1 < Slots) /\ s \in 1 .. Slots - 1
    BY <1>5, SlotSteps, PeakFacts DEF CanSlot
  <2>2. ToLast = SlotTime * (Slots - 3 - s) /\ SlotTime * (Slots - 3 - s) \in Int
    <3>1. SlotTime * (Slots - 3 - s) \in Int  BY <2>1
    <3> QED  BY <1>1, <3>1 DEF ToLast
  <2>3. ToLast' = SlotTime * (Slots - 3 - s)
    <3>1. Slots - 3 - s = (Slots - 3 - (s + 1)) + 1 /\ Slots - 3 - (s + 1) \in Int  BY <2>1
    <3> DEFINE n == Slots - 3 - (s + 1)
    <3>2. ToLast' = SlotTime + SlotTime * n  BY <1>1, <2>1 DEF ToLast
    <3>3. n \in Int /\ Slots - 3 - s = n + 1  BY <3>1
    <3> HIDE DEF n
    <3>4. SlotTime * (n + 1) = SlotTime + SlotTime * n  BY <3>3
    <3> QED  BY <3>2, <3>3, <3>4
  <2>4. CASE s < 2
    <3>1. s = 1 /\ Kind(s) # "consecutive"  BY <2>1, <2>4, FirstFrame
    <3>2. tp'.slot = 2 /\ tp'.active /\ pushing' = 0
      <4>1. (s + 1 < Slots) /\ s + 1 = 2  BY <3>1
      <4> QED  BY <2>1, <3>1, <4>1
    <3>3. ~Between' /\ ~Landed' /\ ~(pushing' > 0)  BY <3>2 DEF Between, Landed
    <3> QED  BY <3>3 DEF PeakLow
  <2>5. CASE s = 2
    <3>1. Made(s) = 0 /\ Kind(s) = "consecutive"  BY <2>5, FirstFrame
    <3>2. sent = 0
      <4>1. tp.slot <= Slots - 3  BY <2>5
      <4> QED  BY <1>1, <1>5, <3>1, <4>1, PeakFacts
    <3>3. pushing' > 0 /\ ~Landed'
      <4>1. pushing' = Payload  BY <2>1, <3>1
      <4> QED  BY <4>1 DEF Landed
    <3>4. ToLast' = FirstToLast
      <4>1. Slots - 3 - s = Slots - 5  BY <2>5
      <4> QED  BY <1>2, <2>3, <4>1
    <3>5. ByteTime * sent' = 0  BY <1>1, <3>2
    <3>6. ByteTime * sent' + ToLast' <= FirstToLast + tick'
      <4>1. ByteTime * sent' + ToLast' = FirstToLast  BY <1>2, <3>4, <3>5
      <4>2. FirstToLast <= FirstToLast + tick  BY <1>1, <1>2
      <4> QED  BY <1>1, <4>1, <4>2
    <3>7. tp'.slot >= Slots - 2 => ByteTime * sent' <= FirstToLast + tick'
      <4>1. 0 <= FirstToLast + tick
        <5>1. SlotTime * (Slots - 5) >= 0  OBVIOUS
        <5> QED  BY <1>1, <1>2, <5>1
      <4> QED  BY <1>1, <3>5, <4>1
    <3> QED  BY <3>3, <3>6, <3>7 DEF PeakLow
  <2>6. CASE s >= 3 /\ s <= Slots - 3
    <3>1. Between  BY <1>5, <2>1, <2>6 DEF Between
    <3>2. ByteTime * sent + SlotTime * (Slots - 3 - s) <= FirstToLast + tick
      BY <2>2, <3>1 DEF PeakLow
    <3>3. ~Landed'
      <4>1. CASE s = Slots - 3
        <5>1. Kind(s) = "consecutive"  BY <4>1, FirstFrame
        <5>2. pushing' = Payload  BY <2>1, <5>1
        <5> QED  BY <5>2 DEF Landed
      <4>2. CASE s # Slots - 3
        <5>1. ~(s + 1 >= Slots - 2) /\ s + 1 < Slots  BY <2>1, <2>6, <4>2
        <5> QED  BY <2>1, <5>1 DEF Landed
      <4> QED  BY <4>1, <4>2
    <3>4. tp'.slot >= Slots - 2 => ByteTime * sent' <= FirstToLast + tick'
      <4> SUFFICES ASSUME s + 1 = Slots - 2 PROVE ByteTime * sent <= FirstToLast + tick
        <5>1. s + 1 >= Slots - 2 => s + 1 = Slots - 2  BY <2>1, <2>6
        <5> QED  BY <1>1, <2>1, <5>1
      <4>1. Slots - 3 - s = 0 /\ SlotTime * 0 = 0  BY <2>1
      <4>2. ByteTime * sent \in Int  BY <1>1
      <4> QED  BY <1>1, <1>2, <3>2, <4>1, <4>2
    <3> QED  BY <1>1, <2>3, <3>2, <3>3, <3>4 DEF PeakLow
  <2>7. CASE s >= Slots - 2
    <3>1. Kind(s) = "protocol"  BY <2>1, <2>7, OtherSlots
    <3>2. pushing' = 0 /\ ~(pushing' > 0)
      <4>1. pushing' = 0  BY <2>1, <3>1
      <4> QED  BY <4>1
    <3>3. ~Between'
      <4>1. ~(s + 1 \in 3 .. Slots - 3)  BY <2>1, <2>7
      <4> QED  BY <2>1, <4>1 DEF Between
    <3>4. Landed  BY <1>1, <2>7 DEF Landed
    <3>5. top >= Burst - DrainMost  BY <1>5, <3>4 DEF PeakLow
    <3> QED  BY <2>1, <3>2, <3>3, <3>5 DEF PeakLow
  <2> QED  BY <2>1, <2>4, <2>5, <2>6, <2>7
<1> QED  BY <1>1, <1>3, <1>4, <1>5

\* The last byte of the last Consecutive Frame finds the ring as full as it
\* will be.
LEMMA PeakPush ==
  ASSUME SensorInv, BridgeInv, TraceInv, PeakHigh, PeakLow, CanPush
  PROVE  PeakHigh' /\ PeakLow'
<1> USE Constants, BurstIs
<1>1. /\ tick \in 0 .. ByteTime /\ bridge \in Nat /\ top \in Nat /\ bridge <= top
      /\ pushing \in 0 .. Payload /\ sent \in 0 .. Burst - 1 /\ Wait \in 0 .. Frame
      /\ bridge + pushing <= Burst /\ bridge + pushing <= Peak /\ top <= Peak
      /\ sent + bridge + pushing = Due /\ tp.active /\ tp.slot \in 1 .. Slots - 1
      /\ Due = Made(tp.slot) /\ txRemaining \in 0 .. Frame - 1
  BY PeakFacts, BridgeFacts DEF CanPush, PeakHigh
<1>2. /\ pushing > 0 /\ pushing' = pushing - 1
      /\ UNCHANGED <<tick, slot, tp, txRemaining, sent, bursts>>
  BY DEF CanPush, timers, arbiter
<1>3. bridge < BridgeRing  BY <1>1, <1>2, RateAssumption
<1>4. bridge' = bridge + 1 /\ top' = IF bridge + 1 > top THEN bridge + 1 ELSE top
  BY <1>3 DEF CanPush
<1>5. Peak \in Int /\ DrainLeast \in Int /\ FirstToLast \in Int /\ DrainMost \in Int
  BY DrainIs
<1>6. Between' = Between /\ ToLast' = ToLast  BY <1>2 DEF Between, ToLast
<1>7. ToLast \in Int /\ tick \in Int
  <2>1. slot \in Int /\ SlotTime * (Slots - 3 - tp.slot) \in Int  BY <1>1, PeakFacts
  <2> QED  BY <1>1, <2>1 DEF ToLast
<1>8. PeakHigh'
  <2>1. bridge' + pushing' = bridge + pushing  BY <1>1, <1>2, <1>4
  <2>2. top' <= Peak
    <3>1. CASE bridge + 1 > top
      <4>1. bridge + 1 <= Peak  BY <1>1, <1>2, <1>5
      <4> QED  BY <1>4, <3>1, <4>1
    <3>2. CASE ~(bridge + 1 > top)  BY <1>1, <1>4, <3>2
    <3> QED  BY <3>1, <3>2
  <2>3. \/ Wait' = Wait
        \/ Wait' = 0 /\ Wait = Frame
    <3>1. CASE bridge + 1 < Payload
      <4>1. bridge < Payload  BY <1>1, <3>1
      <4> QED  BY <1>2, <1>4, <3>1, <4>1 DEF Wait
    <3>2. CASE ~(bridge + 1 < Payload)
      <4>1. ~(bridge' < Payload)  BY <1>4, <3>2
      <4> QED  BY <1>1, <1>2, <4>1 DEF Wait
    <3> QED  BY <3>1, <3>2
  <2>4. ASSUME Between
        PROVE  tick + ByteTime * (DrainLeast - Frame - sent + Wait') < ToLast
    <3>1. tick + ByteTime * (DrainLeast - Frame - sent + Wait) < ToLast
      BY <2>4 DEF PeakHigh
    <3>2. CASE Wait' = Wait  BY <3>1, <3>2
    <3>3. CASE Wait' = 0 /\ Wait = Frame
      <4> DEFINE a == DrainLeast - Frame - sent
      <4>1. a \in Int /\ a + 0 \in Int /\ a + Frame \in Int /\ a + 0 <= a + Frame
        BY <1>1, <1>5
      <4> HIDE DEF a
      <4>2. ByteTime * (a + 0) <= ByteTime * (a + Frame)
            /\ ByteTime * (a + 0) \in Int /\ ByteTime * (a + Frame) \in Int
        BY <4>1, Times
      <4>3. tick + ByteTime * (a + Frame) < ToLast  BY <3>1, <3>3 DEF a
      <4>4. tick + ByteTime * (a + 0) < ToLast  BY <1>7, <4>2, <4>3
      <4> QED  BY <3>3, <4>4 DEF a
    <3> QED  BY <2>3, <3>2, <3>3
  <2> QED  BY <1>1, <1>2, <1>6, <2>1, <2>2, <2>4 DEF PeakHigh
<1>9. PeakLow'
  <2>1. Landed' => top' >= Burst - DrainMost
    <3> SUFFICES ASSUME Landed' PROVE top' >= Burst - DrainMost
      OBVIOUS
    <3>1. pushing = 1 /\ tp.slot >= Slots - 2
      <4>1. pushing' = 0 /\ tp'.slot >= Slots - 2  BY <1>1, <1>2 DEF Landed
      <4> QED  BY <1>1, <1>2, <4>1
    <3>2. Made(tp.slot) = Burst  BY <1>1, <3>1, OtherSlots
    <3>3. bridge + 1 = Burst - sent  BY <1>1, <3>1, <3>2
    <3>4. ByteTime * sent <= FirstToLast + tick  BY <1>1, <1>2, <3>1 DEF PeakLow
    <3>5. ByteTime * sent <= FirstToLast + ByteTime
      <4>1. ByteTime * sent \in Int  BY <1>1
      <4> QED  BY <1>1, <1>5, <3>4, <4>1
    <3>6. sent <= DrainMost  BY <1>1, <3>5, DrainIs
    <3>7. bridge + 1 >= Burst - DrainMost  BY <1>1, <1>5, <3>3, <3>6
    <3>8. CASE bridge + 1 > top  BY <1>4, <3>7, <3>8
    <3>9. CASE ~(bridge + 1 > top)
      <4>1. top >= Burst - DrainMost  BY <1>1, <1>5, <3>7, <3>9
      <4> QED  BY <1>4, <3>9, <4>1
    <3> QED  BY <3>8, <3>9
  <2>2. tp'.slot >= Slots - 2 /\ pushing' > 0 => ByteTime * sent' <= FirstToLast + tick'
    BY <1>1, <1>2 DEF PeakLow
  <2>3. Between' => ByteTime * sent' + ToLast' <= FirstToLast + tick'
    BY <1>2, <1>6 DEF PeakLow
  <2> QED  BY <2>1, <2>2, <2>3 DEF PeakLow
<1> QED  BY <1>8, <1>9

LEMMA PeakAdvance ==
  ASSUME SensorInv, BridgeInv, TraceInv, PeakHigh, PeakLow, Advance
  PROVE  PeakHigh' /\ PeakLow'
<1> USE Constants, BurstIs
<1>1. /\ tick \in Nat /\ slot \in Nat /\ wake \in Nat
      /\ tp.slot \in 0 .. Slots /\ pushing = 0 /\ bridge \in Nat
      /\ sent \in 0 .. Burst - 1 /\ txRemaining \in 0 .. Frame - 1
  BY PeakFacts DEF Advance
<1>2. /\ tick' = tick - Earliest /\ slot' = slot - Earliest
      /\ UNCHANGED <<tp, pushing, bridge, txRemaining, sent, top, bursts>>
  BY DEF Advance, arbiter, history
<1>3. Earliest \in Nat /\ Earliest <= tick  BY <1>1, EarliestIs
<1>4. DrainLeast \in Int /\ FirstToLast \in Int  BY DrainIs
<1>5. Between' = Between /\ Landed' = Landed  BY <1>2 DEF Between, Landed
<1>6. ToLast' = ToLast - Earliest /\ ToLast \in Int
  <2> DEFINE n == SlotTime * (Slots - 3 - tp.slot)
  <2>1. n \in Int  BY <1>1
  <2>2. ToLast = slot + n /\ ToLast' = slot - Earliest + n  BY <1>2 DEF ToLast
  <2> HIDE DEF n
  <2> QED  BY <1>1, <1>3, <2>1, <2>2
<1>7. Between => Wait' = Wait
  <2> SUFFICES ASSUME Between PROVE Wait' = Wait  OBVIOUS
  <2>1. sent + bridge + pushing = Made(tp.slot)  BY PeakFacts DEF Between
  <2>2. Made(tp.slot) >= Payload
    <3>1. tp.slot \in 1 .. Slots - 2 /\ tp.slot >= 3  BY <1>1 DEF Between
    <3> QED  BY <3>1, GrowsFaster
  <2>3. sent > 0 \/ ~(bridge < Payload)
    <3>1. Made(tp.slot) = sent + bridge  BY <1>1, <2>1
    <3> QED  BY <1>1, <2>2, <3>1
  <2> QED  BY <1>2, <2>3 DEF Wait
<1>8. PeakHigh'
  <2>1. ASSUME Between PROVE tick' + ByteTime * (DrainLeast - Frame - sent' + Wait') < ToLast'
    <3> DEFINE a == DrainLeast - Frame - sent + Wait
    <3>1. a \in Int /\ ByteTime * a \in Int
      <4>1. a \in Int  BY <1>1, <1>4, PeakFacts
      <4> HIDE DEF a
      <4> QED  BY <4>1, Times
    <3>2. tick + ByteTime * a < ToLast  BY <2>1 DEF PeakHigh
    <3> HIDE DEF a
    <3>3. (tick - Earliest) + ByteTime * a < ToLast - Earliest
      BY <1>1, <1>3, <1>6, <3>1, <3>2
    <3> QED  BY <1>2, <1>6, <1>7, <2>1, <3>3 DEF a
  <2> QED  BY <1>2, <1>5, <2>1 DEF PeakHigh
<1>9. PeakLow'
  <2>1. ASSUME Between PROVE ByteTime * sent' + ToLast' <= FirstToLast + tick'
    <3>1. ByteTime * sent \in Int /\ ByteTime * sent + ToLast <= FirstToLast + tick
      BY <1>1, <2>1 DEF PeakLow
    <3>2. ByteTime * sent + (ToLast - Earliest) <= FirstToLast + (tick - Earliest)
      BY <1>1, <1>3, <1>4, <1>6, <3>1
    <3> QED  BY <1>2, <1>6, <3>2
  <2>2. ~(pushing' > 0)  BY <1>1, <1>2
  <2> QED  BY <1>2, <1>5, <2>1, <2>2 DEF PeakLow
<1> QED  BY <1>8, <1>9

LEMMA PeakNext ==
  SensorInv /\ BridgeInv /\ TraceInv /\ PeakHigh /\ PeakLow /\ [Next]_vars
    => PeakHigh' /\ PeakLow'
<1> SUFFICES ASSUME SensorInv, BridgeInv, TraceInv, PeakHigh, PeakLow, [Next]_vars
             PROVE  PeakHigh' /\ PeakLow'
  OBVIOUS
<1>1. CASE CanSlot  BY <1>1, PeakSlot, TakenSlot
<1>2. CASE CanPush  BY <1>2, PeakPush
<1>3. CASE ByteTick  BY <1>3, PeakByte
<1>4. CASE SensorTask \/ SensorPush \/ UNCHANGED vars
  <2>1. UNCHANGED <<tick, slot, tp, pushing, bridge, txRemaining, sent, top, bursts>>
    BY <1>4 DEF SensorTask, SensorPush, vars, timers, arbiter, history
  <2> QED
    BY <2>1 DEF PeakHigh, PeakLow, Between, Landed, ToLast, Wait
<1>5. CASE Advance  BY <1>5, PeakAdvance
<1> QED  BY <1>1, <1>2, <1>3, <1>4, <1>5 DEF Next

LEMMA PeakHolds == SensorInv /\ BridgeInv /\ TraceInv /\ PeakHigh /\ PeakLow => PeakBounded
<1> SUFFICES ASSUME SensorInv, BridgeInv, TraceInv, PeakHigh, PeakLow PROVE PeakBounded
  OBVIOUS
<1>1. ~lost  BY DEF BridgeInv
<1>2. top <= Burst - DrainLeast + Frame - 1  BY DEF PeakHigh, Peak
<1>3. ~tp.active /\ age > 0 /\ bursts > 0 => top >= Burst - DrainMost
  BY PeakFacts DEF PeakLow, Landed
<1> QED  BY <1>1, <1>2, <1>3 DEF PeakBounded

\* No byte is lost in the bridge ring, and the peak is what the rates make it,
\* to within a frame's wait: what config.h sizes RING_BYTES for, and what the
\* page of the dashboard shows (engine_on_can_slot).
THEOREM PeakIsBounded == Spec => []PeakBounded
<1> DEFINE Inv == SensorInv /\ BridgeInv /\ TraceInv /\ PeakHigh /\ PeakLow
<1>1. Init => Inv  BY SensorInit, RingInit, TraceInit, PeakInit
<1>2. Inv /\ [Next]_vars => Inv'  BY SensorNext, RingNext, TraceNext, PeakNext
<1>3. Inv => PeakBounded  BY PeakHolds
<1> QED  BY <1>1, <1>2, <1>3, PTL DEF Spec

(***************************************************************************)
(* The trace and the peak.                                                 *)
(***************************************************************************)

\* A trace with samples enough for all slots of a burst is running when the
\* last Consecutive Frame comes in, and that is when the ring is fullest: each
\* frame brings more than was sent since the one before it.
ShowInv ==
  /\ pushing > 0 => slot = SlotTime /\ tp.slot <= Slots - 2
  /\ ~Landed => trace.active
  /\ ~Landed /\ pushing = 0 =>
       ByteTime * (top - bridge) + ToFrame <= 2 * SlotTime + tick
  /\ pushing > 0 => ByteTime * (top - bridge - pushing) < tick
  /\ ~Landed =>
       ByteTime * (TraceEvery * trace.len + ticks + 1 - TraceEvery) + ToLast
         <= SlotTime * (Slots - 3) + tick
  /\ Landed /\ trace.active =>
       \/ trace.top >= top - TraceEvery
       \/ bridge >= top - ticks /\ trace.len < TraceSamples
  /\ Landed /\ ~trace.active /\ done.ready => done.top >= top - TraceEvery

LEMMA ShowInit == Init => ShowInv
<1> SUFFICES ASSUME Init PROVE ShowInv  OBVIOUS
<1>1. tp.active = FALSE /\ pushing = 0
      /\ trace = [active |-> FALSE, len |-> 0, top |-> 0]
      /\ done = [ready |-> FALSE, top |-> 0]
  BY DEF Init
<1>2. Landed /\ ~(pushing > 0) /\ ~trace.active /\ ~done.ready
  BY <1>1 DEF Landed
<1> QED  BY <1>2 DEF ShowInv

\* The facts the steps below share.
LEMMA ShowFacts ==
  ASSUME SensorInv, BridgeInv, TraceInv, ShowInv
  PROVE  /\ tick \in 0 .. ByteTime /\ slot \in 0 .. SlotTime
         /\ tp.active \in BOOLEAN /\ tp.slot \in 0 .. Slots
         /\ pushing \in 0 .. Payload /\ bridge \in Nat /\ top \in Nat /\ bridge <= top
         /\ ticks \in 0 .. TraceEvery - 1 /\ trace.len \in 0 .. TraceSamples
         /\ trace.active \in BOOLEAN /\ trace.top \in Nat
         /\ done.top \in Nat
         /\ ToFrame \in Int /\ ToLast \in Int
         /\ TraceEvery * trace.len \in Int
         /\ \A n \in Int : SlotTime * n \in Int
         /\ ~Landed => ToLast >= 0
<1> USE Constants, BurstIs
<1>1. /\ tick \in 0 .. ByteTime /\ slot \in 0 .. SlotTime
      /\ tp.active \in BOOLEAN /\ tp.slot \in 0 .. Slots
      /\ pushing \in 0 .. Payload /\ bridge \in Nat /\ top \in Nat /\ bridge <= top
      /\ (~tp.active => pushing = 0)
  BY PeakFacts
<1>2. /\ ticks \in 0 .. TraceEvery - 1 /\ trace.len \in 0 .. TraceSamples
      /\ trace.active \in BOOLEAN /\ trace.top \in 0 .. BridgeRing
      /\ done.top \in 0 .. BridgeRing
  BY DEF TraceInv
<1>3. \A n \in Int : SlotTime * n \in Int  OBVIOUS
<1>4. ToFrame \in Int  BY <1>1 DEF ToFrame
<1> DEFINE n == Slots - 3 - tp.slot
<1>5. n \in Int /\ SlotTime * n \in Int  BY <1>1
<1>6. ToLast \in Int  BY <1>1, <1>5 DEF ToLast
<1>7. ASSUME ~Landed PROVE ToLast >= 0
  <2>1. CASE tp.slot <= Slots - 3
    <3>1. SlotTime * (Slots - 3 - tp.slot) >= 0  BY <1>1, <2>1
    <3> QED  BY <1>1, <1>5, <3>1 DEF ToLast
  <2>2. CASE ~(tp.slot <= Slots - 3)
    <3>1. pushing > 0  BY <1>1, <1>7, <2>2 DEF Landed
    <3>2. slot = SlotTime /\ tp.slot = Slots - 2  BY <1>1, <2>2, <3>1 DEF ShowInv
    <3>3. Slots - 3 - tp.slot = -1 /\ SlotTime * (-1) = -SlotTime  BY <3>2
    <3> QED  BY <1>1, <3>2, <3>3 DEF ToLast
  <2> QED  BY <2>1, <2>2
<1>8. TraceEvery * trace.len \in Int  BY <1>2
<1> QED  BY <1>1, <1>2, <1>3, <1>4, <1>6, <1>7, <1>8

\* A slot keeps the time to the last frame; a Consecutive Frame is more than
\* was sent since the one before it.
LEMMA ShowSlot ==
  ASSUME SensorInv, BridgeInv, TraceInv, ShowInv, CanSlot
  PROVE  ShowInv'
<1> USE Constants, BurstIs
<1> DEFINE s == tp.slot
<1>1. /\ tick \in 0 .. ByteTime /\ slot = 0 /\ slot' = SlotTime /\ pushing = 0
      /\ bridge \in Nat /\ top \in Nat /\ bridge <= top /\ ticks \in 0 .. TraceEvery - 1
      /\ tp.active \in BOOLEAN /\ tp.slot \in 0 .. Slots
      /\ trace.len \in 0 .. TraceSamples
      /\ UNCHANGED <<tick, bridge, ticks, done>>
  BY ShowFacts DEF CanSlot
<1>2. CASE Starts
  <2>1. /\ tp'.active /\ tp'.slot = 1 /\ pushing' = 0 /\ top' = bridge
        /\ trace' = [active |-> TRUE, len |-> 0, top |-> 0]
    BY <1>2, SlotSteps DEF CanSlot
  <2>2. ~Landed' /\ ~(pushing' > 0)  BY <2>1 DEF Landed
  <2>3. trace'.active /\ trace'.len = 0  BY <2>1
  <2>4. ByteTime * (top' - bridge') + ToFrame' <= 2 * SlotTime + tick'
    <3>1. Kind(tp'.slot) # "consecutive"  BY <2>1, FirstFrame
    <3>2. ToFrame' = SlotTime + SlotTime  BY <1>1, <3>1 DEF ToFrame
    <3>3. top' - bridge' = 0  BY <1>1, <2>1
    <3>4. ByteTime * (top' - bridge') = 0  BY <3>3
    <3>5. ByteTime * (top' - bridge') + ToFrame' = SlotTime + SlotTime  BY <3>2, <3>4
    <3>6. SlotTime + SlotTime <= 2 * SlotTime + tick  BY <1>1
    <3> QED  BY <1>1, <3>5, <3>6
  <2>5. ByteTime * (TraceEvery * trace'.len + ticks' + 1 - TraceEvery) + ToLast'
          <= SlotTime * (Slots - 3) + tick'
    <3>1. TraceEvery * trace'.len + ticks' + 1 - TraceEvery = ticks + 1 - TraceEvery
      <4>1. TraceEvery * trace'.len = 0  BY <2>3
      <4> QED  BY <1>1, <4>1
    <3> DEFINE a == ticks + 1 - TraceEvery
    <3>2. a \in Int /\ a <= 0  BY <1>1
    <3> HIDE DEF a
    <3>3. ByteTime * a <= 0 /\ ByteTime * a \in Int
      <4>1. 0 \in Int  OBVIOUS
      <4>2. ByteTime * a <= ByteTime * 0  BY <3>2, <4>1, Times
      <4> QED  BY <3>2, <4>2, Times
    <3>4. ToLast' = SlotTime * (Slots - 3)
      <4>1. ToLast' = SlotTime + SlotTime * (Slots - 3 - 1)  BY <1>1, <2>1 DEF ToLast
      <4>2. SlotTime * (Slots - 3) = SlotTime + SlotTime * (Slots - 3 - 1)
        <5> DEFINE m == Slots - 3 - 1
        <5>1. m \in Int /\ Slots - 3 = m + 1  OBVIOUS
        <5> HIDE DEF m
        <5>2. SlotTime * (m + 1) = SlotTime * m + SlotTime /\ SlotTime * m \in Int  BY <5>1
        <5> QED  BY <5>1, <5>2 DEF m
      <4> QED  BY <4>1, <4>2
    <3>5. ByteTime * a + SlotTime * (Slots - 3) <= SlotTime * (Slots - 3) + tick
      <4>1. SlotTime * (Slots - 3) \in Int  OBVIOUS
      <4> QED  BY <1>1, <3>3, <4>1
    <3> QED  BY <1>1, <3>1, <3>4, <3>5 DEF a
  <2> QED  BY <2>2, <2>3, <2>4, <2>5 DEF ShowInv
<1>3. CASE ~tp.active /\ ~Starts
  <2>1. top' = top /\ pushing' = 0 /\ ~tp'.active /\ trace' = trace
    BY <1>3, SlotSteps DEF CanSlot
  <2>2. Landed /\ Landed' /\ ~(pushing' > 0)  BY <1>1, <1>3, <2>1 DEF Landed
  <2> QED  BY <1>1, <2>1, <2>2 DEF ShowInv
<1>4. CASE tp.active
  <2>1. /\ ~Starts /\ tp'.slot = s + 1 /\ top' = top /\ trace' = trace
        /\ pushing' = IF Kind(s) = "consecutive" THEN Payload ELSE 0
        /\ (tp'.active <=> s + 1 < Slots) /\ s \in 1 .. Slots - 1
    BY <1>4, SlotSteps, PeakFacts DEF CanSlot
  <2>2. CASE s >= Slots - 2
    <3>1. Kind(s) = "protocol"  BY <2>1, <2>2, OtherSlots
    <3>2. pushing' = 0  BY <2>1, <3>1
    <3>3. Landed  BY <1>1, <2>2 DEF Landed
    <3>4. Landed' /\ ~(pushing' > 0)
      <4>1. s + 1 >= Slots - 2  BY <2>1, <2>2
      <4> QED  BY <2>1, <3>2, <4>1 DEF Landed
    <3> QED  BY <1>1, <2>1, <3>3, <3>4 DEF ShowInv
  <2>3. CASE s <= Slots - 3
    <3>1. ~Landed
      <4>1. ~(s >= Slots - 2)  BY <2>1, <2>3
      <4> QED  BY <1>4, <4>1 DEF Landed
    <3>2. s \in 1 .. Slots - 3  BY <2>1, <2>3
    <3>3. ToLast' = ToLast
      <4> DEFINE n == Slots - 3 - (s + 1)
      <4>1. n \in Int /\ Slots - 3 - s = n + 1  BY <2>1
      <4>2. ToLast' = SlotTime + SlotTime * n  BY <1>1, <2>1 DEF ToLast
      <4>3. ToLast = 0 + SlotTime * (n + 1)  BY <1>1, <4>1 DEF ToLast
      <4> HIDE DEF n
      <4>4. SlotTime * (n + 1) = SlotTime + SlotTime * n /\ SlotTime * n \in Int  BY <4>1
      <4> QED  BY <4>1, <4>2, <4>3, <4>4
    <3>4. trace'.active  BY <2>1, <3>1 DEF ShowInv
    <3>5. ByteTime * (TraceEvery * trace'.len + ticks' + 1 - TraceEvery) + ToLast'
            <= SlotTime * (Slots - 3) + tick'
      BY <1>1, <2>1, <3>1, <3>3 DEF ShowInv
    <3>6. ByteTime * (top - bridge) + ToFrame <= 2 * SlotTime + tick
      BY <1>1, <3>1 DEF ShowInv
    <3>7. CASE Kind(s) = "consecutive"
      <4>1. pushing' = Payload /\ pushing' > 0 /\ ~(pushing' = 0) /\ ~Landed'
        <5>1. pushing' = Payload  BY <2>1, <3>7
        <5> QED  BY <5>1 DEF Landed
      <4>2. ToFrame = 0  BY <1>1, <3>7 DEF ToFrame
      <4> DEFINE a == top - bridge
      <4>3. a \in Int /\ ByteTime * a + 0 <= 2 * SlotTime + tick  BY <1>1, <3>6, <4>2
      <4> HIDE DEF a
      <4>4. ByteTime * (a - Payload) = ByteTime * a - ByteTime * Payload
            /\ ByteTime * a \in Int /\ ByteTime * Payload \in Int
        BY <4>3, Times
      <4>5. ByteTime * (a - Payload) < tick
        BY <1>1, <4>3, <4>4, RateAssumption
      <4>6. ByteTime * (top' - bridge' - pushing') < tick'
        BY <1>1, <2>1, <4>1, <4>5 DEF a
      <4>7. slot' = SlotTime /\ tp'.slot <= Slots - 2
        <5>1. s + 1 <= Slots - 2  BY <2>1, <2>3
        <5> QED  BY <1>1, <2>1, <5>1
      <4> QED  BY <3>4, <3>5, <4>1, <4>6, <4>7 DEF ShowInv
    <3>8. CASE Kind(s) # "consecutive"
      <4>1. pushing' = 0 /\ ~(pushing' > 0)
        <5>1. pushing' = 0  BY <2>1, <3>8
        <5> QED  BY <5>1
      <4>2. s + 1 \in 1 .. Slots - 3 /\ Kind(s + 1) = "consecutive"
        BY <3>2, <3>8, SlotIs
      <4>3. ToFrame = 0 + SlotTime /\ ToFrame' = SlotTime + 0
        BY <1>1, <2>1, <3>8, <4>2 DEF ToFrame
      <4>4. ToFrame' = ToFrame  BY <4>3
      <4>5. ByteTime * (top' - bridge') + ToFrame' <= 2 * SlotTime + tick'
        BY <1>1, <2>1, <3>6, <4>4
      <4>6. ~Landed'
        <5>1. s + 1 < Slots /\ ~(s + 1 >= Slots - 2)  BY <4>2
        <5> QED  BY <2>1, <5>1 DEF Landed
      <4> QED  BY <3>4, <3>5, <4>1, <4>5, <4>6 DEF ShowInv
    <3> QED  BY <3>7, <3>8
  <2> QED  BY <2>1, <2>2, <2>3
<1> QED  BY <1>1, <1>2, <1>3, <1>4

\* A long trace is not over while a burst comes in.
LEMMA StillTracing ==
  ASSUME LongTrace, SensorInv, BridgeInv, TraceInv, ShowInv, ~Landed
  PROVE  TraceEvery * trace.len + ticks < TraceEvery * TraceSamples
         /\ trace.len < TraceSamples
<1> USE Constants, BurstIs
<1> DEFINE m == TraceEvery * trace.len + ticks + 1 - TraceEvery
           n == TraceEvery * (TraceSamples - 1)
           k == SlotTime * (Slots - 3)
<1>1. /\ tick \in 0 .. ByteTime /\ ToLast \in Int /\ ToLast >= 0
      /\ ticks \in 0 .. TraceEvery - 1 /\ trace.len \in 0 .. TraceSamples
      /\ TraceEvery * trace.len \in Int
  BY ShowFacts
<1>2. m \in Int /\ n \in Int /\ k \in Int /\ ByteTime * m + ToLast <= k + tick
      /\ k < ByteTime * n
  BY <1>1 DEF ShowInv, LongTrace
<1>3. n = TraceEvery * TraceSamples - TraceEvery /\ TraceEvery * TraceSamples \in Int
  OBVIOUS
<1> HIDE DEF m, n, k
<1>4. ByteTime * (m - 1) < ByteTime * n
  <2>1. ByteTime * (m - 1) = ByteTime * m - ByteTime /\ ByteTime * m \in Int
        /\ ByteTime * n \in Int
    <3>1. 1 \in Int  OBVIOUS
    <3> QED  BY <1>2, <3>1, Times
  <2> QED  BY <1>1, <1>2, <2>1
<1>5. m - 1 < n
  <2>1. m - 1 \in Int /\ ByteTime * (m - 1) \in Int /\ ByteTime * n \in Int
    <3> DEFINE j == m - 1
    <3>1. j \in Int  BY <1>2
    <3> HIDE DEF j
    <3>2. ByteTime * j \in Int  BY <3>1, Times
    <3> QED  BY <1>2, <3>1, <3>2, Times DEF j
  <2>2. ASSUME n <= m - 1 PROVE ByteTime * n <= ByteTime * (m - 1)
    BY <1>2, <2>1, <2>2, Times
  <2> QED  BY <1>2, <1>4, <2>1, <2>2
<1>6. TraceEvery * trace.len + ticks < TraceEvery * TraceSamples
  BY <1>1, <1>2, <1>3, <1>5 DEF m
<1>7. trace.len # TraceSamples
  BY <1>1, <1>6
<1> QED  BY <1>1, <1>6, <1>7

LEMMA ShowPush ==
  ASSUME LongTrace, SensorInv, BridgeInv, TraceInv, ShowInv, CanPush
  PROVE  ShowInv'
<1> USE Constants, BurstIs
<1> DEFINE a == top - bridge - pushing
<1>1. /\ tick \in 0 .. ByteTime /\ pushing \in 0 .. Payload /\ pushing > 0
      /\ bridge \in Nat /\ top \in Nat /\ bridge <= top /\ ticks \in 0 .. TraceEvery - 1
      /\ bridge + pushing <= Burst /\ tp.slot \in 0 .. Slots
      /\ slot = SlotTime /\ tp.slot <= Slots - 2 /\ ~Landed
      /\ ByteTime * a < tick /\ a \in Int /\ ToFrame \in Int
  BY ShowFacts, BridgeFacts DEF CanPush, ShowInv, Landed
<1>2. /\ pushing' = pushing - 1
      /\ UNCHANGED <<tick, slot, tp, ticks, trace, done>>
  BY DEF CanPush, timers, tracing
<1>3. bridge < BridgeRing  BY <1>1, RateAssumption
<1>4. bridge' = bridge + 1 /\ top' = IF bridge + 1 > top THEN bridge + 1 ELSE top
  BY <1>3 DEF CanPush
<1>5. ToLast' = ToLast /\ ToFrame' = ToFrame  BY <1>2 DEF ToLast, ToFrame
<1>6. trace'.active /\ trace.active  BY <1>1, <1>2 DEF ShowInv
<1>7. ByteTime * (TraceEvery * trace'.len + ticks' + 1 - TraceEvery) + ToLast'
        <= SlotTime * (Slots - 3) + tick'
  BY <1>1, <1>2, <1>5 DEF ShowInv
<1>8. slot' = SlotTime /\ tp'.slot <= Slots - 2  BY <1>1, <1>2
<1>9. CASE pushing > 1
  <2>1. pushing' > 0 /\ ~(pushing' = 0) /\ ~Landed'
    <3>1. pushing - 1 > 0  BY <1>1, <1>9
    <3>2. pushing' > 0 /\ ~(pushing' = 0)  BY <1>2, <3>1
    <3> QED  BY <3>2 DEF Landed
  <2>2. ByteTime * (top' - bridge' - pushing') < tick'
    <3>1. CASE bridge + 1 > top
      <4>1. top' - bridge' - pushing' = 1 - pushing  BY <1>1, <1>2, <1>4, <3>1
      <4> DEFINE j == 1 - pushing
      <4>2. j \in Int /\ j <= 0 - 1 /\ 0 - 1 \in Int  BY <1>1, <1>9
      <4> HIDE DEF j
      <4>3. ByteTime * j <= ByteTime * (0 - 1) /\ ByteTime * (0 - 1) = 0 - ByteTime
            /\ ByteTime * j \in Int
        BY <4>2, Times
      <4>4. ByteTime * j < tick  BY <1>1, <4>3
      <4> QED  BY <1>2, <4>1, <4>4 DEF j
    <3>2. CASE ~(bridge + 1 > top)
      <4>1. top' - bridge' - pushing' = a  BY <1>1, <1>2, <1>4, <3>2
      <4> QED  BY <1>1, <1>2, <4>1
    <3> QED  BY <3>1, <3>2
  <2> QED  BY <1>6, <1>7, <1>8, <2>1, <2>2 DEF ShowInv
<1>10. CASE pushing = 1
  <2>1. pushing' = 0 /\ ~(pushing' > 0)
    <3>1. pushing' = 0  BY <1>2, <1>10
    <3> QED  BY <3>1
  <2>2. a <= 0
    <3> HIDE DEF a
    <3>1. ASSUME a >= 1 PROVE FALSE
      <4>1. 1 \in Int  OBVIOUS
      <4>2. ByteTime * 1 <= ByteTime * a  BY <1>1, <3>1, <4>1, Times
      <4>3. ByteTime * a \in Int  BY <1>1, Times
      <4> QED  BY <1>1, <4>2, <4>3, Times
    <3> QED  BY <1>1, <3>1
  <2>3. top <= bridge + 1 /\ top' = bridge + 1
    <3>1. top <= bridge + 1  BY <1>1, <1>10, <2>2
    <3>2. CASE bridge + 1 > top  BY <1>4, <3>1, <3>2
    <3>3. CASE ~(bridge + 1 > top)
      <4>1. top = bridge + 1  BY <1>1, <3>1, <3>3
      <4> QED  BY <1>4, <3>3, <4>1
    <3> QED  BY <3>1, <3>2, <3>3
  <2>4. ByteTime * (top' - bridge') + ToFrame' <= 2 * SlotTime + tick'
    <3>1. top' - bridge' = 0  BY <1>1, <1>4, <2>3
    <3>2. ByteTime * (top' - bridge') = 0  BY <3>1
    <3>3. ToFrame <= 2 * SlotTime  BY <1>1 DEF ToFrame
    <3>4. 0 + ToFrame <= 2 * SlotTime + tick  BY <1>1, <3>3
    <3> QED  BY <1>2, <1>5, <3>2, <3>4
  <2>5. bridge' >= top' - ticks' /\ trace'.len < TraceSamples
    <3>1. trace.len < TraceSamples  BY <1>1, StillTracing
    <3> DEFINE x == ticks'
               y == top'
               z == bridge'
    <3>2. z = bridge + 1 /\ y = bridge + 1 /\ x = ticks  BY <1>2, <1>4, <2>3
    <3> HIDE DEF x, y, z
    <3>3. z >= y - x  BY <1>1, <3>2
    <3> QED  BY <1>2, <3>1, <3>3 DEF x, y, z
  <2> QED  BY <1>6, <1>7, <1>8, <2>1, <2>4, <2>5 DEF ShowInv
<1> QED  BY <1>1, <1>9, <1>10

\* A byte tick, in a burst and after it.
LEMMA ShowByte ==
  ASSUME LongTrace, SensorInv, BridgeInv, TraceInv, ShowInv, ByteTick
  PROVE  ShowInv'
<1> USE Constants, BurstIs
<1>1. /\ tick = 0 /\ tick' = ByteTime /\ UNCHANGED <<slot, tp, pushing, top>>
      /\ bridge \in Nat /\ top \in Nat /\ bridge <= top /\ pushing \in 0 .. Payload
      /\ ticks \in 0 .. TraceEvery - 1 /\ trace.len \in 0 .. TraceSamples
      /\ trace.active \in BOOLEAN /\ trace.top \in Nat /\ done.top \in Nat
      /\ ToFrame \in Int /\ ToLast \in Int /\ TraceEvery * trace.len \in Int
      /\ trace \in [active : BOOLEAN, len : 0 .. TraceSamples, top : 0 .. BridgeRing]
      /\ tp.slot \in 0 .. Slots
  BY ShowFacts DEF ByteTick, history, TraceInv
<1>2. bridge' = bridge \/ (bridge > 0 /\ bridge' = bridge - 1)
  BY DEF ByteTick, Arbitrate
<1>3. ticks' = (ticks + 1) % TraceEvery  BY DEF ByteTick, Trace
<1>4. /\ ToLast' = ToLast /\ ToFrame' = ToFrame /\ Landed' = Landed
  BY <1>1 DEF ToLast, ToFrame, Landed
<1>5. bridge' \in Int /\ bridge' >= bridge - 1
  <2>1. CASE bridge' = bridge  BY <1>1, <2>1
  <2>2. CASE bridge' = bridge - 1  BY <1>1, <2>2
  <2> QED  BY <1>2, <2>1, <2>2
<1>6. CASE ~Landed
  <2>1. trace.active /\ trace.len < TraceSamples  BY <1>6, StillTracing DEF ShowInv
  <2>2. /\ trace'.active
        /\ \/ trace'.len = trace.len /\ ticks' = ticks + 1
           \/ trace'.len = trace.len + 1 /\ ticks' = 0 /\ ticks + 1 = TraceEvery
    <3>1. CASE ticks + 1 < TraceEvery
      <4>1. ticks' = ticks + 1 /\ ticks' # 0  BY <1>1, <1>3, <3>1
      <4>2. trace' = trace  BY <4>1 DEF ByteTick, Trace
      <4> QED  BY <2>1, <4>1, <4>2
    <3>2. CASE ticks + 1 = TraceEvery
      <4>1. ticks' = 0  BY <1>1, <1>3, <3>2
      <4>2. trace' = [trace EXCEPT !.len = @ + 1, !.top = IF bridge' > @ THEN bridge' ELSE @]
        BY <2>1, <4>1 DEF ByteTick, Trace, HasRoom
      <4> QED  BY <1>1, <2>1, <3>2, <4>1, <4>2
    <3> QED  BY <1>1, <3>1, <3>2
  <2> DEFINE m == TraceEvery * trace.len + ticks + 1 - TraceEvery
  <2>3. TraceEvery * trace'.len + ticks' + 1 - TraceEvery = m + 1
    <3>1. CASE trace'.len = trace.len /\ ticks' = ticks + 1  BY <1>1, <3>1
    <3>2. CASE trace'.len = trace.len + 1 /\ ticks' = 0 /\ ticks + 1 = TraceEvery
      <4>1. TraceEvery * (trace.len + 1) = TraceEvery * trace.len + TraceEvery  BY <1>1
      <4>2. TraceEvery * (trace.len + 1) + 0 + 1 - TraceEvery = m + 1
        BY <1>1, <3>2, <4>1
      <4> QED  BY <3>2, <4>2
    <3> QED  BY <2>2, <3>1, <3>2
  <2>4. m \in Int /\ ByteTime * m + ToLast <= SlotTime * (Slots - 3) + 0
    BY <1>1, <1>6 DEF ShowInv
  <2> HIDE DEF m
  <2>5. ByteTime * (m + 1) = ByteTime * m + ByteTime /\ ByteTime * m \in Int
    <3>1. 1 \in Int  OBVIOUS
    <3> QED  BY <2>4, <3>1, Times
  <2>6. ByteTime * (m + 1) + ToLast <= SlotTime * (Slots - 3) + ByteTime
    <3>1. SlotTime * (Slots - 3) \in Int  OBVIOUS
    <3> QED  BY <1>1, <2>4, <2>5, <3>1
  <2>7. ByteTime * (TraceEvery * trace'.len + ticks' + 1 - TraceEvery) + ToLast'
          <= SlotTime * (Slots - 3) + tick'
    BY <1>1, <1>4, <2>3, <2>6
  <2>8. pushing > 0 => ByteTime * (top' - bridge' - pushing') < tick'
    <3> SUFFICES ASSUME pushing > 0 PROVE ByteTime * (top' - bridge' - pushing') < tick'
      OBVIOUS
    <3> DEFINE a == top - bridge - pushing
               z == top' - bridge' - pushing'
    <3>1. a \in Int /\ ByteTime * a < 0  BY <1>1 DEF ShowInv
    <3>2. z \in Int /\ z <= a + 1
      <4>1. CASE bridge' = bridge  BY <1>1, <4>1
      <4>2. CASE bridge' = bridge - 1  BY <1>1, <4>2
      <4> QED  BY <1>2, <4>1, <4>2
    <3> HIDE DEF a, z
    <3>3. a < 0
      <4>1. ASSUME a >= 0 PROVE ByteTime * a >= 0  BY <3>1, <4>1
      <4> QED  BY <3>1, <4>1
    <3>4. z <= 0 /\ 0 \in Int  BY <3>1, <3>2, <3>3
    <3>5. ByteTime * z <= ByteTime * 0 /\ ByteTime * z \in Int  BY <3>2, <3>4, Times
    <3>6. ByteTime * z < ByteTime  BY <3>5, Times
    <3> QED  BY <1>1, <3>6 DEF z
  <2>9. pushing = 0 => ByteTime * (top' - bridge') + ToFrame' <= 2 * SlotTime + tick'
    <3> SUFFICES ASSUME pushing = 0
                 PROVE  ByteTime * (top' - bridge') + ToFrame' <= 2 * SlotTime + tick'
      OBVIOUS
    <3> DEFINE a == top - bridge
               z == top' - bridge'
    <3>1. a \in Int /\ ByteTime * a + ToFrame <= 2 * SlotTime + 0
      BY <1>1, <1>6 DEF ShowInv
    <3>2. z \in Int /\ z <= a + 1 /\ a + 1 \in Int
      <4>1. CASE bridge' = bridge  BY <1>1, <4>1
      <4>2. CASE bridge' = bridge - 1  BY <1>1, <4>2
      <4> QED  BY <1>2, <4>1, <4>2
    <3> HIDE DEF a, z
    <3>3. ByteTime * z <= ByteTime * (a + 1) /\ ByteTime * (a + 1) = ByteTime * a + ByteTime
          /\ ByteTime * a \in Int /\ ByteTime * z \in Int
      <4>1. 1 \in Int  OBVIOUS
      <4> QED  BY <3>1, <3>2, <4>1, Times
    <3>4. ByteTime * z + ToFrame <= 2 * SlotTime + ByteTime  BY <1>1, <3>1, <3>3
    <3> QED  BY <1>1, <1>4, <3>4 DEF z
  <2> QED  BY <1>1, <1>4, <1>6, <2>2, <2>7, <2>8, <2>9 DEF ShowInv
<1>7. CASE Landed
  <2>1. pushing = 0 /\ ~(pushing > 0)  BY <1>7 DEF Landed
  <2>2. CASE ~trace.active
    <3>1. UNCHANGED <<trace, done>>  BY <2>2 DEF ByteTick, Trace
    <3> QED  BY <1>1, <1>4, <1>7, <2>1, <2>2, <3>1 DEF ShowInv
  <2>3. CASE trace.active /\ ticks + 1 < TraceEvery
    <3>1. ticks' = ticks + 1 /\ ticks' # 0  BY <1>1, <1>3, <2>3
    <3>2. UNCHANGED <<trace, done>>  BY <3>1 DEF ByteTick, Trace
    <3>3. \/ trace.top >= top - TraceEvery
          \/ bridge >= top - ticks /\ trace.len < TraceSamples
      BY <1>7, <2>3 DEF ShowInv
    <3>4. bridge >= top - ticks => bridge' >= top' - ticks'
      <4> SUFFICES ASSUME bridge >= top - ticks PROVE bridge' >= top - (ticks + 1)
        BY <1>1, <3>1
      <4>1. bridge - 1 >= top - (ticks + 1)  BY <1>1
      <4>2. CASE bridge' = bridge  BY <1>1, <4>1, <4>2
      <4>3. CASE bridge' = bridge - 1  BY <4>1, <4>3
      <4> QED  BY <1>2, <4>2, <4>3
    <3> QED  BY <1>1, <1>4, <1>7, <2>1, <2>3, <3>2, <3>3, <3>4 DEF ShowInv
  <2>4. CASE trace.active /\ ticks + 1 = TraceEvery /\ trace.len < TraceSamples
    <3>1. ticks' = 0  BY <1>1, <1>3, <2>4
    <3>2. trace' = [trace EXCEPT !.len = @ + 1, !.top = IF bridge' > @ THEN bridge' ELSE @]
      BY <2>4, <3>1 DEF ByteTick, Trace, HasRoom
    <3>3. trace'.active /\ trace'.top = IF bridge' > trace.top THEN bridge' ELSE trace.top
      BY <1>1, <2>4, <3>2
    <3>4. trace'.top >= top - TraceEvery
      <4> DEFINE z == bridge'
      <4>1. z \in Int /\ trace'.top = IF z > trace.top THEN z ELSE trace.top
        BY <1>5, <3>3
      <4>2. z = bridge \/ z = bridge - 1  BY <1>2
      <4> HIDE DEF z
      <4>3. \/ trace.top >= top - TraceEvery
            \/ bridge >= top - ticks
        BY <1>7, <2>4 DEF ShowInv
      <4>4. (IF z > trace.top THEN z ELSE trace.top) >= top - TraceEvery
        BY <1>1, <2>4, <4>1, <4>2, <4>3
      <4> QED  BY <4>1, <4>4
    <3> QED  BY <1>1, <1>4, <1>7, <2>1, <3>3, <3>4 DEF ShowInv
  <2>5. CASE trace.active /\ ticks + 1 = TraceEvery /\ trace.len = TraceSamples
    <3>1. ticks' = 0  BY <1>1, <1>3, <2>5
    <3>2. /\ done' = [ready |-> TRUE, top |-> trace.top]
          /\ trace' = [active |-> FALSE, len |-> 0, top |-> 0]
      BY <2>5, <3>1 DEF ByteTick, Trace, HasRoom
    <3>3. ~trace'.active /\ done'.top = trace.top  BY <3>2
    <3>4. trace.top >= top - TraceEvery
      <4>1. ~(trace.len < TraceSamples)  BY <2>5
      <4> QED  BY <1>7, <2>5, <4>1 DEF ShowInv
    <3>5. done'.top >= top' - TraceEvery  BY <1>1, <3>3, <3>4
    <3> QED  BY <1>1, <1>4, <1>7, <2>1, <3>3, <3>5 DEF ShowInv
  <2>6. /\ ticks + 1 < TraceEvery \/ ticks + 1 = TraceEvery
        /\ trace.len < TraceSamples \/ trace.len = TraceSamples
    BY <1>1
  <2> QED  BY <2>2, <2>3, <2>4, <2>5, <2>6
<1> QED  BY <1>6, <1>7

LEMMA ShowNext ==
  ASSUME LongTrace
  PROVE  SensorInv /\ BridgeInv /\ TraceInv /\ ShowInv /\ [Next]_vars => ShowInv'
<1> SUFFICES ASSUME SensorInv, BridgeInv, TraceInv, ShowInv, [Next]_vars PROVE ShowInv'
  OBVIOUS
<1>1. CASE CanSlot  BY <1>1, ShowSlot
<1>2. CASE CanPush  BY <1>2, ShowPush
<1>3. CASE ByteTick  BY <1>3, ShowByte
<1>4. CASE SensorTask \/ SensorPush \/ UNCHANGED vars
  <2>1. UNCHANGED <<tick, slot, tp, pushing, bridge, ticks, trace, done, top>>
    BY <1>4 DEF SensorTask, SensorPush, vars, timers, tracing, history
  <2> QED
    BY <2>1 DEF ShowInv, Landed, ToFrame, ToLast
<1>5. CASE Advance
  <2> USE Constants, BurstIs
  <2>1. /\ tick \in Nat /\ slot \in Nat /\ wake \in Nat /\ tp.slot \in 0 .. Slots
        /\ pushing = 0 /\ bridge \in Nat /\ top \in Nat /\ ticks \in 0 .. TraceEvery - 1
        /\ trace.len \in 0 .. TraceSamples /\ TraceEvery * trace.len \in Int
        /\ ToFrame \in Int /\ ToLast \in Int
    BY <1>5, ShowFacts, PeakFacts DEF Advance
  <2>2. /\ tick' = tick - Earliest /\ slot' = slot - Earliest
        /\ UNCHANGED <<tp, pushing, bridge, ticks, trace, done, top>>
    BY <1>5 DEF Advance, tracing, history
  <2>3. Earliest \in Nat  BY <2>1, EarliestIs
  <2>4. ToLast' = ToLast - Earliest
    <3> DEFINE n == SlotTime * (Slots - 3 - tp.slot)
    <3>1. n \in Int  BY <2>1
    <3>2. ToLast = slot + n /\ ToLast' = slot - Earliest + n  BY <2>2 DEF ToLast
    <3> HIDE DEF n
    <3> QED  BY <2>1, <2>3, <3>1, <3>2
  <2>5. ToFrame' = ToFrame - Earliest  BY <2>1, <2>2, <2>3 DEF ToFrame
  <2>6. Landed' = Landed /\ ~(pushing' > 0)
    <3>1. pushing' = 0  BY <2>1, <2>2
    <3> QED  BY <2>1, <2>2, <3>1 DEF Landed
  <2>7. ASSUME ~Landed
        PROVE  ByteTime * (top' - bridge') + ToFrame' <= 2 * SlotTime + tick'
    <3> DEFINE a == top - bridge
    <3>1. a \in Int /\ ByteTime * a + ToFrame <= 2 * SlotTime + tick
      BY <2>1, <2>7 DEF ShowInv
    <3> HIDE DEF a
    <3>2. ByteTime * a \in Int  BY <3>1, Times
    <3>3. ByteTime * a + (ToFrame - Earliest) <= 2 * SlotTime + (tick - Earliest)
      BY <2>1, <2>3, <3>1, <3>2
    <3> QED  BY <2>2, <2>5, <3>3 DEF a
  <2>8. ASSUME ~Landed
        PROVE  ByteTime * (TraceEvery * trace'.len + ticks' + 1 - TraceEvery) + ToLast'
                 <= SlotTime * (Slots - 3) + tick'
    <3> DEFINE m == TraceEvery * trace.len + ticks + 1 - TraceEvery
    <3>1. m \in Int /\ ByteTime * m + ToLast <= SlotTime * (Slots - 3) + tick
      BY <2>1, <2>8 DEF ShowInv
    <3> HIDE DEF m
    <3>2. ByteTime * m \in Int  BY <3>1, Times
    <3>3. ByteTime * m + (ToLast - Earliest) <= SlotTime * (Slots - 3) + (tick - Earliest)
      <4>1. SlotTime * (Slots - 3) \in Int  OBVIOUS
      <4> QED  BY <2>1, <2>3, <3>1, <3>2, <4>1
    <3> QED  BY <2>2, <2>4, <3>3 DEF m
  <2> QED  BY <2>1, <2>2, <2>6, <2>7, <2>8 DEF ShowInv
<1> QED  BY <1>1, <1>2, <1>3, <1>4, <1>5 DEF Next

\* A burst trace shows the peak of its own burst, to within the ticks between
\* two samples, if it has samples enough for all slots of a burst: what the
\* dashboard draws is what the ring saw (engine_on_byte_tick,
\* engine_get_burst_trace).
THEOREM TraceShows == LongTrace => (Spec => []TraceShowsPeak)
<1> SUFFICES ASSUME LongTrace PROVE Spec => []TraceShowsPeak  OBVIOUS
<1> DEFINE Inv == SensorInv /\ BridgeInv /\ TraceInv /\ ShowInv
<1>1. Init => Inv  BY SensorInit, RingInit, TraceInit, ShowInit
<1>2. Inv /\ [Next]_vars => Inv'  BY SensorNext, RingNext, TraceNext, ShowNext
<1>3. Inv => TraceShowsPeak  BY DEF TraceInv, ShowInv, TraceShowsPeak
<1> QED  BY <1>1, <1>2, <1>3, PTL DEF Spec

================================================================================
