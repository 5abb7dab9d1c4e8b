----------------------------- MODULE Bridge_proofs -----------------------------
(***************************************************************************)
(* The bridge end to end, for all rates and sizes.  Its steps are steps of *)
(* the transmit side, so what Line_proofs shows of that holds of the       *)
(* bridge.  Requests are counted and answered as they should be.  On a     *)
(* line that loses nothing the verifier finds nothing wrong, bursts are    *)
(* reassembled in time and the snapshot is fresh.                          *)
(*                                                                         *)
(* The last three rest on two things: the bytes on their way are few       *)
(* enough for the receive ring, which is a matter of time (QueueInv); and  *)
(* they are the bytes that lead from the place in the streams the verifier *)
(* has heard to the place the sender is at (FlightInv), each of which the  *)
(* verifier takes as it should (Hears).                                    *)
(*                                                                         *)
(* A verifier that the sweep has cleared in the middle of a frame is in    *)
(* step again before it could take what is left of the frame for a burst   *)
(* (Tracks).  On a line with faults it is in step again within a burst and *)
(* three frames (NoisyInv).  The checksum by the table is the remainder of *)
(* the polynomial division.                                                *)
(***************************************************************************)
EXTENDS Bridge, Noisy, Line_proofs, SequenceTheorems

(***************************************************************************)
(* The bridge is a Line.                                                   *)
(***************************************************************************)

LineInv ==
  SensorInv /\ BridgeInv /\ TraceInv /\ PeakHigh /\ PeakLow

\* A step of the bridge is a step of the transmit side; the sweep, handing
\* back, clears a count that is clear.
LEMMA StepsOfLine ==
  ASSUME BridgeNext, ~lost, lost \in BOOLEAN
  PROVE  [Next]_vars
<1>1. CASE SweepHandsBack
  <2>1. UNCHANGED <<timers, tp, pushing, bridge, sensor, filling, arbiter, tracing, wire, sent,
                    history>>
    BY <1>1 DEF SweepHandsBack
  <2>2. lost' = FALSE  BY <1>1 DEF SweepHandsBack
  <2>3. lost' = lost  BY <2>2, Zenon
  <2> QED  BY <2>1, <2>3 DEF vars
<1>2. CASE Steps
  BY <1>2 DEF Steps, Slot, Push, Tick, RxIsr, ProtoWakes, ProtoByte, ProtoDrained,
     ProtoAnswers, ProtoClears, SensorWakes, SensorFills, Time, Next
<1> QED  BY <1>1, <1>2 DEF BridgeNext, Machine

\* With the ring primed and the timers just started.
LEMMA StartsAsLine == BridgeInit => LineInv /\ ShowInv
<1> SUFFICES ASSUME BridgeInit PROVE LineInv /\ ShowInv  OBVIOUS
<1> USE Constants, BurstIs
<1>1. /\ tick \in 0 .. ByteTime - 1 /\ slot = SlotTime /\ wake = KernelTick
      /\ tp = [active |-> FALSE, slot |-> 0, since |-> Period - Slots]
      /\ pushing = 0 /\ bridge = 0 /\ lost = FALSE
      /\ sensor = (SensorRing \div Frame) * Frame /\ filling = 0
      /\ txRemaining = 0 /\ txFromBridge = FALSE /\ ticks = 0
      /\ trace = [active |-> FALSE, len |-> 0, top |-> 0]
      /\ done = [ready |-> FALSE, top |-> 0]
      /\ wire = "sensor" /\ sent = 0 /\ age = 0 /\ top = 0 /\ bursts = 0
  BY LineAssumption DEF BridgeInit
<1>2. Period - Slots \in 0 .. Period - 1  BY BridgeAssumption
<1>3. /\ tp \in [active : BOOLEAN, slot : 0 .. Slots, since : 0 .. Period - 1]
      /\ tp.active = FALSE /\ tp.since = Period - Slots
  BY <1>1, <1>2
<1>4. SensorInv
  <2> DEFINE q == SensorRing \div Frame
  <2>1. q \in Nat /\ SensorRing = Frame * q + (SensorRing % Frame)
        /\ SensorRing % Frame \in 0 .. Frame - 1
    BY DivMod
  <2>2. KernelTick <= ByteTime * (Frame * (q - 2))
    BY RateAssumption
  <2>3. sensor = q * Frame  BY <1>1
  <2> HIDE DEF q
  <2>4. q * Frame = Frame * q /\ Frame * q \in Nat
        /\ Frame * (q - 2) = Frame * q - Frame - Frame
    BY <2>1
  <2>5. sensor \in Nat /\ sensor <= SensorRing  BY <2>1, <2>3, <2>4
  <2>6. Frame * (q - 2) \in Int /\ Frame * (q - 2) <= sensor - Frame
    BY <2>1, <2>3, <2>4
  <2>7. wake <= ByteTime * (sensor - Frame) /\ ByteTime * (sensor - Frame) \in Int
    BY <1>1, <2>2, <2>5, <2>6, Times
  <2> QED  BY <1>1, <2>5, <2>7 DEF SensorInv, Clocks
<1>5. BridgeInv
  <2>1. Due = Burst /\ AtRest  BY <1>1, <1>3 DEF Due, AtRest
  <2>2. BridgeTypes
    <3>1. pushing \in 0 .. Payload /\ bridge \in Nat /\ sent \in 0 .. Burst - 1
          /\ pushing = 0
      BY <1>1
    <3>2. txFromBridge \in BOOLEAN /\ lost \in BOOLEAN  BY <1>1
    <3> QED  BY <1>3, <3>1, <3>2 DEF BridgeTypes
  <2> QED
    BY <1>1, <1>3, <2>1, <2>2 DEF BridgeInv, Account, OneOwner, KeepsUp, Drains
<1>6. TraceInv
  <2>1. trace \in [active : BOOLEAN, len : 0 .. TraceSamples, top : 0 .. BridgeRing]
        /\ ~trace.active
    BY <1>1
  <2>2. done \in [ready : BOOLEAN, top : 0 .. BridgeRing] /\ ~done.ready
    BY <1>1
  <2>3. ~tp.active /\ age <= Slots - 1 + tp.since
    <3>1. 0 <= Slots - 1 + (Period - Slots)  OBVIOUS
    <3> QED  BY <1>1, <1>3, <3>1
  <2>4. ticks \in 0 .. TraceEvery - 1 /\ top \in 0 .. BridgeRing /\ bridge <= top
        /\ bursts \in 0 .. MaxBursts /\ age \in Nat
    BY <1>1
  <2> QED  BY <2>1, <2>2, <2>3, <2>4 DEF TraceInv
<1>7. PeakHigh /\ PeakLow
  <2>1. 0 <= Peak /\ bridge + pushing = 0 /\ ~(bursts > 0) /\ ~(pushing > 0)
    BY <1>1, DrainIs
  <2> QED  BY <1>1, <1>3, <2>1 DEF PeakHigh, PeakLow, Between, Landed
<1>8. ShowInv
  <2>1. Landed /\ ~(pushing > 0) /\ ~trace.active /\ ~done.ready
    BY <1>1, <1>3 DEF Landed
  <2> QED  BY <2>1 DEF ShowInv
<1> QED  BY <1>4, <1>5, <1>6, <1>7, <1>8 DEF LineInv

LEMMA LineKept == LineInv /\ [BridgeNext]_allVars => LineInv'
<1> SUFFICES ASSUME LineInv, [BridgeNext]_allVars PROVE LineInv'  OBVIOUS
<1>1. SensorInv /\ BridgeInv /\ TraceInv /\ PeakHigh /\ PeakLow  BY DEF LineInv
<1>2. ~lost /\ lost \in BOOLEAN  BY <1>1 DEF BridgeInv, BridgeTypes
<1>3. [Next]_vars
  <2>1. CASE BridgeNext  BY <1>2, <2>1, StepsOfLine
  <2>2. CASE UNCHANGED allVars  BY <2>2 DEF allVars
  <2> QED  BY <2>1, <2>2
<1> QED
  BY <1>1, <1>3, SensorNext, RingNext, TraceNext, PeakNext DEF LineInv

\* What holds of the transmit side holds of it in the bridge: neither stream is
\* cut, the line is never idle, no byte is lost in the bridge ring, and a burst
\* is over when the next begins (engine_on_byte_tick, engine_on_can_slot).
THEOREM BridgeKeepsLine ==
  BridgeSpec => [](TypeOK /\ StreamsWhole /\ LineFull /\ PeakBounded /\ ReadyForNext)
<1>1. BridgeInit => LineInv  BY StartsAsLine
<1>2. LineInv => TypeOK /\ StreamsWhole /\ LineFull /\ PeakBounded /\ ReadyForNext
  BY TypesHold, StreamsHold, ReadyHolds, PeakHolds DEF LineInv, SensorInv, LineFull
<1> QED  BY <1>1, <1>2, LineKept, PTL DEF BridgeSpec

(***************************************************************************)
(* The requests.                                                           *)
(***************************************************************************)

\* A request is open until answer_request has counted it.
Open == IF pending /\ proto # "clear" THEN 1 ELSE 0

\* The task answers what is pending, and only a request that was there when it
\* woke has waited; after it ran none has.
RequestInv ==
  /\ pending \in BOOLEAN /\ failed \in BOOLEAN
  /\ proto \in {"delayed", "drain", "answer", "clear", "ran"}
  /\ proto \in {"answer", "clear"} => pending
  /\ handed \in 0 .. HandBacks
  /\ owed = Open \/ (handed > 0 /\ owed = Open - 1)
  /\ waited \in 0 .. 1
  /\ waited = 1 => pending /\ proto \in {"drain", "answer", "clear"}

LEMMA RequestInit == BridgeInit => RequestInv
<1> SUFFICES ASSUME BridgeInit PROVE RequestInv  OBVIOUS
<1>1. ~pending /\ pending \in BOOLEAN /\ failed \in BOOLEAN  BY DEF BridgeInit
<1>2. proto = "delayed" /\ owed = 0 /\ waited = 0 /\ handed = 0  BY DEF BridgeInit
<1>3. handed \in 0 .. HandBacks  BY <1>2, BridgeAssumption
<1>4. Open = 0  BY <1>1 DEF Open
<1> QED  BY <1>1, <1>2, <1>3, <1>4 DEF RequestInv

LEMMA RequestNext == RequestInv /\ [BridgeNext]_allVars => RequestInv'
<1> SUFFICES ASSUME RequestInv, [BridgeNext]_allVars PROVE RequestInv'  OBVIOUS
<1> USE BridgeAssumption
<1>1. CASE Slot /\ UNCHANGED handed
  <2>1. UNCHANGED <<proto, failed, waited, handed>>
    BY <1>1 DEF Slot, asking
  <2>2. CASE UNCHANGED asking
    BY <2>1, <2>2 DEF RequestInv, Open, asking
  <2>3. CASE MayAsk /\ pending' = TRUE /\ owed' = owed + 1
    <3>1. ~pending /\ proto \notin {"answer", "clear"} /\ waited = 0
      BY <2>3 DEF MayAsk, RequestInv
    <3>2. Open = 0 /\ Open' = 1  BY <2>1, <2>3, <3>1 DEF Open
    <3>3. owed' = Open' \/ (handed' > 0 /\ owed' = Open' - 1)
      <4>1. CASE owed = 0  BY <2>3, <3>2, <4>1
      <4>2. CASE handed > 0 /\ owed = 0 - 1  BY <2>1, <2>3, <3>2, <4>2
      <4> QED  BY <3>2, <4>1, <4>2 DEF RequestInv
    <3> QED  BY <2>1, <2>3, <3>1, <3>3 DEF RequestInv
  <2> QED  BY <1>1, <2>2, <2>3 DEF Slot
<1>2. CASE (Push \/ Tick \/ RxIsr \/ ProtoByte \/ SensorFills \/ Time) /\ UNCHANGED handed
  <2>1. UNCHANGED <<proto, asking, handed>>
    BY <1>2 DEF Push, Tick, RxIsr, ProtoByte, SensorFills, Time
  <2> QED  BY <2>1 DEF RequestInv, Open, asking
<1>3. CASE ProtoWakes /\ UNCHANGED handed
  <2>1. /\ proto = "delayed" /\ proto' = "drain"
        /\ UNCHANGED <<pending, owed, failed, handed>>
        /\ waited' = IF pending THEN waited + 1 ELSE 0
    BY <1>3 DEF ProtoWakes
  <2>2. waited = 0  BY <2>1 DEF RequestInv
  <2>3. Open' = Open  BY <2>1 DEF Open
  <2>4. waited' \in 0 .. 1 /\ (waited' = 1 => pending)  BY <2>1, <2>2
  <2> QED  BY <2>1, <2>3, <2>4 DEF RequestInv
<1>4. CASE ProtoDrained /\ UNCHANGED handed
  <2>1. /\ proto = "drain" /\ proto' = IF pending THEN "answer" ELSE "ran"
        /\ UNCHANGED <<pending, owed, failed, waited, handed>>
    BY <1>4 DEF ProtoDrained, asking
  <2>2. Open' = Open  BY <2>1 DEF Open
  <2> QED  BY <2>1, <2>2 DEF RequestInv
<1>5. CASE ProtoAnswers /\ UNCHANGED handed
  <2>1. /\ proto = "answer" /\ owed' = owed - 1 /\ failed' = (failed \/ ~Answerable)
        /\ proto' = "clear" /\ UNCHANGED <<pending, waited, handed>>
    BY <1>5 DEF ProtoAnswers
  <2>2. pending  BY <2>1 DEF RequestInv
  <2>3. Open = 1 /\ Open' = 0  BY <2>1, <2>2 DEF Open
  <2>4. owed' = Open' \/ (handed' > 0 /\ owed' = Open' - 1)
    <3>1. CASE owed = 1  BY <2>1, <2>3, <3>1
    <3>2. CASE handed > 0 /\ owed = 1 - 1  BY <2>1, <2>3, <3>2
    <3> QED  BY <2>3, <3>1, <3>2 DEF RequestInv
  <2>5. failed' \in BOOLEAN  BY <2>1
  <2> QED  BY <2>1, <2>2, <2>4, <2>5 DEF RequestInv
<1>6. CASE ProtoClears /\ UNCHANGED handed
  <2>1. /\ proto = "clear" /\ pending' = FALSE /\ waited' = 0 /\ proto' = "ran"
        /\ UNCHANGED <<owed, failed, handed>>
    BY <1>6 DEF ProtoClears
  <2>2. Open' = Open  BY <2>1 DEF Open
  <2>3. owed' = Open' \/ (handed' > 0 /\ owed' = Open' - 1)
    BY <2>1, <2>2 DEF RequestInv
  <2>4. handed' \in 0 .. HandBacks /\ failed' \in BOOLEAN  BY <2>1 DEF RequestInv
  <2>5. ~pending' /\ pending' \in BOOLEAN  BY <2>1
  <2>6. waited' = 0 /\ proto' = "ran"  BY <2>1
  <2> QED  BY <2>3, <2>4, <2>5, <2>6 DEF RequestInv
<1>7. CASE SensorWakes /\ UNCHANGED handed
  <2>1. proto = "ran" /\ proto' = "delayed" /\ UNCHANGED <<asking, handed>>
    BY <1>7 DEF SensorWakes
  <2>2. Open' = Open  BY <2>1 DEF Open, asking
  <2> QED  BY <2>1, <2>2 DEF RequestInv, asking
<1>8. CASE SweepHandsBack
  <2>1. /\ handed < HandBacks /\ handed' = handed + 1 /\ owed' = 0 /\ failed' = FALSE
        /\ proto = "delayed" /\ UNCHANGED <<proto, pending, waited>>
    BY <1>8 DEF SweepHandsBack
  <2>2. handed \in 0 .. HandBacks /\ pending \in BOOLEAN  BY DEF RequestInv
  <2>3. handed' \in 0 .. HandBacks /\ handed' > 0  BY <2>1, <2>2
  <2>4. owed' = Open' \/ owed' = Open' - 1
    <3>1. Open' = 0 \/ Open' = 1  BY DEF Open
    <3> QED  BY <2>1, <3>1
  <2> QED  BY <2>1, <2>3, <2>4 DEF RequestInv
<1>9. CASE UNCHANGED allVars
  BY <1>9 DEF allVars, asking, RequestInv, Open
<1> QED
  BY <1>1, <1>2, <1>3, <1>4, <1>5, <1>6, <1>7, <1>8, <1>9 DEF BridgeNext, Machine, Steps

\* A request is counted once, as answered or failed, and never two at a time;
\* after the sweep zeroed the counters the answers run ahead by at most one
\* (engine_on_can_slot, answer_request, engine_reset_counters).
THEOREM LedgerIsBalanced == BridgeSpec => []LedgerBalanced
<1>1. RequestInv => LedgerBalanced
  <2> SUFFICES ASSUME RequestInv PROVE LedgerBalanced  OBVIOUS
  <2>1. handed \in Nat /\ (owed = Open \/ (handed > 0 /\ owed = Open - 1))
    BY BridgeAssumption DEF RequestInv
  <2> QED  BY <2>1 DEF LedgerBalanced, Open
<1> QED  BY RequestInit, RequestNext, <1>1, PTL DEF BridgeSpec

\* A request is dealt with by the next wake-up of the protocol task after it
\* came, or by the one that was on (protocol_task).
THEOREM AnswerIsPrompt == BridgeSpec => []AnsweredByNextWake
<1>1. RequestInv => AnsweredByNextWake  BY DEF RequestInv, AnsweredByNextWake
<1> QED  BY RequestInit, RequestNext, <1>1, PTL DEF BridgeSpec


(***************************************************************************)
(* The checksum.  A recursive definition chooses a function: that there is *)
(* one comes first, then what it computes, by induction.                   *)
(***************************************************************************)

LEMMA PowerIs ==
  /\ Power \in [0 .. 2 * Bits -> Nat \ {0}]
  /\ Power[0] = 1
  /\ \A n \in 1 .. 2 * Bits : Power[n] = 2 * Power[n - 1]
<1> DEFINE X == Nat \ {0}
           N == 2 * Bits
           step == [n \in 1 .. N |-> [x \in X |-> 2 * x]]
<1>1. N \in Nat /\ 1 \in X /\ step \in [1 .. N -> [X -> X]]  BY ReceiverAssumption
<1>2. PICK f \in [0 .. N -> X] : f[0] = 1 /\ \A i \in 1 .. N : f[i] = step[i][f[i - 1]]
  <2> HIDE DEF N, X, step
  <2>1. Recursive(N, X, 1, step)  BY <1>1, Recursion
  <2> QED  BY <2>1 DEF Recursive
<1>3. \A i \in 1 .. N : i - 1 \in 0 .. N /\ f[i] = 2 * f[i - 1]
  <2>1. \A i \in 1 .. N : i - 1 \in 0 .. N /\ f[i - 1] \in X  BY <1>1, <1>2
  <2> QED  BY <1>2, <2>1
<1>4. \A n \in 0 .. N : f[n] = IF n = 0 THEN 1 ELSE 2 * f[n - 1]  BY <1>1, <1>2, <1>3
<1>5. f = [n \in 0 .. N |-> IF n = 0 THEN 1 ELSE 2 * f[n - 1]]  BY <1>2, <1>4
<1>6. Power = [n \in 0 .. N |-> IF n = 0 THEN 1 ELSE 2 * Power[n - 1]]
  BY <1>5, Zenon DEF Power
<1> HIDE DEF N, X, step
<1>7. DOMAIN Power = 0 .. N /\ \A n \in 0 .. N : Power[n] = IF n = 0 THEN 1 ELSE 2 * Power[n - 1]
  BY <1>6
<1>8. Power = f
  <2>1. 0 \in 0 .. N /\ \A n \in 1 .. N : n \in 0 .. N /\ n # 0  BY <1>1
  <2>2. Power[0] = f[0]  BY <1>4, <1>7, <2>1
  <2>3. \A n \in 1 .. N : Power[n - 1] = f[n - 1] => Power[n] = f[n]
    BY <1>4, <1>7, <2>1
  <2>4. GoAlike(N, Power, f)  BY <2>2, <2>3 DEF GoAlike
  <2>5. \A n \in 0 .. N : Power[n] = f[n]  BY <1>1, <2>4, SameFrom
  <2> QED  BY <1>2, <1>6, <2>5
<1> QED  BY <1>2, <1>3, <1>8 DEF N, X

\* Powers multiply.
LEMMA PowerAdds ==
  ASSUME NEW m \in Nat, NEW n \in Nat, m + n <= 2 * Bits
  PROVE  Power[m + n] = Power[m] * Power[n]
<1> DEFINE S == {i \in 0 .. n : Power[m + i] = Power[m] * Power[i]}
<1>1. m \in 0 .. 2 * Bits /\ n \in 0 .. 2 * Bits /\ 2 * Bits \in Nat  BY ReceiverAssumption
<1>2. Power[m] \in Nat /\ Power[0] = 1 /\ 0 \in 0 .. n /\ m + 0 = m
  <2>1. Power[m] \in Nat \ {0} /\ Power[0] = 1  BY <1>1, PowerIs
  <2>2. 0 \in 0 .. n /\ m + 0 = m  OBVIOUS
  <2> QED  BY <2>1, <2>2
<1>3. 0 \in S  BY <1>2
<1>4. ASSUME NEW i \in 1 .. n, i - 1 \in S PROVE i \in S
  <2>1. m + i \in 1 .. 2 * Bits /\ i \in 1 .. 2 * Bits /\ i \in 0 .. n
        /\ i - 1 \in 0 .. 2 * Bits /\ m + i - 1 = m + (i - 1)
    BY <1>1
  <2>2. Power[m + i] = 2 * Power[m + i - 1] /\ Power[i] = 2 * Power[i - 1]
        /\ Power[i - 1] \in Nat
    BY <2>1, PowerIs
  <2>3. Power[m + (i - 1)] = Power[m] * Power[i - 1]  BY <1>4
  <2>4. \A x, y \in Nat : 2 * (x * y) = x * (2 * y)  OBVIOUS
  <2> QED  BY <1>2, <2>1, <2>2, <2>3, <2>4
<1> HIDE DEF S
<1>5. 0 .. n \subseteq S  BY <1>3, <1>4, Along
<1> QED  BY <1>5 DEF S

LEMMA Sizes ==
  /\ Half \in Nat \ {0} /\ Bytes \in Nat \ {0} /\ Words \in Nat \ {0}
  /\ Bytes = 2 * Half /\ Words = Bytes * Bytes
  /\ Bytes = Power[Bits] /\ Words = Power[2 * Bits]
  /\ Words \div 2 = Bytes * Half /\ Words = 2 * (Bytes * Half)
<1>1. Bits \in Nat \ {0} /\ Bits - 1 \in 0 .. 2 * Bits /\ Bits \in 1 .. 2 * Bits
      /\ Bits + Bits = 2 * Bits
  BY ReceiverAssumption
<1>2. Half \in Nat \ {0} /\ Power[Bits] = 2 * Half  BY <1>1, PowerIs DEF Half
<1>3. Bytes = Power[Bits] /\ Bytes \in Nat \ {0}  BY <1>2 DEF Bytes
<1>4. Power[2 * Bits] = Power[Bits] * Power[Bits]  BY <1>1, PowerAdds
<1>5. \A h \in Nat \ {0} : /\ (2 * h) * (2 * h) = 2 * ((2 * h) * h)
                           /\ (2 * h) * h \in Nat \ {0}
  OBVIOUS
<1>6. \A x \in Nat \ {0} : (2 * x) \div 2 = x /\ 2 * x \in Nat \ {0}  OBVIOUS
<1>7. Words = 2 * (Bytes * Half) /\ Bytes * Half \in Nat \ {0}
  BY <1>2, <1>5 DEF Words, Bytes
<1>8. Words = Bytes * Bytes  BY DEF Words
<1>9. Words = Power[2 * Bits]  BY <1>3, <1>4, <1>8
<1>10. Words \div 2 = Bytes * Half /\ Words \in Nat \ {0}  BY <1>6, <1>7
<1> QED  BY <1>2, <1>3, <1>7, <1>8, <1>9, <1>10 DEF Bytes

\* What the recursion of Xors says.
LEMMA XorsIs ==
  /\ \A n \in 0 .. 2 * Bits : Xors[n] \in [WordPairs -> Nat]
  /\ \A a, b \in WordRange : Xors[0][<<a, b>>] = 0
  /\ \A n \in 1 .. 2 * Bits : \A a, b \in WordRange :
       Xors[n][<<a, b>>] = 2 * Xors[n - 1][<<a \div 2, b \div 2>>] + ((a + b) % 2)
<1> DEFINE X == [WordPairs -> Nat]
           N == 2 * Bits
           base == [p \in WordPairs |-> 0]
           step == [n \in 1 .. N |-> [g \in X |-> BitMore(g)]]
<1>1. \A a \in WordRange : a \div 2 \in WordRange /\ a \in Nat  BY Sizes DEF WordRange
<1>2. ASSUME NEW g \in X PROVE BitMore(g) \in X
  <2>1. ASSUME NEW p \in WordPairs
        PROVE  2 * g[<<p[1] \div 2, p[2] \div 2>>] + ((p[1] + p[2]) % 2) \in Nat
    <3>1. p[1] \in WordRange /\ p[2] \in WordRange  BY DEF WordPairs
    <3>2. <<p[1] \div 2, p[2] \div 2>> \in WordPairs  BY <1>1, <3>1 DEF WordPairs
    <3>3. g[<<p[1] \div 2, p[2] \div 2>>] \in Nat  BY <3>2
    <3>4. p[1] \in Nat /\ p[2] \in Nat  BY <1>1, <3>1
    <3>5. (p[1] + p[2]) % 2 \in Nat  BY <3>4
    <3> HIDE DEF X
    <3> QED  BY <3>3, <3>5
  <2> QED  BY <2>1 DEF BitMore
<1>3. N \in Nat /\ base \in X  BY ReceiverAssumption
<1>4. step \in [1 .. N -> [X -> X]]
  <2> HIDE DEF X
  <2> QED  BY <1>2
<1>5. PICK f \in [0 .. N -> X] : f[0] = base /\ \A i \in 1 .. N : f[i] = step[i][f[i - 1]]
  <2> HIDE DEF N, X, step, base
  <2>1. Recursive(N, X, base, step)  BY <1>3, <1>4, Recursion
  <2> QED  BY <2>1 DEF Recursive
<1> HIDE DEF X, base
<1>6. \A i \in 1 .. N : i - 1 \in 0 .. N /\ f[i] = BitMore(f[i - 1])
  <2>1. \A i \in 1 .. N : i - 1 \in 0 .. N /\ f[i - 1] \in X  BY <1>3, <1>5
  <2> QED  BY <1>5, <2>1
<1> HIDE DEF step
<1>7. \A n \in 0 .. N : f[n] = IF n = 0 THEN base ELSE BitMore(f[n - 1])
  BY <1>3, <1>5, <1>6
<1>8. f = [n \in 0 .. N |-> IF n = 0 THEN base ELSE BitMore(f[n - 1])]
  BY <1>5, <1>7
<1>9. Xors = [n \in 0 .. N |-> IF n = 0 THEN base ELSE BitMore(Xors[n - 1])]
  BY <1>8, Zenon DEF Xors, base
<1> HIDE DEF N
<1>10. Xors = f
  <2>1. 0 \in 0 .. N /\ \A n \in 1 .. N : n \in 0 .. N /\ n # 0  BY <1>3
  <2>2. DOMAIN Xors = 0 .. N
        /\ \A n \in 0 .. N : Xors[n] = IF n = 0 THEN base ELSE BitMore(Xors[n - 1])
    BY <1>9
  <2>3. Xors[0] = f[0]  BY <1>5, <2>1, <2>2
  <2>4. \A n \in 1 .. N : Xors[n - 1] = f[n - 1] => Xors[n] = f[n]
    BY <1>7, <2>1, <2>2
  <2>5. GoAlike(N, Xors, f)  BY <2>3, <2>4 DEF GoAlike
  <2>6. \A n \in 0 .. N : Xors[n] = f[n]  BY <1>3, <2>5, SameFrom
  <2> QED  BY <1>5, <1>9, <2>6
<1>11. \A n \in 0 .. N : Xors[n] \in X  BY <1>5, <1>10
<1>12. \A a, b \in WordRange : Xors[0][<<a, b>>] = 0
  BY <1>5, <1>10 DEF base, WordPairs
<1>13. ASSUME NEW n \in 1 .. N, NEW a \in WordRange, NEW b \in WordRange
       PROVE  Xors[n][<<a, b>>] = 2 * Xors[n - 1][<<a \div 2, b \div 2>>] + ((a + b) % 2)
  <2>1. Xors[n] = BitMore(Xors[n - 1])  BY <1>6, <1>10
  <2>2. <<a, b>> \in WordPairs /\ <<a, b>>[1] = a /\ <<a, b>>[2] = b  BY DEF WordPairs
  <2> QED  BY <2>1, <2>2 DEF BitMore
<1> QED  BY <1>11, <1>12, <1>13 DEF X, N

\* The exclusive or of the low n bits.
LowXor(n, a, b) == Xors[n][<<a, b>>]

LEMMA LowXorIs ==
  /\ \A n \in 0 .. 2 * Bits : \A a, b \in WordRange : LowXor(n, a, b) \in Nat
  /\ \A a, b \in WordRange : LowXor(0, a, b) = 0
  /\ \A n \in 1 .. 2 * Bits : \A a, b \in WordRange :
       /\ a \div 2 \in WordRange /\ b \div 2 \in WordRange
       /\ LowXor(n, a, b) = 2 * LowXor(n - 1, a \div 2, b \div 2) + ((a + b) % 2)
  /\ \A a, b \in WordRange : Xor(a, b) = LowXor(2 * Bits, a, b)
<1>1. \A a, b \in WordRange : <<a, b>> \in WordPairs  BY DEF WordPairs
<1>2. \A n \in 0 .. 2 * Bits : \A a, b \in WordRange : Xors[n][<<a, b>>] \in Nat
  <2> SUFFICES ASSUME NEW n \in 0 .. 2 * Bits, NEW a \in WordRange, NEW b \in WordRange
               PROVE  Xors[n][<<a, b>>] \in Nat
    BY Zenon
  <2>1. Xors[n] \in [WordPairs -> Nat]  BY XorsIs
  <2>2. <<a, b>> \in WordPairs  BY <1>1
  <2> QED  BY <2>1, <2>2
<1>3. \A a \in WordRange : a \div 2 \in WordRange  BY Sizes DEF WordRange
<1>4. \A a, b \in WordRange : XorTable[a][b] = Xors[2 * Bits][<<a, b>>]
  BY Zenon DEF XorTable
<1> QED  BY <1>2, <1>3, <1>4, XorsIs DEF LowXor, Xor

\* One bit of it.
LEMMA LowXorBit ==
  ASSUME NEW n \in 1 .. 2 * Bits, NEW a \in WordRange, NEW b \in WordRange
  PROVE  /\ n - 1 \in 0 .. 2 * Bits
         /\ a \in Nat /\ b \in Nat
         /\ a \div 2 \in WordRange /\ b \div 2 \in WordRange
         /\ LowXor(n - 1, a \div 2, b \div 2) \in Nat
         /\ LowXor(n, a, b) = 2 * LowXor(n - 1, a \div 2, b \div 2) + ((a + b) % 2)
         /\ Power[n] = 2 * Power[n - 1] /\ Power[n - 1] \in Nat \ {0}
<1>1. n - 1 \in 0 .. 2 * Bits /\ a \in Nat /\ b \in Nat
  BY ReceiverAssumption, Sizes DEF WordRange
<1>2. a \div 2 \in WordRange /\ b \div 2 \in WordRange  BY LowXorIs
<1>3. LowXor(n, a, b) = 2 * LowXor(n - 1, a \div 2, b \div 2) + ((a + b) % 2)  BY LowXorIs
<1>4. LowXor(n - 1, a \div 2, b \div 2) \in Nat  BY <1>1, <1>2, LowXorIs
<1>5. Power[n] = 2 * Power[n - 1] /\ Power[n - 1] \in Nat \ {0}  BY <1>1, PowerIs
<1> QED  BY <1>1, <1>2, <1>3, <1>4, <1>5

LEMMA PowerGrows ==
  ASSUME NEW n \in 0 .. 2 * Bits
  PROVE  Power[n] \in 1 .. Words
<1>1. n \in Nat /\ 2 * Bits - n \in Nat /\ n + (2 * Bits - n) = 2 * Bits
      /\ 2 * Bits - n \in 0 .. 2 * Bits
  BY ReceiverAssumption
<1>2. Words = Power[n] * Power[2 * Bits - n]
  <2> DEFINE m == 2 * Bits - n
  <2>1. m \in Nat /\ n + m <= 2 * Bits /\ n + m = 2 * Bits  BY <1>1
  <2> HIDE DEF m
  <2>2. Power[n + m] = Power[n] * Power[m]  BY <1>1, <2>1, PowerAdds
  <2> QED  BY <2>1, <2>2, Sizes DEF m
<1>3. Power[n] \in Nat \ {0} /\ Power[2 * Bits - n] \in Nat \ {0}  BY <1>1, PowerIs
<1>4. \A x, y \in Nat \ {0} : x \in 1 .. x * y  OBVIOUS
<1> QED  BY <1>2, <1>3, <1>4

LEMMA LowXorBound ==
  \A n \in 0 .. 2 * Bits : \A a, b \in WordRange :
    LowXor(n, a, b) \in 0 .. Power[n] - 1 /\ LowXor(n, a, b) \in WordRange
<1> DEFINE S == {n \in 0 .. 2 * Bits : \A a, b \in WordRange : LowXor(n, a, b) \in 0 .. Power[n] - 1}
<1>1. 2 * Bits \in Nat  BY ReceiverAssumption
<1>2. 0 \in S
  <2>1. 0 \in 0 .. 2 * Bits /\ 0 \in 0 .. 1 - 1  BY <1>1
  <2> QED  BY <2>1, LowXorIs, PowerIs
<1>3. ASSUME NEW n \in 1 .. 2 * Bits, n - 1 \in S PROVE n \in S
  <2>1. n \in 0 .. 2 * Bits  BY <1>1
  <2>2. ASSUME NEW a \in WordRange, NEW b \in WordRange PROVE LowXor(n, a, b) \in 0 .. Power[n] - 1
    <3> DEFINE x == LowXor(n - 1, a \div 2, b \div 2)
    <3>1. LowXor(n, a, b) = 2 * x + ((a + b) % 2) /\ Power[n] = 2 * Power[n - 1]
          /\ Power[n - 1] \in Nat /\ a \in Nat /\ b \in Nat
      BY LowXorBit
    <3>2. a \div 2 \in WordRange /\ b \div 2 \in WordRange  BY LowXorBit
    <3>3. x \in 0 .. Power[n - 1] - 1  BY <1>3, <3>2
    <3>4. (a + b) % 2 \in 0 .. 1  BY <3>1
    <3> HIDE DEF x
    <3>5. \A p \in Nat, r \in 0 .. 1 : x \in 0 .. p - 1 => 2 * x + r \in 0 .. 2 * p - 1
      OBVIOUS
    <3> QED  BY <3>1, <3>3, <3>4, <3>5
  <2> QED  BY <2>1, <2>2
<1> HIDE DEF S
<1>4. 0 .. 2 * Bits \subseteq S  BY <1>1, <1>2, <1>3, Along
<1>5. \A n \in 0 .. 2 * Bits : 0 .. Power[n] - 1 \subseteq WordRange
  BY PowerGrows, Sizes DEF WordRange
<1> QED  BY <1>4, <1>5 DEF S

LEMMA LowXorCommutes ==
  \A n \in 0 .. 2 * Bits : \A a, b \in WordRange : LowXor(n, a, b) = LowXor(n, b, a)
<1> DEFINE S == {n \in 0 .. 2 * Bits : \A a, b \in WordRange : LowXor(n, a, b) = LowXor(n, b, a)}
<1>1. 2 * Bits \in Nat  BY ReceiverAssumption
<1>2. 0 \in S
  <2>1. 0 \in 0 .. 2 * Bits  BY <1>1
  <2> QED  BY <2>1, LowXorIs
<1>3. ASSUME NEW n \in 1 .. 2 * Bits, n - 1 \in S PROVE n \in S
  <2>1. n \in 0 .. 2 * Bits  BY <1>1
  <2>2. ASSUME NEW a \in WordRange, NEW b \in WordRange PROVE LowXor(n, a, b) = LowXor(n, b, a)
    <3>1. /\ LowXor(n, a, b) = 2 * LowXor(n - 1, a \div 2, b \div 2) + ((a + b) % 2)
          /\ LowXor(n, b, a) = 2 * LowXor(n - 1, b \div 2, a \div 2) + ((b + a) % 2)
          /\ a \in Nat /\ b \in Nat /\ a \div 2 \in WordRange /\ b \div 2 \in WordRange
      BY LowXorBit
    <3>2. LowXor(n - 1, a \div 2, b \div 2) = LowXor(n - 1, b \div 2, a \div 2)  BY <1>3, <3>1
    <3>3. a + b = b + a  BY <3>1
    <3> QED  BY <3>1, <3>2, <3>3, Zenon
  <2> QED  BY <2>1, <2>2
<1> HIDE DEF S
<1>4. 0 .. 2 * Bits \subseteq S  BY <1>1, <1>2, <1>3, Along
<1> QED  BY <1>4 DEF S

LEMMA LowXorSelf ==
  \A n \in 0 .. 2 * Bits : \A a \in WordRange : LowXor(n, a, a) = 0
<1> DEFINE S == {n \in 0 .. 2 * Bits : \A a \in WordRange : LowXor(n, a, a) = 0}
<1>1. 2 * Bits \in Nat  BY ReceiverAssumption
<1>2. 0 \in S
  <2>1. 0 \in 0 .. 2 * Bits  BY <1>1
  <2> QED  BY <2>1, LowXorIs
<1>3. ASSUME NEW n \in 1 .. 2 * Bits, n - 1 \in S PROVE n \in S
  <2>1. n \in 0 .. 2 * Bits  BY <1>1
  <2>2. ASSUME NEW a \in WordRange PROVE LowXor(n, a, a) = 0
    <3>1. LowXor(n, a, a) = 2 * LowXor(n - 1, a \div 2, a \div 2) + ((a + a) % 2)
          /\ a \in Nat /\ a \div 2 \in WordRange
      BY LowXorBit
    <3>2. LowXor(n - 1, a \div 2, a \div 2) = 0  BY <1>3, <3>1
    <3>3. (a + a) % 2 = 0  BY <3>1
    <3> QED  BY <3>1, <3>2, <3>3
  <2> QED  BY <2>1, <2>2
<1> HIDE DEF S
<1>4. 0 .. 2 * Bits \subseteq S  BY <1>1, <1>2, <1>3, Along
<1> QED  BY <1>4 DEF S

LEMMA LowXorZero ==
  \A n \in 0 .. 2 * Bits : \A a \in WordRange : a < Power[n] => LowXor(n, a, 0) = a
<1> DEFINE S == {n \in 0 .. 2 * Bits : \A a \in WordRange : a < Power[n] => LowXor(n, a, 0) = a}
<1>1. 2 * Bits \in Nat /\ 0 \in WordRange /\ WordRange \subseteq Nat
  BY ReceiverAssumption, Sizes DEF WordRange
<1>2. 0 \in S
  <2>1. 0 \in 0 .. 2 * Bits  BY <1>1
  <2>2. ASSUME NEW a \in WordRange, a < Power[0] PROVE a = 0  BY <1>1, <2>2, PowerIs
  <2> QED  BY <1>1, <2>1, <2>2, LowXorIs
<1>3. ASSUME NEW n \in 1 .. 2 * Bits, n - 1 \in S PROVE n \in S
  <2>1. n \in 0 .. 2 * Bits  BY <1>1
  <2>2. ASSUME NEW a \in WordRange, a < Power[n] PROVE LowXor(n, a, 0) = a
    <3>1. LowXor(n, a, 0) = 2 * LowXor(n - 1, a \div 2, 0 \div 2) + ((a + 0) % 2)
          /\ a \in Nat /\ a \div 2 \in WordRange
          /\ Power[n] = 2 * Power[n - 1] /\ Power[n - 1] \in Nat
      BY <1>1, LowXorBit
    <3>2. a \div 2 < Power[n - 1]  BY <2>2, <3>1
    <3>3. 0 \div 2 = 0 /\ a + 0 = a  BY <3>1
    <3>4. LowXor(n - 1, a \div 2, 0) = a \div 2  BY <1>3, <3>1, <3>2
    <3>5. LowXor(n, a, 0) = 2 * (a \div 2) + (a % 2)  BY <3>1, <3>3, <3>4, Zenon
    <3> QED  BY <3>1, <3>5
  <2> QED  BY <2>1, <2>2
<1> HIDE DEF S
<1>4. 0 .. 2 * Bits \subseteq S  BY <1>1, <1>2, <1>3, Along
<1> QED  BY <1>4 DEF S

LEMMA LowXorAssociates ==
  \A n \in 0 .. 2 * Bits : \A a, b, c \in WordRange :
    LowXor(n, LowXor(n, a, b), c) = LowXor(n, a, LowXor(n, b, c))
<1> DEFINE S == {n \in 0 .. 2 * Bits : \A a, b, c \in WordRange :
                   LowXor(n, LowXor(n, a, b), c) = LowXor(n, a, LowXor(n, b, c))}
<1>1. 2 * Bits \in Nat  BY ReceiverAssumption
<1>2. 0 \in S
  <2>1. 0 \in 0 .. 2 * Bits  BY <1>1
  <2>2. \A a, b \in WordRange : LowXor(0, a, b) \in WordRange  BY <2>1, LowXorBound
  <2> QED  BY <2>1, <2>2, LowXorIs
<1>3. ASSUME NEW n \in 1 .. 2 * Bits, n - 1 \in S PROVE n \in S
  <2>1. n \in 0 .. 2 * Bits  BY <1>1
  <2>2. ASSUME NEW a \in WordRange, NEW b \in WordRange
        PROVE  /\ LowXor(n, a, b) \div 2 = LowXor(n - 1, a \div 2, b \div 2)
               /\ LowXor(n, a, b) % 2 = (a + b) % 2
               /\ LowXor(n, a, b) \in Nat
    <3>1. LowXor(n, a, b) = 2 * LowXor(n - 1, a \div 2, b \div 2) + ((a + b) % 2)
          /\ LowXor(n - 1, a \div 2, b \div 2) \in Nat /\ a \in Nat /\ b \in Nat
      BY LowXorBit
    <3>2. (a + b) % 2 \in 0 .. 1  BY <3>1
    <3>3. \A x \in Nat, r \in 0 .. 1 : (2 * x + r) \div 2 = x /\ (2 * x + r) % 2 = r
                                      /\ 2 * x + r \in Nat
      OBVIOUS
    <3> QED  BY <3>1, <3>2, <3>3
  <2>3. ASSUME NEW a \in WordRange, NEW b \in WordRange, NEW c \in WordRange
        PROVE  LowXor(n, LowXor(n, a, b), c) = LowXor(n, a, LowXor(n, b, c))
    <3> DEFINE d == LowXor(n, a, b)
               e == LowXor(n, b, c)
    <3>1. d \in WordRange /\ e \in WordRange  BY <2>1, LowXorBound
    <3>2. /\ d \div 2 = LowXor(n - 1, a \div 2, b \div 2) /\ d % 2 = (a + b) % 2 /\ d \in Nat
          /\ e \div 2 = LowXor(n - 1, b \div 2, c \div 2) /\ e % 2 = (b + c) % 2 /\ e \in Nat
      BY <2>2
    <3> HIDE DEF d, e
    <3>3. /\ LowXor(n, d, c) = 2 * LowXor(n - 1, d \div 2, c \div 2) + ((d + c) % 2)
          /\ LowXor(n, a, e) = 2 * LowXor(n - 1, a \div 2, e \div 2) + ((a + e) % 2)
          /\ a \div 2 \in WordRange /\ b \div 2 \in WordRange /\ c \div 2 \in WordRange
          /\ a \in Nat /\ b \in Nat /\ c \in Nat
      BY <3>1, LowXorBit
    <3>4. LowXor(n - 1, d \div 2, c \div 2) = LowXor(n - 1, a \div 2, e \div 2)
      BY <1>3, <3>2, <3>3
    <3>5. (d + c) % 2 = (a + e) % 2
      <4>1. \A x, y \in Nat : (x + y) % 2 = ((x % 2) + (y % 2)) % 2  OBVIOUS
      <4>2. (d + c) % 2 = (a + b + c) % 2  BY <3>2, <3>3
      <4>3. (a + e) % 2 = (a + b + c) % 2  BY <3>2, <3>3
      <4> QED  BY <4>2, <4>3
    <3>6. LowXor(n, d, c) = LowXor(n, a, e)  BY <3>3, <3>4, <3>5, Zenon
    <3> QED  BY <3>6 DEF d, e
  <2> QED  BY <2>1, <2>3
<1> HIDE DEF S
<1>4. 0 .. 2 * Bits \subseteq S  BY <1>1, <1>2, <1>3, Along
<1> QED  BY <1>4 DEF S

\* High and low bits go their own ways.
LEMMA LowXorSplits ==
  ASSUME NEW n \in Nat, NEW m \in Nat, n + m <= 2 * Bits,
         NEW h \in 0 .. Power[n] - 1, NEW k \in 0 .. Power[n] - 1,
         NEW l \in 0 .. Power[m] - 1, NEW c \in 0 .. Power[m] - 1
  PROVE  LowXor(n + m, h * Power[m] + l, k * Power[m] + c)
           = LowXor(n, h, k) * Power[m] + LowXor(m, l, c)
<1> DEFINE Low(i) == 0 .. Power[i] - 1
           S == {i \in 0 .. m : \A x, y \in Low(i) :
                   LowXor(n + i, h * Power[i] + x, k * Power[i] + y)
                     = LowXor(n, h, k) * Power[i] + LowXor(i, x, y)}
<1>1. n \in 0 .. 2 * Bits /\ m \in 0 .. 2 * Bits /\ 2 * Bits \in Nat
  BY ReceiverAssumption
<1>2. /\ h \in Nat /\ k \in Nat /\ h \in WordRange /\ k \in WordRange
      /\ Power[n] \in Nat
  BY <1>1, PowerGrows, Sizes DEF WordRange
<1>3. ASSUME NEW i \in 0 .. m, NEW g \in 0 .. Power[n] - 1, NEW x \in Low(i)
      PROVE  /\ g * Power[i] + x \in WordRange /\ x \in WordRange /\ x \in Nat
             /\ Power[i] \in Nat \ {0}
  <2>1. i \in Nat /\ i \in 0 .. 2 * Bits /\ n + i <= 2 * Bits /\ n + i \in 0 .. 2 * Bits
    BY <1>1
  <2>2. Power[n + i] = Power[n] * Power[i]  BY <2>1, PowerAdds
  <2>3. Power[n + i] \in 1 .. Words /\ Power[n] \in Nat \ {0} /\ Power[i] \in 1 .. Words
    BY <1>1, <2>1, PowerGrows, PowerIs
  <2>4. \A P, Q \in Nat \ {0} : \A y \in 0 .. P - 1, z \in 0 .. Q - 1 :
          y * Q + z \in 0 .. (P * Q) - 1
    <3> SUFFICES ASSUME NEW P \in Nat \ {0}, NEW Q \in Nat \ {0},
                        NEW y \in 0 .. P - 1, NEW z \in 0 .. Q - 1
                 PROVE  y * Q + z \in 0 .. (P * Q) - 1
      OBVIOUS
    <3>1. y * Q \in Nat /\ P * Q \in Nat  OBVIOUS
    <3>2. (P - 1 - y) * Q \in Nat  OBVIOUS
    <3>3. P * Q = y * Q + Q + (P - 1 - y) * Q  OBVIOUS
    <3> QED  BY <3>1, <3>2, <3>3
  <2>5. Words \in Nat  BY Sizes
  <2>6. Power[i] \in Nat \ {0}  BY <2>3, <2>5
  <2>7. g * Power[i] + x \in 0 .. (Power[n] * Power[i]) - 1  BY <2>3, <2>4, <2>6
  <2>8. x \in 0 .. Words - 1  BY <2>3, <2>5
  <2>9. g * Power[i] + x \in 0 .. Words - 1  BY <2>2, <2>3, <2>5, <2>7
  <2> QED  BY <2>5, <2>6, <2>8, <2>9 DEF WordRange
<1>4. 0 \in S
  <2>1. 0 \in 0 .. m /\ 0 \in 0 .. 2 * Bits /\ Power[0] = 1  BY <1>1, PowerIs
  <2>2. ASSUME NEW x \in Low(0), NEW y \in Low(0)
        PROVE  LowXor(n + 0, h * Power[0] + x, k * Power[0] + y) = LowXor(n, h, k) * Power[0] + LowXor(0, x, y)
    <3>1. x = 0 /\ y = 0  BY <2>1
    <3>2. 0 \in WordRange  BY Sizes DEF WordRange
    <3>3. LowXor(0, 0, 0) = 0 /\ LowXor(n, h, k) \in Nat  BY <1>1, <1>2, <3>2, LowXorIs
    <3>4. n + 0 = n /\ h * 1 + 0 = h /\ k * 1 + 0 = k  BY <1>2
    <3>5. LowXor(n, h, k) * 1 + 0 = LowXor(n, h, k)  BY <3>3
    <3> QED  BY <2>1, <3>1, <3>3, <3>4, <3>5, Zenon
  <2> QED  BY <2>1, <2>2
<1>5. ASSUME NEW i \in 1 .. m, i - 1 \in S PROVE i \in S
  <2>1. /\ i \in 0 .. m /\ i - 1 \in 0 .. m /\ n + i \in 1 .. 2 * Bits
        /\ i \in 1 .. 2 * Bits /\ n + i - 1 = n + (i - 1)
    BY <1>1
  <2>2. ASSUME NEW x \in Low(i), NEW y \in Low(i)
        PROVE  LowXor(n + i, h * Power[i] + x, k * Power[i] + y)
                 = LowXor(n, h, k) * Power[i] + LowXor(i, x, y)
    <3> DEFINE a == h * Power[i] + x
               b == k * Power[i] + y
               P == Power[i - 1]
               u == x \div 2
               v == y \div 2
    <3>1. a \in WordRange /\ b \in WordRange /\ x \in WordRange /\ y \in WordRange
          /\ x \in Nat /\ y \in Nat
      BY <1>3, <2>1
    <3>2. Power[i] = 2 * P /\ P \in Nat \ {0}  BY <2>1, <3>1, LowXorBit
    <3>3. u \in Low(i - 1) /\ v \in Low(i - 1)
      <4>1. \A Q \in Nat, z \in Nat : z \in 0 .. (2 * Q) - 1 => z \div 2 \in 0 .. Q - 1
        OBVIOUS
      <4> QED  BY <3>1, <3>2, <4>1
    <3>4. a \div 2 = h * P + u /\ b \div 2 = k * P + v /\ (a + b) % 2 = (x + y) % 2
      <4> HIDE DEF P
      <4>5. P \in Nat /\ a = h * (2 * P) + x /\ b = k * (2 * P) + y  BY <3>2
      <4> HIDE DEF a, b
      <4>1. h \in Nat /\ k \in Nat /\ x \in Nat /\ y \in Nat  BY <1>2, <3>1
      <4>6. /\ (h * (2 * P) + x) \div 2 = h * P + u /\ (h * (2 * P) + x) % 2 = x % 2
            /\ h * (2 * P) + x \in Nat
        BY <4>1, <4>5, LowBit
      <4>7. /\ (k * (2 * P) + y) \div 2 = k * P + v /\ (k * (2 * P) + y) % 2 = y % 2
            /\ k * (2 * P) + y \in Nat
        BY <4>1, <4>5, LowBit
      <4>2. a \div 2 = h * P + u /\ a % 2 = x % 2 /\ a \in Nat  BY <4>5, <4>6, Zenon
      <4>3. b \div 2 = k * P + v /\ b % 2 = y % 2 /\ b \in Nat  BY <4>5, <4>7, Zenon
      <4> HIDE DEF a, b, u, v
      <4>4. (a + b) % 2 = (x + y) % 2  BY <3>1, <4>2, <4>3
      <4> QED  BY <4>2, <4>3, <4>4
    <3>5. /\ LowXor(n + i, a, b) = 2 * LowXor(n + i - 1, a \div 2, b \div 2) + ((a + b) % 2)
          /\ LowXor(i, x, y) = 2 * LowXor(i - 1, u, v) + ((x + y) % 2)
          /\ LowXor(i - 1, u, v) \in Nat
      <4> HIDE DEF a, b
      <4> DEFINE j == n + i
      <4>1. j \in 1 .. 2 * Bits  BY <2>1
      <4>2. j - 1 = n + i - 1  OBVIOUS
      <4> HIDE DEF j
      <4>3. LowXor(j, a, b) = 2 * LowXor(j - 1, a \div 2, b \div 2) + ((a + b) % 2)
        BY <3>1, <4>1, LowXorBit
      <4>4. LowXor(i, x, y) = 2 * LowXor(i - 1, u, v) + ((x + y) % 2) /\ LowXor(i - 1, u, v) \in Nat
        BY <2>1, <3>1, LowXorBit
      <4> QED  BY <4>2, <4>3, <4>4 DEF j
    <3>6. LowXor(n + (i - 1), h * P + u, k * P + v) = LowXor(n, h, k) * P + LowXor(i - 1, u, v)
      BY <1>5, <3>3
    <3>7. LowXor(n, h, k) \in Nat  BY <1>1, <1>2, LowXorIs
    <3>8. (x + y) % 2 \in Nat  BY <3>1
    <3> HIDE DEF a, b, P, u, v
    <3>9. LowXor(n + i, a, b) = 2 * (LowXor(n, h, k) * P + LowXor(i - 1, u, v)) + ((x + y) % 2)
      BY <2>1, <3>4, <3>5, <3>6, Zenon
    <3>10. \A X, Q, z, r \in Nat : 2 * (X * Q + z) + r = X * (2 * Q) + (2 * z + r)  OBVIOUS
    <3>11. LowXor(n + i, a, b) = LowXor(n, h, k) * Power[i] + LowXor(i, x, y)
      BY <3>2, <3>5, <3>7, <3>8, <3>9, <3>10
    <3> QED  BY <3>11 DEF a, b
  <2> QED  BY <2>1, <2>2
<1> HIDE DEF S
<1>6. 0 .. m \subseteq S  BY <1>4, <1>5, Along
<1>7. m \in S  BY <1>6
<1> QED  BY <1>7 DEF S

(* The exclusive or of words. *)
LEMMA XorIs ==
  /\ \A a, b \in WordRange : Xor(a, b) \in WordRange /\ Xor(a, b) = Xor(b, a)
  /\ \A a, b, c \in WordRange : Xor(Xor(a, b), c) = Xor(a, Xor(b, c))
  /\ \A a \in WordRange : Xor(a, a) = 0 /\ Xor(a, 0) = a
<1>1. 2 * Bits \in 0 .. 2 * Bits  BY ReceiverAssumption
<1>2. \A a, b \in WordRange : Xor(a, b) = LowXor(2 * Bits, a, b)  BY LowXorIs
<1>3. \A a, b \in WordRange : Xor(a, b) \in WordRange  BY <1>1, <1>2, LowXorBound
<1>4. \A a, b \in WordRange : Xor(a, b) = Xor(b, a)  BY <1>1, <1>2, LowXorCommutes
<1>5. ASSUME NEW a \in WordRange, NEW b \in WordRange, NEW c \in WordRange
      PROVE  Xor(Xor(a, b), c) = Xor(a, Xor(b, c))
  <2>1. Xor(a, b) \in WordRange /\ Xor(b, c) \in WordRange  BY <1>3
  <2>2. /\ Xor(Xor(a, b), c) = LowXor(2 * Bits, Xor(a, b), c) /\ Xor(a, b) = LowXor(2 * Bits, a, b)
        /\ Xor(a, Xor(b, c)) = LowXor(2 * Bits, a, Xor(b, c)) /\ Xor(b, c) = LowXor(2 * Bits, b, c)
    BY <1>2, <2>1
  <2>3. LowXor(2 * Bits, LowXor(2 * Bits, a, b), c) = LowXor(2 * Bits, a, LowXor(2 * Bits, b, c))
    BY <1>1, LowXorAssociates
  <2> QED  BY <2>2, <2>3, Zenon
<1>6. ASSUME NEW a \in WordRange PROVE Xor(a, a) = 0 /\ Xor(a, 0) = a
  <2>1. 0 \in WordRange /\ a < Power[2 * Bits]  BY Sizes DEF WordRange
  <2>2. LowXor(2 * Bits, a, a) = 0  BY <1>1, LowXorSelf
  <2>3. LowXor(2 * Bits, a, 0) = a  BY <1>1, <2>1, LowXorZero
  <2> QED  BY <1>2, <2>1, <2>2, <2>3
<1> QED  BY <1>3, <1>4, <1>5, <1>6

\* Two more of its laws, as they are used.
LEMMA XorLaws ==
  ASSUME NEW a \in WordRange, NEW b \in WordRange, NEW c \in WordRange
  PROVE  /\ Xor(Xor(a, b), c) = Xor(Xor(a, c), b)
         /\ Xor(Xor(a, b), c) = Xor(a, Xor(b, c))
         /\ Xor(Xor(a, c), Xor(b, c)) = Xor(a, b)
<1>1. /\ Xor(a, b) \in WordRange /\ Xor(a, c) \in WordRange /\ Xor(b, c) \in WordRange
      /\ Xor(c, b) = Xor(b, c) /\ Xor(c, c) = 0 /\ Xor(b, 0) = b
  BY XorIs
<1>2. Xor(Xor(a, b), c) = Xor(a, Xor(b, c)) /\ Xor(Xor(a, c), b) = Xor(a, Xor(c, b))
  BY XorIs
<1>3. Xor(Xor(a, c), Xor(b, c)) = Xor(a, Xor(c, Xor(b, c)))  BY <1>1, XorIs
<1>4. Xor(c, Xor(b, c)) = Xor(Xor(b, c), c)  BY <1>1, XorIs
<1>5. Xor(Xor(b, c), c) = Xor(b, Xor(c, c))  BY XorIs
<1> QED  BY <1>1, <1>2, <1>3, <1>4, <1>5, Zenon

\* Byte by byte.
LEMMA XorBytes ==
  /\ \A b, c \in ByteRange : Xor(b, c) \in ByteRange
  /\ \A h, k, l, c \in ByteRange :
       /\ h * Bytes + l \in WordRange /\ k * Bytes + c \in WordRange
       /\ Xor(h * Bytes + l, k * Bytes + c) = Xor(h, k) * Bytes + Xor(l, c)
<1>1. /\ Bits \in Nat /\ Bits + Bits = 2 * Bits /\ Bits + Bits <= 2 * Bits
      /\ Bits \in 0 .. 2 * Bits /\ 2 * Bits \in 0 .. 2 * Bits
  BY ReceiverAssumption
<1>2. /\ Power[Bits] = Bytes /\ Bytes \in Nat \ {0} /\ Words = Bytes * Bytes
      /\ ByteRange = 0 .. Power[Bits] - 1 /\ 0 \in ByteRange
  BY Sizes DEF ByteRange
<1>3. \A h, l \in ByteRange : h * Bytes + l \in WordRange
  <2> SUFFICES ASSUME NEW h \in ByteRange, NEW l \in ByteRange
               PROVE  h * Bytes + l \in WordRange
    OBVIOUS
  <2>1. h \in 0 .. Bytes - 1 /\ l \in 0 .. Bytes - 1  BY <1>2
  <2>2. h * Bytes \in Nat /\ (Bytes - 1 - h) * Bytes \in Nat  BY <1>2, <2>1
  <2>3. Bytes * Bytes = h * Bytes + Bytes + (Bytes - 1 - h) * Bytes  BY <1>2, <2>1
  <2> QED  BY <1>2, <2>1, <2>2, <2>3 DEF WordRange
<1>4. ByteRange \subseteq WordRange
  <2>1. ASSUME NEW l \in ByteRange PROVE l \in WordRange
    <3>1. 0 * Bytes + l \in WordRange  BY <1>2, <1>3
    <3>2. 0 * Bytes + l = l  BY <1>2
    <3> QED  BY <3>1, <3>2
  <2> QED  BY <2>1
<1>5. ASSUME NEW h \in ByteRange, NEW k \in ByteRange, NEW l \in ByteRange, NEW c \in ByteRange
      PROVE  Xor(h * Bytes + l, k * Bytes + c) = LowXor(Bits, h, k) * Bytes + LowXor(Bits, l, c)
  <2>1. LowXor(Bits + Bits, h * Power[Bits] + l, k * Power[Bits] + c)
          = LowXor(Bits, h, k) * Power[Bits] + LowXor(Bits, l, c)
    <3>1. /\ h \in 0 .. Power[Bits] - 1 /\ k \in 0 .. Power[Bits] - 1
          /\ l \in 0 .. Power[Bits] - 1 /\ c \in 0 .. Power[Bits] - 1
      BY <1>2
    <3> QED  BY <1>1, <3>1, LowXorSplits
  <2>2. Xor(h * Bytes + l, k * Bytes + c) = LowXor(2 * Bits, h * Bytes + l, k * Bytes + c)
    BY <1>3, LowXorIs
  <2> QED  BY <1>1, <1>2, <2>1, <2>2
<1>6. ASSUME NEW b \in ByteRange, NEW c \in ByteRange
      PROVE  Xor(b, c) = LowXor(Bits, b, c) /\ LowXor(Bits, b, c) \in ByteRange
  <2>1. Xor(0 * Bytes + b, 0 * Bytes + c) = LowXor(Bits, 0, 0) * Bytes + LowXor(Bits, b, c)
    BY <1>2, <1>5
  <2>2. LowXor(Bits, 0, 0) = 0  BY <1>1, <1>2, <1>4, LowXorSelf
  <2>3. LowXor(Bits, b, c) \in 0 .. Power[Bits] - 1  BY <1>1, <1>4, LowXorBound
  <2>4. b \in Nat /\ c \in Nat /\ LowXor(Bits, b, c) \in Nat  BY <1>2, <2>3
  <2>5. 0 * Bytes + b = b /\ 0 * Bytes + c = c
        /\ 0 * Bytes + LowXor(Bits, b, c) = LowXor(Bits, b, c)
    BY <1>2, <2>4
  <2> QED  BY <1>2, <2>1, <2>2, <2>3, <2>5
<1>7. \A b, c \in ByteRange : Xor(b, c) \in ByteRange  BY <1>6
<1>8. \A h, k, l, c \in ByteRange :
        Xor(h * Bytes + l, k * Bytes + c) = Xor(h, k) * Bytes + Xor(l, c)
  BY <1>5, <1>6
<1> QED  BY <1>3, <1>7, <1>8

\* The top bit of a word, and the rest.
LEMMA TopBit ==
  ASSUME NEW x \in WordRange
  PROVE  \E t \in 0 .. 1, u \in 0 .. (Words \div 2) - 1 :
           /\ x = t * (Words \div 2) + u
           /\ 2 * u \in WordRange /\ u \in WordRange
           /\ ShiftIn(x) = IF t = 1 THEN Xor(2 * u, Poly) ELSE 2 * u
<1> DEFINE H == Words \div 2
<1>1. H \in Nat \ {0} /\ Words = 2 * H
  <2>1. Half \in Nat \ {0} /\ Bytes \in Nat \ {0}  BY Sizes
  <2>2. Bytes * Half \in Nat \ {0}  BY <2>1
  <2> QED  BY <2>2, Sizes
<1> HIDE DEF H
<1>2. x \in 0 .. (2 * H) - 1  BY <1>1 DEF WordRange
<1>3. CASE x >= H
  <2> DEFINE u == x - H
  <2>1. u \in 0 .. H - 1 /\ x = 1 * H + u /\ (2 * x) % (2 * H) = 2 * u
    <3>1. u \in 0 .. H - 1 /\ x = 1 * H + u  BY <1>1, <1>2, <1>3
    <3>2. 2 * u \in 0 .. (2 * H) - 1 /\ 2 * x = (2 * H) * 1 + 2 * u  BY <1>1, <1>2, <3>1
    <3>3. ((2 * H) * 1 + 2 * u) % (2 * H) = 2 * u
      <4> HIDE DEF u
      <4> DEFINE d == 2 * H
                 r == 2 * u
      <4>1. d \in Nat /\ d > 0 /\ r \in 0 .. d - 1 /\ 1 \in Nat  BY <1>1, <3>2
      <4> HIDE DEF d, r
      <4>2. (d * 1 + r) % d = r  BY <4>1, DivModIs
      <4> QED  BY <4>2 DEF d, r
    <3> QED  BY <3>1, <3>2, <3>3
  <2>2. ShiftIn(x) = Xor(2 * u, Poly)  BY <1>1, <1>3, <2>1 DEF ShiftIn, H
  <2>3. 2 * u \in WordRange /\ u \in WordRange  BY <1>1, <2>1 DEF WordRange
  <2>4. 1 \in 0 .. 1 /\ ShiftIn(x) = IF 1 = 1 THEN Xor(2 * u, Poly) ELSE 2 * u
    BY <2>2
  <2> HIDE DEF u
  <2> QED  BY <2>1, <2>3, <2>4 DEF H
<1>4. CASE ~(x >= H)
  <2>1. x \in 0 .. H - 1 /\ x = 0 * H + x  BY <1>1, <1>2, <1>4
  <2>2. ShiftIn(x) = 2 * x  BY <1>4 DEF ShiftIn, H
  <2>3. 2 * x \in WordRange  BY <1>1, <2>1 DEF WordRange
  <2>4. 0 \in 0 .. 1 /\ ShiftIn(x) = IF 0 = 1 THEN Xor(2 * x, Poly) ELSE 2 * x
    BY <2>2
  <2> QED  BY <2>1, <2>3, <2>4 DEF H
<1> QED  BY <1>3, <1>4

\* A step of the division takes the exclusive or with it.
LEMMA ShiftIsLinear ==
  ASSUME NEW x \in WordRange, NEW y \in WordRange
  PROVE  /\ ShiftIn(x) \in WordRange
         /\ ShiftIn(Xor(x, y)) = Xor(ShiftIn(x), ShiftIn(y))
<1> DEFINE H == Words \div 2
           z == Xor(x, y)
           M == 2 * Bits - 1
<1>1. /\ M \in Nat /\ 1 + M = 2 * Bits /\ 1 + M <= 2 * Bits /\ M \in 0 .. 2 * Bits
      /\ 1 \in 1 .. 2 * Bits /\ 2 * Bits \in 1 .. 2 * Bits /\ 1 \in Nat
  BY ReceiverAssumption
<1>2. H = Power[M] /\ H \in Nat \ {0} /\ Words = 2 * H
  <2>1. Power[1 + M] = 2 * Power[M] /\ Power[M] \in Nat \ {0}  BY <1>1, PowerIs
  <2>2. Words = Power[1 + M]  BY <1>1, Sizes
  <2>3. \A p \in Nat : (2 * p) \div 2 = p  OBVIOUS
  <2> QED  BY <2>1, <2>2, <2>3
<1>3. Poly \in WordRange  BY ReceiverAssumption
<1> HIDE DEF H, M
<1>4. PICK t \in 0 .. 1, u \in 0 .. H - 1 :
        /\ x = t * H + u /\ 2 * u \in WordRange /\ u \in WordRange
        /\ ShiftIn(x) = IF t = 1 THEN Xor(2 * u, Poly) ELSE 2 * u
  BY TopBit DEF H
<1>5. PICK s \in 0 .. 1, v \in 0 .. H - 1 :
        /\ y = s * H + v /\ 2 * v \in WordRange /\ v \in WordRange
        /\ ShiftIn(y) = IF s = 1 THEN Xor(2 * v, Poly) ELSE 2 * v
  BY TopBit DEF H
<1> DEFINE w == LowXor(M, u, v)
<1>6. w \in 0 .. H - 1 /\ w \in WordRange  BY <1>1, <1>2, <1>4, <1>5, LowXorBound
<1>7. Power[1] = 2 /\ Power[0] = 1
  <2>1. 1 \in 1 .. 2 * Bits /\ 1 - 1 = 0  BY <1>1
  <2> QED  BY <2>1, PowerIs
<1>8. LowXor(1, t, s) = (t + s) % 2
  <2>1. t \in WordRange /\ s \in WordRange  BY <1>2 DEF WordRange
  <2>2. LowXor(1, t, s) = 2 * LowXor(1 - 1, t \div 2, s \div 2) + ((t + s) % 2)
        /\ t \div 2 \in WordRange /\ s \div 2 \in WordRange
    BY <1>1, <2>1, LowXorBit
  <2>3. LowXor(0, t \div 2, s \div 2) = 0  BY <2>2, LowXorIs
  <2>4. 1 - 1 = 0 /\ (t + s) % 2 \in Nat  OBVIOUS
  <2> QED  BY <2>2, <2>3, <2>4
<1>9. z = ((t + s) % 2) * H + w
  <2>1. t \in 0 .. Power[1] - 1 /\ s \in 0 .. Power[1] - 1
        /\ u \in 0 .. Power[M] - 1 /\ v \in 0 .. Power[M] - 1
    BY <1>2, <1>7
  <2>2. LowXor(1 + M, t * Power[M] + u, s * Power[M] + v) = LowXor(1, t, s) * Power[M] + LowXor(M, u, v)
    BY <1>1, <2>1, LowXorSplits
  <2>3. z = LowXor(2 * Bits, x, y)  BY LowXorIs
  <2> QED  BY <1>1, <1>2, <1>4, <1>5, <1>8, <2>2, <2>3
<1>10. 2 * w = Xor(2 * u, 2 * v)
  <2>1. Xor(2 * u, 2 * v) = LowXor(2 * Bits, 2 * u, 2 * v)  BY <1>4, <1>5, LowXorIs
  <2>2. LowXor(2 * Bits, 2 * u, 2 * v)
          = 2 * LowXor(2 * Bits - 1, (2 * u) \div 2, (2 * v) \div 2) + ((2 * u + 2 * v) % 2)
    BY <1>1, <1>4, <1>5, LowXorBit
  <2>3. (2 * u) \div 2 = u /\ (2 * v) \div 2 = v /\ (2 * u + 2 * v) % 2 = 0
    BY <1>2
  <2>4. LowXor(2 * Bits, 2 * u, 2 * v) = 2 * w + 0  BY <2>2, <2>3 DEF M
  <2> QED  BY <1>2, <1>6, <2>1, <2>4
<1> HIDE DEF w
<1>11. z \in WordRange  BY XorIs
<1>12. ShiftIn(z) = IF t = s THEN 2 * w ELSE Xor(2 * w, Poly)
  <2>1. PICK r \in 0 .. 1, q \in 0 .. H - 1 :
          /\ z = r * H + q
          /\ ShiftIn(z) = IF r = 1 THEN Xor(2 * q, Poly) ELSE 2 * q
    BY <1>11, TopBit DEF H
  <2>2. (t + s) % 2 \in 0 .. 1 /\ ((t + s) % 2 = 0 <=> t = s)  OBVIOUS
  <2> HIDE DEF z
  <2>3. ASSUME NEW i \in 0 .. 1, NEW j \in 0 .. 1, i * H + q = j * H + w
        PROVE  i = j /\ q = w
    <3>1. H \in Nat \ {0} /\ w \in 0 .. H - 1  BY <1>2, <1>6
    <3>2. i * H + q = j * H + w => i = j /\ q = w  BY <3>1, TopAlone
    <3> QED  BY <2>3, <3>2
  <2>4. r = (t + s) % 2 /\ q = w  BY <1>9, <2>1, <2>2, <2>3
  <2> QED  BY <2>1, <2>2, <2>4
<1>13. 2 * w \in WordRange /\ Xor(2 * u, Poly) \in WordRange /\ Xor(2 * v, Poly) \in WordRange
  BY <1>3, <1>4, <1>5, <1>10, XorIs
<1>14. ShiftIn(x) \in WordRange  BY <1>4, <1>13
<1>15. ShiftIn(z) = Xor(ShiftIn(x), ShiftIn(y))
  <2> DEFINE U == 2 * u
             V == 2 * v
  <2>1. U \in WordRange /\ V \in WordRange /\ 2 * w = Xor(U, V)  BY <1>4, <1>5, <1>10
  <2>2. /\ Xor(Xor(U, V), Poly) = Xor(Xor(U, Poly), V)
        /\ Xor(Xor(U, V), Poly) = Xor(U, Xor(V, Poly))
        /\ Xor(Xor(U, Poly), Xor(V, Poly)) = Xor(U, V)
    BY <1>3, <2>1, XorLaws
  <2>3. t = 0 \/ t = 1  OBVIOUS
  <2>4. s = 0 \/ s = 1  OBVIOUS
  <2> QED  BY <1>4, <1>5, <1>12, <2>1, <2>2, <2>3, <2>4
<1> QED  BY <1>14, <1>15

\* Division bit by bit, of a word.
LEMMA ShiftsIs ==
  ASSUME NEW x \in WordRange
  PROVE  /\ \A n \in 0 .. Bits : Shifts(x)[n] \in WordRange
         /\ Shifts(x)[0] = x
         /\ \A n \in 1 .. Bits : Shifts(x)[n] = ShiftIn(Shifts(x)[n - 1])
<1> DEFINE W == WordRange
           N == Bits
           step == [n \in 1 .. N |-> [w \in W |-> ShiftIn(w)]]
           g == Shifts(x)
<1>1. N \in Nat /\ step \in [1 .. N -> [W -> W]]  BY ReceiverAssumption, ShiftIsLinear
<1>2. PICK f \in [0 .. N -> W] : f[0] = x /\ \A i \in 1 .. N : f[i] = step[i][f[i - 1]]
  <2> HIDE DEF N, W, step
  <2>1. x \in W  BY DEF W
  <2>2. Recursive(N, W, x, step)  BY <1>1, <2>1, Recursion
  <2> QED  BY <2>2 DEF Recursive
<1>3. \A i \in 1 .. N : i - 1 \in 0 .. N /\ f[i] = ShiftIn(f[i - 1])
  <2>1. \A i \in 1 .. N : i - 1 \in 0 .. N /\ f[i - 1] \in W  BY <1>1, <1>2
  <2> QED  BY <1>2, <2>1
<1> HIDE DEF step
<1>4. \A n \in 0 .. N : f[n] = IF n = 0 THEN x ELSE ShiftIn(f[n - 1])  BY <1>1, <1>2, <1>3
<1>5. f = [n \in 0 .. N |-> IF n = 0 THEN x ELSE ShiftIn(f[n - 1])]  BY <1>2, <1>4
<1>6. g = [n \in 0 .. N |-> IF n = 0 THEN x ELSE ShiftIn(g[n - 1])]
  BY <1>5, Zenon DEF Shifts
<1> HIDE DEF N, W, g
<1>7. g = f
  <2>1. 0 \in 0 .. N /\ \A n \in 1 .. N : n \in 0 .. N /\ n # 0  BY <1>1
  <2>2. DOMAIN g = 0 .. N
        /\ \A n \in 0 .. N : g[n] = IF n = 0 THEN x ELSE ShiftIn(g[n - 1])
    BY <1>6
  <2>3. g[0] = f[0]  BY <1>4, <2>1, <2>2
  <2>4. \A n \in 1 .. N : g[n - 1] = f[n - 1] => g[n] = f[n]  BY <1>4, <2>1, <2>2
  <2>5. GoAlike(N, g, f)  BY <2>3, <2>4 DEF GoAlike
  <2>6. \A n \in 0 .. N : g[n] = f[n]  BY <1>1, <2>5, SameFrom
  <2> QED  BY <1>2, <1>6, <2>6
<1>8. /\ \A n \in 0 .. N : g[n] \in W
      /\ g[0] = x
      /\ \A n \in 1 .. N : g[n] = ShiftIn(g[n - 1])
  BY <1>2, <1>3, <1>7
<1> QED  BY <1>8 DEF N, W, g

LEMMA ShiftsAreLinear ==
  ASSUME NEW x \in WordRange, NEW y \in WordRange
  PROVE  \A n \in 0 .. Bits : Shifts(Xor(x, y))[n] = Xor(Shifts(x)[n], Shifts(y)[n])
<1> DEFINE z == Xor(x, y)
           S == {n \in 0 .. Bits : Shifts(z)[n] = Xor(Shifts(x)[n], Shifts(y)[n])}
<1>1. z \in WordRange /\ Bits \in Nat  BY XorIs, ReceiverAssumption
<1> HIDE DEF z
<1>2. 0 \in S
  <2>1. Shifts(z)[0] = z /\ Shifts(x)[0] = x /\ Shifts(y)[0] = y /\ 0 \in 0 .. Bits
    BY <1>1, ShiftsIs
  <2> QED  BY <2>1 DEF z
<1>3. ASSUME NEW n \in 1 .. Bits, n - 1 \in S PROVE n \in S
  <2>1. n \in 0 .. Bits /\ n - 1 \in 0 .. Bits  BY <1>1
  <2> DEFINE p == Shifts(x)[n - 1]
             q == Shifts(y)[n - 1]
  <2>2. p \in WordRange /\ q \in WordRange  BY <2>1, ShiftsIs
  <2>3. /\ Shifts(x)[n] = ShiftIn(p) /\ Shifts(y)[n] = ShiftIn(q)
        /\ Shifts(z)[n] = ShiftIn(Shifts(z)[n - 1])
    BY <1>1, ShiftsIs
  <2>4. Shifts(z)[n - 1] = Xor(p, q)  BY <1>3
  <2> HIDE DEF p, q
  <2>5. ShiftIn(Xor(p, q)) = Xor(ShiftIn(p), ShiftIn(q))  BY <2>2, ShiftIsLinear
  <2> QED  BY <2>1, <2>3, <2>4, <2>5
<1> HIDE DEF S
<1>4. 0 .. Bits \subseteq S  BY <1>1, <1>2, <1>3, Along
<1> QED  BY <1>4 DEF S, z

\* A byte alone meets no division before it is in the high byte.
LEMMA ShiftsOfLow ==
  ASSUME NEW l \in ByteRange
  PROVE  Shifts(l)[Bits] = l * Bytes /\ l \in WordRange
<1> DEFINE S == {n \in 0 .. Bits : Shifts(l)[n] = l * Power[n]}
<1>1. /\ Bits \in Nat /\ Bytes \in Nat \ {0} /\ Half \in Nat \ {0} /\ l \in 0 .. Bytes - 1
      /\ Bytes = Power[Bits] /\ Words = Bytes * Bytes
  BY ReceiverAssumption, Sizes DEF ByteRange
<1>2. l \in WordRange
  <2>1. \A B \in Nat \ {0} : 0 .. B - 1 \subseteq 0 .. (B * B) - 1
    <3> SUFFICES ASSUME NEW B \in Nat \ {0} PROVE B <= B * B /\ B * B \in Nat  OBVIOUS
    <3>1. (B - 1) * B \in Nat  OBVIOUS
    <3> QED  BY <3>1
  <2> QED  BY <1>1, <2>1 DEF WordRange
<1>3. 0 \in S
  <2>1. l * 1 = l  BY <1>1
  <2>2. 0 \in 0 .. Bits  BY <1>1
  <2> QED  BY <1>2, <2>1, <2>2, ShiftsIs, PowerIs
<1>4. ASSUME NEW n \in 1 .. Bits, n - 1 \in S PROVE n \in S
  <2> DEFINE P == Power[n - 1]
             m == Bits - n
  <2>1. /\ n \in 0 .. Bits /\ n \in 1 .. 2 * Bits /\ n - 1 \in Nat /\ m \in Nat
        /\ m + (n - 1) = Bits - 1 /\ m \in 0 .. 2 * Bits /\ m + (n - 1) <= 2 * Bits
        /\ n - 1 \in 0 .. 2 * Bits
    BY <1>1
  <2>2. Shifts(l)[n] = ShiftIn(l * P)  BY <1>2, <1>4, ShiftsIs
  <2>3. Power[n] = 2 * P /\ P \in Nat \ {0} /\ Power[m] \in Nat \ {0}  BY <2>1, PowerIs
  <2>4. Half = Power[m] * P
    <3>1. Power[m + (n - 1)] = Power[m] * Power[n - 1]  BY <2>1, PowerAdds
    <3> QED  BY <2>1, <3>1 DEF Half
  <2>5. ~(l * P >= Words \div 2)
    <3>1. Words \div 2 = Bytes * Half  BY Sizes
    <3> HIDE DEF P
    <3>2. \A q \in Nat \ {0} : P <= q * P  BY <2>3
    <3>3. P <= Half  BY <2>3, <2>4, <3>2
    <3>4. l * P + P <= Bytes * P
      <4>1. (Bytes - 1 - l) * P \in Nat  BY <1>1, <2>3
      <4>2. Bytes * P = l * P + P + (Bytes - 1 - l) * P  BY <1>1, <2>3
      <4>3. l * P \in Nat /\ Bytes * P \in Nat  BY <1>1, <2>3
      <4> QED  BY <2>3, <4>1, <4>2, <4>3
    <3>5. Bytes * P <= Bytes * Half
      <4>1. Bytes * (Half - P) \in Nat  BY <1>1, <2>3, <3>3
      <4>2. Bytes * Half = Bytes * P + Bytes * (Half - P)  BY <1>1, <2>3
      <4>3. Bytes * P \in Nat /\ Bytes * Half \in Nat  BY <1>1, <2>3
      <4> QED  BY <4>1, <4>2, <4>3
    <3>6. l * P \in Nat /\ Bytes * P \in Nat /\ Bytes * Half \in Nat  BY <1>1, <2>3
    <3> QED  BY <2>3, <3>1, <3>4, <3>5, <3>6
  <2>6. ShiftIn(l * P) = 2 * (l * P)  BY <2>5 DEF ShiftIn
  <2>7. 2 * (l * P) = l * Power[n]
    <3> HIDE DEF P
    <3>1. \A i, j \in Nat : 2 * (i * j) = i * (2 * j)  OBVIOUS
    <3> QED  BY <1>1, <2>3, <3>1
  <2> QED  BY <2>1, <2>2, <2>6, <2>7
<1> HIDE DEF S
<1>5. 0 .. Bits \subseteq S  BY <1>1, <1>3, <1>4, Along
<1>6. Bits \in S  BY <1>1, <1>5
<1> QED  BY <1>1, <1>2, <1>6 DEF S

\* A word of two bytes.
LEMMA TwoBytes ==
  ASSUME NEW crc \in WordRange
  PROVE  /\ crc \div Bytes \in ByteRange /\ crc % Bytes \in ByteRange
         /\ crc = (crc \div Bytes) * Bytes + (crc % Bytes)
         /\ (crc * Bytes) % Words = (crc % Bytes) * Bytes
<1> DEFINE h == crc \div Bytes
           l == crc % Bytes
<1>1. Bytes \in Nat \ {0} /\ crc \in 0 .. (Bytes * Bytes) - 1 /\ crc \in Nat /\ Words = Bytes * Bytes
      /\ Bytes * Bytes \in Nat
  BY Sizes DEF WordRange
<1>2. h \in Nat /\ l \in 0 .. Bytes - 1 /\ crc = Bytes * h + l  BY <1>1, DivMod
<1> HIDE DEF h, l
<1>3. h < Bytes
  <2> SUFFICES ASSUME h >= Bytes PROVE FALSE  BY <1>1, <1>2
  <2>1. Bytes * (h - Bytes) \in Nat  BY <1>1, <1>2
  <2>2. Bytes * h = Bytes * Bytes + Bytes * (h - Bytes)  BY <1>1, <1>2
  <2>3. Bytes * h \in Nat  BY <1>1, <1>2
  <2> QED  BY <1>1, <1>2, <2>1, <2>2, <2>3
<1>4. h * Bytes = Bytes * h /\ h * Bytes \in Nat /\ l * Bytes \in Nat  BY <1>1, <1>2
<1>5. (crc * Bytes) % Words = l * Bytes
  <2> DEFINE d == Bytes * Bytes
             r == l * Bytes
  <2>1. crc * Bytes = d * h + r  BY <1>1, <1>2
  <2>2. d \in Nat /\ d > 0  BY <1>1
  <2>3. r \in 0 .. d - 1
    <3>1. (Bytes - 1 - l) * Bytes \in Nat  BY <1>1, <1>2
    <3>2. d = r + Bytes + (Bytes - 1 - l) * Bytes  BY <1>1, <1>2
    <3> QED  BY <1>1, <1>4, <2>2, <3>1, <3>2
  <2>4. Words = d  BY <1>1
  <2> HIDE DEF d, r
  <2>5. (d * h + r) % d = r  BY <1>2, <2>2, <2>3, DivModIs
  <2>6. (crc * Bytes) % Words = r  BY <2>1, <2>4, <2>5, Zenon
  <2> QED  BY <2>6 DEF r
<1> QED  BY <1>1, <1>2, <1>3, <1>4, <1>5 DEF h, l, ByteRange

\* The table saves the division: a byte at a time is as good as a bit at a time.
LEMMA ByteDivides ==
  ASSUME NEW crc \in WordRange, NEW b \in ByteRange
  PROVE  CrcByte(crc, b) = DivideByte(crc, b) /\ CrcByte(crc, b) \in WordRange
<1> DEFINE h == crc \div Bytes
           l == crc % Bytes
           t == Xor(h, b)
<1>1. /\ h \in ByteRange /\ l \in ByteRange /\ crc = h * Bytes + l
      /\ (crc * Bytes) % Words = l * Bytes
  BY TwoBytes
<1> HIDE DEF h, l
<1>2. 0 \in ByteRange /\ t \in ByteRange
  <2>1. 0 \in ByteRange  BY Sizes DEF ByteRange
  <2> QED  BY <1>1, <2>1, XorBytes
<1> HIDE DEF t
<1>3. b * Bytes + 0 = b * Bytes /\ t * Bytes + 0 = t * Bytes /\ 0 * Bytes + l = l
  <2>1. ByteRange \subseteq Nat /\ Bytes \in Nat  BY Sizes DEF ByteRange
  <2> QED  BY <1>1, <1>2, <2>1
<1>4. b * Bytes \in WordRange /\ t * Bytes \in WordRange /\ l \in WordRange
      /\ l * Bytes \in WordRange
  <2>1. /\ b * Bytes + 0 \in WordRange /\ t * Bytes + 0 \in WordRange
        /\ 0 * Bytes + l \in WordRange /\ l * Bytes + 0 \in WordRange
    BY <1>1, <1>2, XorBytes
  <2>2. l * Bytes + 0 = l * Bytes
    <3>1. l \in Nat /\ Bytes \in Nat  BY <1>1, Sizes DEF ByteRange
    <3> QED  BY <3>1
  <2> QED  BY <1>3, <2>1, <2>2
<1>5. Xor(crc, b * Bytes) = t * Bytes + l
  <2>1. Xor(h * Bytes + l, b * Bytes + 0) = Xor(h, b) * Bytes + Xor(l, 0)
    BY <1>1, <1>2, XorBytes
  <2>2. Xor(l, 0) = l  BY <1>4, XorIs
  <2> QED  BY <1>1, <1>3, <2>1, <2>2 DEF t
<1>6. Xor(t * Bytes, l) = t * Bytes + l
  <2>1. Xor(t * Bytes + 0, 0 * Bytes + l) = Xor(t, 0) * Bytes + Xor(0, l)
    BY <1>1, <1>2, XorBytes
  <2>2. t \in WordRange /\ 0 \in WordRange  BY <1>2, ShiftsOfLow
  <2>3. Xor(t, 0) = t /\ Xor(0, l) = l  BY <1>4, <2>2, XorIs
  <2> QED  BY <1>3, <2>1, <2>3
<1>7. DivideByte(crc, b) = Xor(Shifts(t * Bytes)[Bits], Shifts(l)[Bits])
  <2>1. Bits \in 0 .. Bits  BY ReceiverAssumption
  <2>2. Shifts(Xor(t * Bytes, l))[Bits] = Xor(Shifts(t * Bytes)[Bits], Shifts(l)[Bits])
    BY <1>4, <2>1, ShiftsAreLinear
  <2> QED  BY <1>5, <1>6, <2>2 DEF DivideByte
<1>8. Shifts(l)[Bits] = l * Bytes  BY <1>1, ShiftsOfLow
<1>9. CrcTable[t] = Shifts(t * Bytes)[Bits] /\ CrcTable[t] \in WordRange
  <2>1. CrcTable[t] = Shifts(t * Bytes)[Bits]  BY <1>2 DEF CrcTable
  <2>2. Bits \in 0 .. Bits  BY ReceiverAssumption
  <2> QED  BY <1>4, <2>1, <2>2, ShiftsIs
<1>10. CrcByte(crc, b) = Xor(l * Bytes, CrcTable[t])  BY <1>1 DEF CrcByte, t, h
<1>11. Xor(l * Bytes, CrcTable[t]) = Xor(CrcTable[t], l * Bytes)
       /\ Xor(l * Bytes, CrcTable[t]) \in WordRange
  BY <1>4, <1>9, XorIs
<1> QED  BY <1>7, <1>8, <1>9, <1>10, <1>11

\* So for any number of bytes: table and division leave the same remainders.
LEMMA CrcsAre ==
  ASSUME NEW s \in Seq(ByteRange)
  PROVE  \A n \in 0 .. Len(s) : Crcs(s)[n] \in WordRange /\ Remainders(s)[n] = Crcs(s)[n]
<1> DEFINE W == WordRange
           N == Len(s)
           base == Words - 1
           step == [n \in 1 .. N |-> [w \in W |-> CrcByte(w, s[n])]]
           g == Crcs(s)
           h == Remainders(s)
<1>1. N \in Nat /\ base \in W /\ \A n \in 1 .. N : s[n] \in ByteRange
  <2>1. base \in W  BY Sizes DEF WordRange
  <2> QED  BY <2>1
<1>2. step \in [1 .. N -> [W -> W]]  BY <1>1, ByteDivides
<1>3. PICK f \in [0 .. N -> W] : f[0] = base /\ \A i \in 1 .. N : f[i] = step[i][f[i - 1]]
  <2> HIDE DEF N, W, step, base
  <2>1. Recursive(N, W, base, step)  BY <1>1, <1>2, Recursion
  <2> QED  BY <2>1 DEF Recursive
<1>4. \A i \in 1 .. N : i - 1 \in 0 .. N /\ f[i - 1] \in W /\ f[i] = CrcByte(f[i - 1], s[i])
  <2>1. \A i \in 1 .. N : i - 1 \in 0 .. N /\ f[i - 1] \in W  BY <1>1, <1>3
  <2> QED  BY <1>3, <2>1
<1> HIDE DEF step
<1>5. \A i \in 1 .. N : f[i] = DivideByte(f[i - 1], s[i])  BY <1>1, <1>4, ByteDivides
<1> HIDE DEF N, W, g, h, base
<1>6. \A n \in 0 .. N : /\ f[n] = IF n = 0 THEN base ELSE CrcByte(f[n - 1], s[n])
                        /\ f[n] = IF n = 0 THEN base ELSE DivideByte(f[n - 1], s[n])
  BY <1>1, <1>3, <1>4, <1>5
<1>7. g = f
  <2>1. f = [n \in 0 .. N |-> IF n = 0 THEN base ELSE CrcByte(f[n - 1], s[n])]  BY <1>3, <1>6
  <2>2. g = [n \in 0 .. N |-> IF n = 0 THEN base ELSE CrcByte(g[n - 1], s[n])]
    BY <2>1, Zenon DEF Crcs, g, N, base
  <2>3. 0 \in 0 .. N /\ \A n \in 1 .. N : n \in 0 .. N /\ n # 0  BY <1>1
  <2>4. DOMAIN g = 0 .. N
        /\ \A n \in 0 .. N : g[n] = IF n = 0 THEN base ELSE CrcByte(g[n - 1], s[n])
    BY <2>2
  <2>5. g[0] = f[0]  BY <1>6, <2>3, <2>4
  <2>6. \A n \in 1 .. N : g[n - 1] = f[n - 1] => g[n] = f[n]  BY <1>6, <2>3, <2>4
  <2>7. GoAlike(N, g, f)  BY <2>5, <2>6 DEF GoAlike
  <2>8. \A n \in 0 .. N : g[n] = f[n]  BY <1>1, <2>7, SameFrom
  <2> QED  BY <1>3, <2>2, <2>8
<1>8. h = f
  <2>1. f = [n \in 0 .. N |-> IF n = 0 THEN base ELSE DivideByte(f[n - 1], s[n])]  BY <1>3, <1>6
  <2>2. h = [n \in 0 .. N |-> IF n = 0 THEN base ELSE DivideByte(h[n - 1], s[n])]
    BY <2>1, Zenon DEF Remainders, h, N, base
  <2>3. 0 \in 0 .. N /\ \A n \in 1 .. N : n \in 0 .. N /\ n # 0  BY <1>1
  <2>4. DOMAIN h = 0 .. N
        /\ \A n \in 0 .. N : h[n] = IF n = 0 THEN base ELSE DivideByte(h[n - 1], s[n])
    BY <2>2
  <2>5. h[0] = f[0]  BY <1>6, <2>3, <2>4
  <2>6. \A n \in 1 .. N : h[n - 1] = f[n - 1] => h[n] = f[n]  BY <1>6, <2>3, <2>4
  <2>7. GoAlike(N, h, f)  BY <2>5, <2>6 DEF GoAlike
  <2>8. \A n \in 0 .. N : h[n] = f[n]  BY <1>1, <2>7, SameFrom
  <2> QED  BY <1>3, <2>2, <2>8
<1>9. \A n \in 0 .. N : g[n] \in W /\ h[n] = g[n]  BY <1>3, <1>7, <1>8
<1> QED  BY <1>9 DEF N, W, g, h

LEMMA ChecksumIs ==
  ASSUME NEW s \in Seq(ByteRange)
  PROVE  /\ \E x, y \in ByteRange : Checksum(s) = <<x, y>>
         /\ LET crc == Remainders(s)[Len(s)] IN Checksum(s) = <<crc % Bytes, crc \div Bytes>>
<1> DEFINE crc == Crcs(s)[Len(s)]
<1>1. Len(s) \in 0 .. Len(s)
  <2>1. Len(s) \in Nat  OBVIOUS
  <2> QED  BY <2>1
<1>2. crc \in WordRange /\ Remainders(s)[Len(s)] = crc  BY <1>1, CrcsAre
<1>3. Checksum(s) = <<crc % Bytes, crc \div Bytes>>  BY DEF Checksum
<1> HIDE DEF crc
<1>4. crc % Bytes \in ByteRange /\ crc \div Bytes \in ByteRange  BY <1>2, TwoBytes
<1> QED  BY <1>2, <1>3, <1>4

(***************************************************************************)
(* Frames.                                                                 *)
(***************************************************************************)

LEMMA Numbers ==
  /\ Half \in Nat /\ Half > 0 /\ Bytes = 2 * Half /\ Bytes \in Nat \ {0}
  /\ ByteRange = 0 .. Bytes - 1
  /\ PayloadBytes \in Nat /\ PayloadBytes > 0 /\ Frame = 3 + PayloadBytes + 2
  /\ Sync0 >= Half /\ Sync0 \in Nat /\ Sync1 \in Nat /\ Sync1 # Sync0
  /\ Sync0 \in ByteRange /\ Sync1 \in ByteRange
BY ReceiverAssumption, BridgeAssumption, Sizes DEF ByteRange, FrameLen

\* What is before the checksum.
Body(c) ==
  <<Sync0, Sync1, c>> \o [i \in 1 .. PayloadBytes |-> PayloadByte(c, i - 1)]

LEMMA BodyIs ==
  ASSUME NEW c \in ByteRange
  PROVE  /\ Body(c) \in Seq(ByteRange) /\ Len(Body(c)) = Frame - 2
         /\ Body(c)[1] = Sync0 /\ Body(c)[2] = Sync1 /\ Body(c)[3] = c
         /\ \A i \in 1 .. PayloadBytes : Body(c)[3 + i] = PayloadByte(c, i - 1)
<1> DEFINE head == <<Sync0, Sync1, c>>
           rest == [i \in 1 .. PayloadBytes |-> PayloadByte(c, i - 1)]
<1>1. c \in Nat /\ c \in ByteRange  BY Numbers
<1>2. head \in Seq(ByteRange) /\ Len(head) = 3 /\ head[1] = Sync0 /\ head[2] = Sync1 /\ head[3] = c
  BY <1>1, Numbers
<1>3. \A i \in 1 .. PayloadBytes : PayloadByte(c, i - 1) \in ByteRange
  BY <1>1, Numbers DEF PayloadByte
<1>4. rest \in Seq(ByteRange) /\ Len(rest) = PayloadBytes
  <2>1. rest \in [1 .. PayloadBytes -> ByteRange]  BY <1>3
  <2> QED  BY <2>1, Numbers, SeqDef
<1>5. \A i \in 1 .. PayloadBytes : rest[i] = PayloadByte(c, i - 1)  OBVIOUS
<1> HIDE DEF head, rest
<1>6. /\ head \o rest \in Seq(ByteRange) /\ Len(head \o rest) = Len(head) + Len(rest)
      /\ \A i \in 1 .. Len(head) + Len(rest) :
           (head \o rest)[i] = IF i <= Len(head) THEN head[i] ELSE rest[i - Len(head)]
  BY <1>2, <1>4, ConcatProperties
<1>7. Len(head) + Len(rest) = 3 + PayloadBytes /\ Len(head) = 3 /\ 3 + PayloadBytes = Frame - 2
  BY <1>2, <1>4, Numbers
<1>8. ASSUME NEW i \in 1 .. PayloadBytes PROVE (head \o rest)[3 + i] = PayloadByte(c, i - 1)
  <2>1. 3 + i \in 1 .. 3 + PayloadBytes /\ ~(3 + i <= 3) /\ (3 + i) - 3 = i  BY Numbers
  <2>2. (head \o rest)[3 + i] = rest[i]  BY <1>6, <1>7, <2>1
  <2> QED  BY <1>5, <2>2
<1>9. ASSUME NEW i \in 1 .. 3 PROVE (head \o rest)[i] = head[i]
  <2>1. i \in 1 .. 3 + PayloadBytes /\ i <= 3  BY Numbers
  <2> QED  BY <1>6, <1>7, <2>1
<1>10. (head \o rest)[1] = Sync0 /\ (head \o rest)[2] = Sync1 /\ (head \o rest)[3] = c
  <2>1. 1 \in 1 .. 3 /\ 2 \in 1 .. 3 /\ 3 \in 1 .. 3  OBVIOUS
  <2> QED  BY <1>2, <1>9, <2>1
<1>11. Len(head \o rest) = Frame - 2  BY <1>6, <1>7
<1>12. Body(c) = head \o rest  BY DEF Body, head, rest
<1> QED  BY <1>6, <1>8, <1>10, <1>11, <1>12

LEMMA FrameIs ==
  ASSUME NEW c \in ByteRange
  PROVE  /\ FrameOf(c) \in Seq(ByteRange) /\ Len(FrameOf(c)) = Frame
         /\ FrameOf(c)[1] = Sync0 /\ FrameOf(c)[2] = Sync1 /\ FrameOf(c)[3] = c
         /\ \A i \in 1 .. PayloadBytes : FrameOf(c)[3 + i] = PayloadByte(c, i - 1)
         /\ Checksum(SubSeq(FrameOf(c), 1, Frame - 2)) = SubSeq(FrameOf(c), Frame - 1, Frame)
<1> DEFINE body == Body(c)
           sum == Checksum(body)
<1>1. /\ body \in Seq(ByteRange) /\ Len(body) = Frame - 2
      /\ body[1] = Sync0 /\ body[2] = Sync1 /\ body[3] = c
      /\ \A i \in 1 .. PayloadBytes : body[3 + i] = PayloadByte(c, i - 1)
  BY BodyIs
<1>2. FrameOf(c) = body \o sum  BY DEF FrameOf, Frames, Body
<1> HIDE DEF body
<1>3. PICK x \in ByteRange, y \in ByteRange : sum = <<x, y>>  BY <1>1, ChecksumIs
<1> HIDE DEF sum
<1>4. sum \in Seq(ByteRange) /\ Len(sum) = 2  BY <1>3
<1>5. body \in Seq(ByteRange)  BY <1>1
<1>6. /\ body \o sum \in Seq(ByteRange) /\ Len(body \o sum) = Len(body) + Len(sum)
      /\ \A i \in 1 .. Len(body) + Len(sum) :
           (body \o sum)[i] = IF i <= Len(body) THEN body[i] ELSE sum[i - Len(body)]
  BY <1>4, <1>5, ConcatProperties
<1>7. Len(body) + Len(sum) = Frame /\ Len(body) = 3 + PayloadBytes /\ Frame \in Nat
  BY <1>1, <1>4, Numbers
<1>8. /\ Len(FrameOf(c)) = Frame /\ FrameOf(c) \in Seq(ByteRange)
      /\ \A i \in 1 .. Frame - 2 : FrameOf(c)[i] = body[i]
  <2>1. \A i \in 1 .. Frame - 2 : i \in 1 .. Frame /\ i <= Len(body)  BY <1>1, <1>7
  <2> QED  BY <1>2, <1>6, <1>7, <2>1
<1>9. /\ FrameOf(c)[1] = Sync0 /\ FrameOf(c)[2] = Sync1 /\ FrameOf(c)[3] = c
      /\ \A i \in 1 .. PayloadBytes : FrameOf(c)[3 + i] = PayloadByte(c, i - 1)
  <2>1. /\ 1 \in 1 .. Frame - 2 /\ 2 \in 1 .. Frame - 2 /\ 3 \in 1 .. Frame - 2
        /\ \A i \in 1 .. PayloadBytes : 3 + i \in 1 .. Frame - 2
    BY Numbers
  <2> QED  BY <1>1, <1>8, <2>1
<1>10. SubSeq(FrameOf(c), 1, Frame - 2) = body
  <2>1. 1 \in 1 .. Len(body) /\ Frame - 2 \in 1 .. Len(body)  BY <1>1, Numbers
  <2>2. SubSeq(body \o sum, 1, Frame - 2) = SubSeq(body, 1, Frame - 2)
    BY <1>4, <1>5, <2>1, SubSeqOfConcat1
  <2>3. SubSeq(body, 1, Len(body)) = body  BY <1>5, SubSeqFull
  <2> QED  BY <1>1, <1>2, <2>2, <2>3
<1>11. SubSeq(FrameOf(c), Frame - 1, Frame) = sum
  <2>1. Frame - 1 \in Len(body) + 1 .. Len(body) + Len(sum)
        /\ Frame \in Len(body) + 1 .. Len(body) + Len(sum)
        /\ (Frame - 1) - Len(body) = 1 /\ Frame - Len(body) = Len(sum)
    BY <1>1, <1>4, <1>7
  <2>2. SubSeq(body \o sum, Frame - 1, Frame)
          = SubSeq(sum, (Frame - 1) - Len(body), Frame - Len(body))
    BY <1>4, <1>5, <2>1, SubSeqOfConcat2
  <2>3. SubSeq(sum, 1, Len(sum)) = sum  BY <1>4, SubSeqFull
  <2> QED  BY <1>2, <2>1, <2>2, <2>3
<1> QED  BY <1>8, <1>9, <1>10, <1>11 DEF sum

(***************************************************************************)
(* The verifier, byte by byte.                                             *)
(***************************************************************************)

\* A place in what is sent: frames sent, bytes of the next one, bytes of a
\* burst, and the parity of the bursts sent.
Places == [f : Nat, done : 0 .. Frame - 1, sent : 0 .. Burst - 1, whole : BOOLEAN]

\* Of frame f, counted from 0, the counter byte; and of the one before it.
Count(f) == f % Bytes
CountBefore(f) == IF f = 0 THEN 0 ELSE (f - 1) % Bytes

RxTypes ==
  [state : {"sync0", "sync1", "collect"}, buf : Seq(ByteRange), have : BOOLEAN, last : Nat,
   bridge : Nat, whole : BOOLEAN, snapshot : Seq(ByteRange), crc : BOOLEAN, gaps : BOOLEAN,
   resyncs : BOOLEAN, payload : BOOLEAN, isotp : BOOLEAN]

\* The hunt is where frame byte p.done is: so many bytes of the frame gathered.
InFrame(r, p) ==
  /\ r.state = IF p.done = 0 THEN "sync0" ELSE IF p.done = 1 THEN "sync1" ELSE "collect"
  /\ r.buf = SubSeq(FrameOf(Count(p.f)), 1, p.done)

\* Nothing but the hunt has changed.
Keeps(t, r) ==
  /\ t \in RxTypes /\ t.have = r.have /\ t.last = r.last /\ t.bridge = r.bridge
  /\ t.whole = r.whole /\ t.snapshot = r.snapshot
  /\ Clean(r) => Clean(t)

\* A frame that arrived as it was sent has been taken for the next one.
Takes(t, r, p, q) ==
  /\ t \in RxTypes /\ q.f = p.f + 1 /\ q.done = 0
  /\ t.have = TRUE /\ t.last = Count(p.f) /\ t.snapshot = FrameOf(Count(p.f))
  /\ t.bridge = 0 /\ t.whole = r.whole
  /\ Clean(r) /\ r.bridge = 0 /\ (r.have => Count(p.f) = (r.last + 1) % Bytes) => Clean(t)

\* The verifier r has heard what was sent up to place p, and nothing wrong.
Follows(r, p) ==
  /\ r \in RxTypes /\ InFrame(r, p)
  /\ r.have = (p.f > 0) /\ r.last = CountBefore(p.f)
  /\ r.bridge = p.sent /\ r.whole = p.whole
  /\ r.snapshot = IF p.f = 0 THEN <<>> ELSE FrameOf(CountBefore(p.f))
  /\ Clean(r)

\* Byte b of a frame, or of a burst, takes the sender from place p to place q.
FrameByte(p, b, q) ==
  /\ p.sent = 0 /\ b = FrameOf(Count(p.f))[p.done + 1]
  /\ q.sent = 0 /\ q.whole = p.whole
  /\ \/ p.done + 1 < Frame /\ q.f = p.f /\ q.done = p.done + 1
     \/ p.done + 1 = Frame /\ q.f = p.f + 1 /\ q.done = 0

BurstByte(p, b, q) ==
  /\ p.done = 0 /\ b = BridgeByteAt(p.sent)
  /\ q.f = p.f /\ q.done = 0
  /\ \/ p.sent + 1 < Burst /\ q.sent = p.sent + 1 /\ q.whole = p.whole
     \/ p.sent + 1 = Burst /\ q.sent = 0 /\ q.whole = ~p.whole

Goes(p, b, q) == FrameByte(p, b, q) \/ BurstByte(p, b, q)

LEMMA PlaceIs ==
  ASSUME NEW p \in Places
  PROVE  /\ p.f \in Nat /\ p.done \in 0 .. Frame - 1 /\ p.sent \in 0 .. Burst - 1
         /\ p.whole \in BOOLEAN
         /\ Count(p.f) \in ByteRange /\ CountBefore(p.f) \in ByteRange
         /\ CountBefore(p.f) \in Nat
<1>1. /\ p.f \in Nat /\ p.done \in 0 .. Frame - 1 /\ p.sent \in 0 .. Burst - 1
      /\ p.whole \in BOOLEAN
  BY DEF Places
<1>2. \A n \in Nat : n % Bytes \in ByteRange /\ n % Bytes \in Nat  BY Numbers
<1>3. 0 \in ByteRange  BY Numbers
<1>4. p.f # 0 => p.f - 1 \in Nat  BY <1>1
<1> QED  BY <1>1, <1>2, <1>3, <1>4 DEF Count, CountBefore

LEMMA RxIs ==
  ASSUME NEW r \in RxTypes
  PROVE  /\ r.state \in {"sync0", "sync1", "collect"} /\ r.buf \in Seq(ByteRange)
         /\ r.have \in BOOLEAN /\ r.last \in Nat /\ r.bridge \in Nat /\ r.whole \in BOOLEAN
         /\ r.snapshot \in Seq(ByteRange)
BY DEF RxTypes

\* The hunt, byte by byte: the first of a frame, the second, those between.
Hunting(r, state, buf) == [r EXCEPT !.state = state, !.buf = buf]

LEMMA HuntingKeeps ==
  ASSUME NEW r \in RxTypes, NEW state \in {"sync0", "sync1", "collect"}, NEW buf \in Seq(ByteRange)
  PROVE  /\ Keeps(Hunting(r, state, buf), r)
         /\ Hunting(r, state, buf).state = state /\ Hunting(r, state, buf).buf = buf
<1> DEFINE t == Hunting(r, state, buf)
<1>1. /\ t \in RxTypes /\ t.have = r.have /\ t.last = r.last /\ t.bridge = r.bridge
      /\ t.whole = r.whole /\ t.snapshot = r.snapshot /\ t.state = state /\ t.buf = buf
  BY DEF RxTypes, Hunting
<1>2. Clean(r) => Clean(t)  BY DEF Clean, RxTypes, Hunting
<1> HIDE DEF t
<1> QED  BY <1>1, <1>2 DEF Keeps, t

\* How a frame begins.
LEMMA FrameBegins ==
  ASSUME NEW c \in ByteRange
  PROVE  /\ FrameOf(c)[1] = Sync0 /\ SubSeq(FrameOf(c), 1, 1) = <<Sync0>>
         /\ <<Sync0>> \in Seq(ByteRange)
<1> DEFINE F == FrameOf(c)
<1>1. F \in Seq(ByteRange) /\ Len(F) = Frame /\ F[1] = Sync0  BY FrameIs
<1>2. 1 \in 1 .. Len(F)  BY <1>1, Numbers
<1>3. Sync0 \in ByteRange  BY <1>1, <1>2, ElementOfSeq
<1>4. \A i \in 1 .. 1 : F[i] \in ByteRange  BY <1>1, <1>3
<1> HIDE DEF F
<1>5. /\ SubSeq(F, 1, 1) \in Seq(ByteRange) /\ Len(SubSeq(F, 1, 1)) = 1
      /\ SubSeq(F, 1, 1)[1] = F[1]
  <2>1. 1 \in Int /\ 1 \in 1 .. 1 /\ 1 <= 1 /\ 1 - 1 + 1 = 1 /\ 1 + 1 - 1 = 1  OBVIOUS
  <2> QED  BY <1>4, <2>1, SubSeqProperties
<1>6. <<Sync0>> \in Seq(ByteRange) /\ Len(<<Sync0>>) = 1 /\ <<Sync0>>[1] = Sync0  BY <1>3
<1>7. \A i \in 1 .. 1 : SubSeq(F, 1, 1)[i] = <<Sync0>>[i]  BY <1>1, <1>5, <1>6
<1>8. SubSeq(F, 1, 1) = <<Sync0>>  BY <1>5, <1>6, <1>7, SeqEqual
<1> QED  BY <1>1, <1>6, <1>8 DEF F

LEMMA HuntFirst ==
  ASSUME NEW p \in Places, NEW q \in Places, NEW b, NEW r \in RxTypes,
         InFrame(r, p), FrameByte(p, b, q), p.done = 0
  PROVE  InFrame(RxByte(r, b), q) /\ Keeps(RxByte(r, b), r)
<1> DEFINE F == FrameOf(Count(p.f))
           t == Hunting(r, "sync1", <<b>>)
<1>1. F \in Seq(ByteRange) /\ Len(F) = Frame /\ F[1] = Sync0
  BY PlaceIs, FrameIs
<1>2. b = F[1]  BY DEF FrameByte
<1>3. Frame > 1  BY Numbers
<1>4. q.f = p.f /\ q.done = 1  BY <1>3 DEF FrameByte
<1>5. SubSeq(F, 1, 1) = <<b>> /\ <<b>> \in Seq(ByteRange)
  <2>1. Count(p.f) \in ByteRange  BY PlaceIs
  <2>2. SubSeq(F, 1, 1) = <<Sync0>> /\ <<Sync0>> \in Seq(ByteRange)  BY <2>1, FrameBegins
  <2> QED  BY <1>1, <1>2, <2>2, Zenon
<1> HIDE DEF F
<1>6. RxByte(r, b) = t
  <2>1. r.state = "sync0"  BY DEF InFrame
  <2> QED  BY <1>1, <1>2, <2>1 DEF RxByte, Hunting
<1>7. Keeps(t, r) /\ t.state = "sync1" /\ t.buf = <<b>>
  <2>1. "sync1" \in {"sync0", "sync1", "collect"}  OBVIOUS
  <2> QED  BY <1>5, <2>1, HuntingKeeps, Zenon
<1> HIDE DEF t
<1>8. t.buf = SubSeq(F, 1, q.done)  BY <1>4, <1>5, <1>7, Zenon
<1>9. q.done # 0 /\ q.done = 1  BY <1>4
<1>10. InFrame(t, q)  BY <1>4, <1>7, <1>8, <1>9 DEF InFrame, F
<1> QED  BY <1>6, <1>7, <1>10

\* One byte more of a frame.
LEMMA FrameGrows ==
  ASSUME NEW c \in ByteRange, NEW n \in 1 .. Frame - 1
  PROVE  LET F == FrameOf(c)
         IN  /\ SubSeq(F, 1, n) \in Seq(ByteRange) /\ Len(SubSeq(F, 1, n)) = n
             /\ SubSeq(F, 1, n + 1) = Append(SubSeq(F, 1, n), F[n + 1])
             /\ SubSeq(F, 1, n + 1) \in Seq(ByteRange) /\ Len(SubSeq(F, 1, n + 1)) = n + 1
<1> DEFINE F == FrameOf(c)
<1>1. F \in Seq(ByteRange) /\ Len(F) = Frame  BY FrameIs
<1> HIDE DEF F
<1>2. 1 \in 1 .. Len(F) /\ n + 1 \in 1 .. Len(F) /\ (n + 1) - 1 = n /\ n \in Int /\ 1 \in Int
      /\ n + 1 \in Int /\ 1 <= n /\ n - 1 + 1 = n /\ 1 <= n + 1 /\ (n + 1) - 1 + 1 = n + 1
  BY <1>1, Numbers
<1>3. \A i \in 1 .. n + 1 : F[i] \in ByteRange
  <2>1. \A i \in 1 .. n + 1 : i \in 1 .. Len(F)  BY <1>1, Numbers
  <2> QED  BY <1>1, <2>1, ElementOfSeq
<1>4. \A i \in 1 .. n : F[i] \in ByteRange
  <2>1. \A i \in 1 .. n : i \in 1 .. n + 1  BY <1>2
  <2> QED  BY <1>3, <2>1
<1>5. SubSeq(F, 1, n) \in Seq(ByteRange) /\ Len(SubSeq(F, 1, n)) = n
  BY <1>2, <1>4, SubSeqProperties
<1>6. SubSeq(F, 1, n + 1) \in Seq(ByteRange) /\ Len(SubSeq(F, 1, n + 1)) = n + 1
  BY <1>2, <1>3, SubSeqProperties
<1>7. SubSeq(F, 1, n + 1) = Append(SubSeq(F, 1, n), F[n + 1])
  <2>1. n + 1 \in 1 .. Len(F)  BY <1>2
  <2>2. SubSeq(F, 1, n + 1) = SubSeq(F, 1, (n + 1) - 1) \o <<F[n + 1]>>
    BY <1>1, <1>2, <2>1, SubSeqRecursiveSecond
  <2>3. F[n + 1] \in ByteRange  BY <1>1, <2>1, ElementOfSeq
  <2>4. Append(SubSeq(F, 1, n), F[n + 1]) = SubSeq(F, 1, n) \o <<F[n + 1]>>
    BY <1>5, <2>3, AppendIsConcat
  <2> QED  BY <1>2, <2>2, <2>4
<1> QED  BY <1>5, <1>6, <1>7 DEF F

LEMMA HuntSecond ==
  ASSUME NEW p \in Places, NEW q \in Places, NEW b, NEW r \in RxTypes,
         InFrame(r, p), FrameByte(p, b, q), p.done = 1
  PROVE  InFrame(RxByte(r, b), q) /\ Keeps(RxByte(r, b), r)
<1> DEFINE F == FrameOf(Count(p.f))
           t == Hunting(r, "collect", Append(r.buf, b))
<1>1. F[2] = Sync1 /\ Count(p.f) \in ByteRange  BY PlaceIs, FrameIs
<1>2. b = F[2]  BY DEF FrameByte
<1>3. Frame > 2 /\ 1 \in 1 .. Frame - 1 /\ 1 + 1 = 2  BY Numbers
<1>4. q.f = p.f /\ q.done = 2  BY <1>3 DEF FrameByte
<1>5. r.buf = SubSeq(F, 1, 1) /\ r.state = "sync1"  BY DEF InFrame
<1>6. SubSeq(F, 1, 2) = Append(r.buf, b) /\ SubSeq(F, 1, 2) \in Seq(ByteRange)
  BY <1>1, <1>2, <1>3, <1>5, FrameGrows
<1> HIDE DEF F
<1>7. RxByte(r, b) = t  BY <1>1, <1>2, <1>5 DEF RxByte, Hunting
<1>8. Append(r.buf, b) \in Seq(ByteRange)  BY <1>6
<1>9. Keeps(t, r) /\ t.state = "collect" /\ t.buf = Append(r.buf, b)
  <2>1. "collect" \in {"sync0", "sync1", "collect"}  OBVIOUS
  <2> QED  BY <1>8, <2>1, HuntingKeeps, Zenon
<1>10. q.done # 0 /\ q.done # 1  BY <1>4
<1> HIDE DEF t
<1> QED  BY <1>4, <1>6, <1>7, <1>9, <1>10 DEF InFrame, F

LEMMA HuntMore ==
  ASSUME NEW p \in Places, NEW q \in Places, NEW b, NEW r \in RxTypes,
         InFrame(r, p), FrameByte(p, b, q), p.done >= 2, p.done + 1 < Frame
  PROVE  InFrame(RxByte(r, b), q) /\ Keeps(RxByte(r, b), r)
<1> DEFINE F == FrameOf(Count(p.f))
           n == p.done
           t == Hunting(r, "collect", Append(r.buf, b))
<1>1. Count(p.f) \in ByteRange /\ n \in 1 .. Frame - 1  BY PlaceIs, Numbers
<1>2. b = F[n + 1]  BY DEF FrameByte
<1>3. q.f = p.f /\ q.done = n + 1  BY Numbers DEF FrameByte
<1>4. r.buf = SubSeq(F, 1, n) /\ r.state = "collect"
  <2>1. n # 0 /\ n # 1  OBVIOUS
  <2> QED  BY <2>1 DEF InFrame
<1>5. /\ SubSeq(F, 1, n + 1) = Append(r.buf, b) /\ SubSeq(F, 1, n + 1) \in Seq(ByteRange)
      /\ Len(SubSeq(F, 1, n + 1)) = n + 1
  BY <1>1, <1>2, <1>4, FrameGrows
<1> HIDE DEF F
<1>6. t = [r EXCEPT !.buf = Append(@, b)]  BY <1>4 DEF RxTypes, Hunting
<1>7. RxByte(r, b) = IF Len(t.buf) < FrameLen THEN t ELSE CompleteFrame(t)
  BY <1>4, <1>6 DEF RxByte
<1>8. Keeps(t, r) /\ t.state = "collect" /\ t.buf = Append(r.buf, b)
  <2>1. Append(r.buf, b) \in Seq(ByteRange)  BY <1>5
  <2>2. "collect" \in {"sync0", "sync1", "collect"}  OBVIOUS
  <2> QED  BY <2>1, <2>2, HuntingKeeps, Zenon
<1> HIDE DEF t
<1>9. RxByte(r, b) = t
  <2>1. Len(t.buf) < FrameLen
    <3>1. n + 1 < FrameLen  BY BridgeAssumption
    <3> QED  BY <1>5, <1>8, <3>1
  <2> QED  BY <1>7, <2>1
<1>10. q.done # 0 /\ q.done # 1  BY <1>1, <1>3
<1> QED  BY <1>3, <1>5, <1>8, <1>9, <1>10 DEF InFrame, F

\* A byte of a frame that is not its last.
LEMMA HuntGoesOn ==
  ASSUME NEW p \in Places, NEW q \in Places, NEW b, NEW r \in RxTypes,
         InFrame(r, p), FrameByte(p, b, q), p.done + 1 < Frame
  PROVE  InFrame(RxByte(r, b), q) /\ Keeps(RxByte(r, b), r)
<1>1. p.done \in 0 .. Frame - 1  BY PlaceIs
<1>2. p.done = 0 \/ p.done = 1 \/ p.done >= 2  BY <1>1, Numbers
<1> QED  BY <1>2, HuntFirst, HuntSecond, HuntMore

\* The counter of a frame is the next one after that of the frame before.
LEMMA CountsOn ==
  ASSUME NEW f \in Nat, f > 0
  PROVE  Count(f) = (CountBefore(f) + 1) % Bytes
<1> DEFINE q == (f - 1) \div Bytes
           m == (f - 1) % Bytes
<1>1. Bytes \in Nat \ {0} /\ f - 1 \in Nat  BY Numbers
<1>2. q \in Nat /\ m \in 0 .. Bytes - 1 /\ f - 1 = Bytes * q + m  BY <1>1, DivMod
<1>3. CountBefore(f) = m  BY DEF CountBefore
<1> HIDE DEF q, m
<1>4. m + 1 \in Nat /\ f = (m + 1) + Bytes * q  BY <1>1, <1>2
<1>5. ((m + 1) + Bytes * q) % Bytes = (m + 1) % Bytes  BY <1>1, <1>2, <1>4, WholeLaps
<1> QED  BY <1>3, <1>4, <1>5 DEF Count

\* check_frame, of a frame that arrived as it was sent.
LEMMA FrameIsGood ==
  ASSUME NEW c \in ByteRange, NEW u \in RxTypes, u.buf = FrameOf(c)
  PROVE  LET v == CheckFrame(u)
         IN  /\ v \in RxTypes /\ v.have = TRUE /\ v.last = c
             /\ v.snapshot = FrameOf(c) /\ v.bridge = u.bridge /\ v.whole = u.whole
             /\ Clean(u) /\ (u.have => c = (u.last + 1) % Bytes) => Clean(v)
<1> DEFINE v == CheckFrame(u)
           gap == u.gaps \/ (u.have /\ c # (u.last + 1) % Bytes)
           w == TakeCounter(u, c)
           wrong == \E i \in 1 .. PayloadBytes : u.buf[3 + i] # PayloadByte(c, i - 1)
           x == [w EXCEPT !.payload = @ \/ wrong, !.snapshot = u.buf]
<1>1. /\ FrameOf(c)[3] = c
      /\ \A i \in 1 .. PayloadBytes : FrameOf(c)[3 + i] = PayloadByte(c, i - 1)
      /\ Checksum(SubSeq(FrameOf(c), 1, Frame - 2)) = SubSeq(FrameOf(c), Frame - 1, Frame)
  BY FrameIs
<1>2. FrameLen = Frame /\ c \in Nat  BY Numbers, BridgeAssumption
<1>3. wrong = FALSE  BY <1>1
<1>4. u.buf[3] = c  BY <1>1
<1>5. Checksum(SubSeq(u.buf, 1, FrameLen - 2)) = SubSeq(u.buf, FrameLen - 1, FrameLen)
  BY <1>1, <1>2
<1>6. v = x
  <2> HIDE DEF w
  <2> QED  BY <1>4, <1>5 DEF CheckFrame, w
<1>7. w = [u EXCEPT !.gaps = gap, !.have = TRUE, !.last = c]
  BY DEF TakeCounter, RxTypes
<1>8. gap \in BOOLEAN  OBVIOUS
<1>9. Clean(u) /\ (u.have => c = (u.last + 1) % Bytes) => gap = FALSE
  <2> SUFFICES ASSUME Clean(u), u.have => c = (u.last + 1) % Bytes PROVE gap = FALSE
    OBVIOUS
  <2>1. (u.have /\ c # (u.last + 1) % Bytes) = FALSE  OBVIOUS
  <2>2. u.gaps = FALSE  BY DEF Clean, RxTypes
  <2> QED  BY <2>1, <2>2
<1> HIDE DEF v, wrong, w, gap
<1>10. /\ w \in RxTypes /\ w.have = TRUE /\ w.last = c /\ w.bridge = u.bridge
       /\ w.whole = u.whole /\ w.gaps = gap
       /\ w.crc = u.crc /\ w.resyncs = u.resyncs /\ w.payload = u.payload /\ w.isotp = u.isotp
  BY <1>2, <1>7, <1>8 DEF RxTypes
<1>11. x = [w EXCEPT !.payload = w.payload, !.snapshot = u.buf]
  <2>1. (w.payload \/ FALSE) = w.payload  BY <1>10 DEF RxTypes
  <2> QED  BY <1>3, <2>1
<1> HIDE DEF x
<1>12. u.buf \in Seq(ByteRange)  BY RxIs
<1>13. /\ x \in RxTypes /\ x.have = TRUE /\ x.last = c /\ x.bridge = u.bridge
       /\ x.whole = u.whole /\ x.snapshot = u.buf
  BY <1>10, <1>11, <1>12 DEF RxTypes
<1>14. /\ x.gaps = gap /\ x.crc = u.crc /\ x.resyncs = u.resyncs /\ x.payload = u.payload
       /\ x.isotp = u.isotp
  BY <1>10, <1>11, <1>12 DEF RxTypes
<1>15. Clean(u) /\ gap = FALSE => Clean(x)  BY <1>14 DEF Clean
<1> QED  BY <1>6, <1>9, <1>13, <1>15 DEF v

\* The last byte of a frame.
LEMMA HuntEnds ==
  ASSUME NEW p \in Places, NEW q \in Places, NEW b, NEW r \in RxTypes,
         InFrame(r, p), FrameByte(p, b, q), p.done + 1 = Frame
  PROVE  InFrame(RxByte(r, b), q) /\ Takes(RxByte(r, b), r, p, q)
<1> DEFINE c == Count(p.f)
           F == FrameOf(c)
           n == p.done
           t == [r EXCEPT !.buf = Append(@, b)]
           cut == t.isotp \/ t.bridge # 0
           u == [t EXCEPT !.isotp = @ \/ t.bridge # 0, !.bridge = 0]
           v == CheckFrame(u)
           x == [v EXCEPT !.state = "sync0", !.buf = <<>>]
<1>1. c \in ByteRange /\ n \in 1 .. Frame - 1 /\ n >= 2  BY PlaceIs, Numbers
<1>2. b = F[n + 1]  BY DEF FrameByte
<1>3. q.f = p.f + 1 /\ q.done = 0  BY Numbers DEF FrameByte
<1>4. r.buf = SubSeq(F, 1, n) /\ r.state = "collect"
  <2>1. n # 0 /\ n # 1  BY <1>1
  <2> QED  BY <2>1 DEF InFrame
<1>5. F \in Seq(ByteRange) /\ Len(F) = Frame  BY <1>1, FrameIs
<1>6. F = Append(r.buf, b)
  <2>1. SubSeq(F, 1, n + 1) = Append(r.buf, b)  BY <1>1, <1>2, <1>4, FrameGrows
  <2>2. SubSeq(F, 1, Len(F)) = F  BY <1>5, SubSeqFull
  <2>3. n + 1 = Len(F)  BY <1>5
  <2> QED  BY <2>1, <2>2, <2>3
<1> HIDE DEF F
<1>7. /\ t \in RxTypes /\ t.state = r.state /\ t.buf = F /\ t.have = r.have
      /\ t.last = r.last /\ t.bridge = r.bridge /\ t.whole = r.whole
  BY <1>4, <1>5, <1>6 DEF RxTypes
<1>8. Clean(r) => Clean(t)  BY <1>4 DEF Clean, RxTypes
<1>9. RxByte(r, b) = IF Len(t.buf) < FrameLen THEN t ELSE CompleteFrame(t)
  BY <1>4 DEF RxByte
<1> HIDE DEF t
<1>10. u = [t EXCEPT !.isotp = cut, !.bridge = 0] /\ cut \in BOOLEAN  BY <1>7 DEF RxTypes
<1>11. Clean(t) /\ t.bridge = 0 => cut = FALSE
  <2> SUFFICES ASSUME Clean(t), t.bridge = 0 PROVE cut = FALSE  OBVIOUS
  <2>1. t.isotp = FALSE  BY <1>7 DEF Clean, RxTypes
  <2>2. (t.bridge # 0) = FALSE  OBVIOUS
  <2> QED  BY <2>1, <2>2
<1>12. CompleteFrame(t) = x  BY DEF CompleteFrame, x, v, u
<1> HIDE DEF u, cut
<1>13. /\ u \in RxTypes /\ u.buf = F /\ u.have = r.have /\ u.last = r.last
       /\ u.bridge = 0 /\ u.whole = r.whole /\ u.isotp = cut
       /\ u.gaps = t.gaps /\ u.crc = t.crc /\ u.resyncs = t.resyncs /\ u.payload = t.payload
  BY <1>7, <1>10 DEF RxTypes
<1>14. Clean(t) /\ cut = FALSE => Clean(u)  BY <1>13 DEF Clean
<1>15. /\ v \in RxTypes /\ v.have = TRUE /\ v.last = c
       /\ v.snapshot = F /\ v.bridge = 0 /\ v.whole = r.whole
       /\ Clean(u) /\ (r.have => c = (r.last + 1) % Bytes) => Clean(v)
  <2> HIDE DEF v, c
  <2>1. u.buf = FrameOf(c)  BY <1>13 DEF F
  <2>2. /\ v \in RxTypes /\ v.have = TRUE /\ v.last = c
        /\ v.snapshot = FrameOf(c) /\ v.bridge = u.bridge /\ v.whole = u.whole
        /\ Clean(u) /\ (u.have => c = (u.last + 1) % Bytes) => Clean(v)
    BY <1>1, <1>13, <2>1, FrameIsGood DEF v
  <2> QED  BY <1>13, <2>2 DEF F
<1>16. RxByte(r, b) = x
  <2>1. ~(Len(t.buf) < FrameLen)  BY <1>5, <1>7, Numbers, BridgeAssumption
  <2> QED  BY <1>9, <1>12, <2>1
<1> HIDE DEF v, c
<1>17. <<>> \in Seq(ByteRange)  OBVIOUS
<1>18. /\ x \in RxTypes /\ x.state = "sync0" /\ x.buf = <<>> /\ x.have = TRUE /\ x.last = c
       /\ x.snapshot = F /\ x.bridge = 0 /\ x.whole = r.whole
  BY <1>15, <1>17 DEF RxTypes
<1>19. Clean(v) => Clean(x)  BY <1>15 DEF Clean, RxTypes
<1> HIDE DEF x
<1>20. InFrame(x, q)
  <2>1. SubSeq(FrameOf(Count(q.f)), 1, q.done) = <<>>  BY <1>3, SubSeqEmpty
  <2> QED  BY <1>3, <1>18, <2>1 DEF InFrame
<1>21. Clean(r) /\ r.bridge = 0 /\ (r.have => c = (r.last + 1) % Bytes) => Clean(x)
  BY <1>7, <1>8, <1>11, <1>14, <1>15, <1>19
<1>22. Takes(x, r, p, q)  BY <1>3, <1>18, <1>21 DEF Takes, F, c
<1> QED  BY <1>16, <1>20, <1>22

\* A byte of a frame.
LEMMA HearsFrame ==
  ASSUME NEW p \in Places, NEW q \in Places, NEW b, NEW r,
         Follows(r, p), FrameByte(p, b, q)
  PROVE  Follows(RxByte(r, b), q)
<1> DEFINE t == RxByte(r, b)
<1>1. /\ r \in RxTypes /\ InFrame(r, p) /\ r.have = (p.f > 0) /\ r.last = CountBefore(p.f)
      /\ r.bridge = p.sent /\ r.whole = p.whole /\ Clean(r)
      /\ r.snapshot = IF p.f = 0 THEN <<>> ELSE FrameOf(CountBefore(p.f))
      /\ p.sent = 0 /\ q.sent = 0 /\ q.whole = p.whole
  BY DEF Follows, FrameByte
<1>2. CASE p.done + 1 < Frame
  <2>1. InFrame(t, q) /\ Keeps(t, r)  BY <1>1, <1>2, HuntGoesOn
  <2> HIDE DEF t
  <2>2. q.f = p.f  BY <1>2, PlaceIs, Numbers DEF FrameByte
  <2>3. /\ t \in RxTypes /\ t.have = r.have /\ t.last = r.last /\ t.bridge = r.bridge
        /\ t.whole = r.whole /\ t.snapshot = r.snapshot /\ Clean(t)
    BY <1>1, <2>1 DEF Keeps
  <2>4. t.have = (q.f > 0)  BY <1>1, <2>2, <2>3, Zenon
  <2> QED  BY <1>1, <2>1, <2>2, <2>3, <2>4 DEF Follows, t, InFrame
<1>3. CASE p.done + 1 = Frame
  <2>1. InFrame(t, q) /\ Takes(t, r, p, q)  BY <1>1, <1>3, HuntEnds
  <2> HIDE DEF t
  <2>2. p.f \in Nat  BY PlaceIs
  <2>3. r.have => Count(p.f) = (r.last + 1) % Bytes  BY <1>1, <2>2, CountsOn
  <2>4. /\ t \in RxTypes /\ q.f = p.f + 1 /\ t.have = TRUE /\ t.last = Count(p.f)
        /\ t.snapshot = FrameOf(Count(p.f)) /\ t.bridge = 0 /\ t.whole = r.whole /\ Clean(t)
    BY <1>1, <2>1, <2>3 DEF Takes
  <2>5. q.f > 0 /\ q.f # 0 /\ CountBefore(q.f) = Count(p.f)
    <3>1. q.f > 0 /\ q.f # 0 /\ q.f - 1 = p.f  BY <2>2, <2>4
    <3> QED  BY <3>1 DEF CountBefore, Count
  <2>6. t.have = (q.f > 0)
    <3>1. (q.f > 0) = TRUE  BY <2>5
    <3> QED  BY <2>4, <3>1, Zenon
  <2> QED  BY <1>1, <2>1, <2>4, <2>5, <2>6 DEF Follows, t
<1> QED  BY <1>2, <1>3 DEF FrameByte

\* A byte of a burst: it cannot be taken for the first of a frame.
LEMMA HearsBurst ==
  ASSUME NEW p \in Places, NEW q \in Places, NEW b, NEW r,
         Follows(r, p), BurstByte(p, b, q)
  PROVE  Follows(RxByte(r, b), q)
<1>1. /\ r \in RxTypes /\ r.state = "sync0" /\ r.bridge = p.sent /\ r.whole = p.whole
      /\ p.done = 0 /\ b = BridgeByteAt(p.sent) /\ q.f = p.f /\ q.done = 0 /\ Clean(r)
  BY DEF Follows, InFrame, BurstByte
<1>2. b # Sync0 /\ BurstBytes = Burst /\ p.sent \in Nat
  <2>1. p.sent \in Nat  BY PlaceIs
  <2>2. p.sent % Half \in 0 .. Half - 1  BY <2>1, Numbers
  <2> QED  BY <1>1, <2>1, <2>2, Numbers, BridgeAssumption DEF BridgeByteAt
<1>3. RxByte(r, b) = BridgeByte(r, b)  BY <1>1, <1>2 DEF RxByte
<1>4. CASE p.sent + 1 < Burst
  <2> DEFINE t == [r EXCEPT !.bridge = @ + 1]
  <2>1. q.sent = p.sent + 1 /\ q.whole = p.whole  BY <1>2, <1>4 DEF BurstByte
  <2>2. RxByte(r, b) = t
    <3>1. ~(r.bridge + 1 >= BurstBytes)  BY <1>1, <1>2, <1>4, BurstIs
    <3> QED  BY <1>1, <1>3, <3>1 DEF BridgeByte
  <2>3. /\ t \in RxTypes /\ t.state = r.state /\ t.buf = r.buf /\ t.have = r.have
        /\ t.last = r.last /\ t.bridge = q.sent /\ t.whole = r.whole
        /\ t.snapshot = r.snapshot
    BY <1>1, <2>1 DEF RxTypes
  <2>4. Clean(t)  BY <1>1 DEF Clean, RxTypes
  <2> HIDE DEF t
  <2> QED  BY <1>1, <2>1, <2>2, <2>3, <2>4 DEF Follows, InFrame
<1>5. CASE p.sent + 1 = Burst
  <2> DEFINE t == [r EXCEPT !.bridge = 0, !.whole = ~@]
  <2>1. q.sent = 0 /\ q.whole = ~p.whole  BY <1>2, <1>5 DEF BurstByte
  <2>2. RxByte(r, b) = t
    <3>1. r.bridge + 1 >= BurstBytes  BY <1>1, <1>2, <1>5, BurstIs
    <3> QED  BY <1>1, <1>3, <3>1 DEF BridgeByte
  <2>3. /\ t \in RxTypes /\ t.state = r.state /\ t.buf = r.buf /\ t.have = r.have
        /\ t.last = r.last /\ t.bridge = q.sent /\ t.whole = ~r.whole
        /\ t.snapshot = r.snapshot
    BY <1>1, <2>1 DEF RxTypes
  <2>4. Clean(t)  BY <1>1 DEF Clean, RxTypes
  <2> HIDE DEF t
  <2> QED  BY <1>1, <2>1, <2>2, <2>3, <2>4 DEF Follows, InFrame
<1> QED  BY <1>4, <1>5 DEF BurstByte

\* The verifier follows the sender.
LEMMA Hears ==
  ASSUME NEW p \in Places, NEW q \in Places, NEW b, NEW r, Follows(r, p), Goes(p, b, q)
  PROVE  Follows(RxByte(r, b), q)
<1> QED  BY HearsFrame, HearsBurst DEF Goes

(***************************************************************************)
(* The verifier, cleared in the middle of things.                          *)
(***************************************************************************)

\* A burst is a whole number of the pattern's rounds, so that the count set
\* right within a round stays below a burst.
LEMMA RoundsFit ==
  ASSUME NEW k \in 0 .. BurstBytes - 1, NEW b \in Nat
  PROVE  (k \div Half) * Half + ((b + 1) % Half) \in 0 .. BurstBytes - 1
<1> DEFINE m == BurstBytes \div Half
           q == k \div Half
           r == (b + 1) % Half
<1>1. Half \in Nat \ {0} /\ BurstBytes \in Nat /\ k \in Nat /\ BurstBytes % Half = 0
      /\ b + 1 \in Nat
  BY Sizes, ReceiverAssumption
<1>2. /\ m \in Nat /\ BurstBytes = Half * m + (BurstBytes % Half)
      /\ q \in Nat /\ k % Half \in 0 .. Half - 1 /\ k = Half * q + (k % Half)
      /\ r \in 0 .. Half - 1
  <2>1. m \in Nat /\ BurstBytes = Half * m + (BurstBytes % Half)  BY <1>1, DivMod
  <2>2. q \in Nat /\ k % Half \in 0 .. Half - 1 /\ k = Half * q + (k % Half)  BY <1>1, DivMod
  <2>3. r \in 0 .. Half - 1  BY <1>1, DivMod
  <2> QED  BY <2>1, <2>2, <2>3
<1> HIDE DEF m, q, r
<1>3. BurstBytes = Half * m /\ Half * q <= k /\ Half * q \in Nat /\ Half * m \in Nat
  BY <1>1, <1>2
<1>4. m - q >= 1
  <2>1. Half * (m - q) = Half * m - Half * q  BY <1>1, <1>2
  <2>2. Half * (m - q) > 0  BY <1>3, <2>1
  <2> QED  BY <1>1, <1>2, <2>2
<1>5. Half * m = Half * q + Half + Half * (m - q - 1) /\ Half * (m - q - 1) \in Nat
  BY <1>1, <1>2, <1>4
<1>6. q * Half = Half * q  BY <1>1, <1>2
<1>7. q * Half + r \in 0 .. BurstBytes - 1  BY <1>1, <1>2, <1>3, <1>5, <1>6
<1> QED  BY <1>7 DEF q, r

\* What a bridge byte makes of the verifier's count, and of the parity.
CountAfter(k, b) ==
  IF b # k % Half THEN (k \div Half) * Half + ((b + 1) % Half)
  ELSE IF k + 1 >= BurstBytes THEN 0 ELSE k + 1

WholeAfter(k, w, b) == IF b = k % Half /\ k + 1 >= BurstBytes THEN ~w ELSE w

\* The count k of the verifier, of parity w, against the s bytes sent of a burst
\* of parity g: ahead in step with it, or behind once it has turned over.
InCount(k, w, s, g) ==
  /\ k \in 0 .. Burst - 1
  /\ \/ w = g /\ (s = 0 \/ (k % Half = s % Half /\ k >= s))
     \/ w = ~g /\ s > 0 /\ k \div Half < s \div Half

LEMMA Successor ==
  ASSUME NEW H \in Nat, H > 1, NEW n \in Nat
  PROVE  /\ n % H \in 0 .. H - 1 /\ n \div H \in Nat /\ n = H * (n \div H) + (n % H)
         /\ n % H # H - 1 =>
              ((n + 1) % H = (n % H) + 1 /\ (n + 1) \div H = n \div H)
         /\ n % H = H - 1 =>
              ((n + 1) % H = 0 /\ (n + 1) \div H = (n \div H) + 1)
<1> DEFINE q == n \div H
           r == n % H
<1>1. H \in Nat \ {0} /\ H > 0  OBVIOUS
<1>2. q \in Nat /\ r \in 0 .. H - 1 /\ n = H * q + r  BY <1>1, DivMod
<1>3. ASSUME r # H - 1 PROVE (n + 1) % H = r + 1 /\ (n + 1) \div H = q
  <2> HIDE DEF q, r
  <2>1. n + 1 = H * q + (r + 1) /\ r + 1 \in 0 .. H - 1
    <3>1. H * q \in Nat  BY <1>1, <1>2
    <3> QED  BY <1>2, <1>3, <3>1
  <2>2. (H * q + (r + 1)) \div H = q /\ (H * q + (r + 1)) % H = r + 1
    BY <1>1, <1>2, <2>1, DivModIs
  <2> QED  BY <2>1, <2>2
<1>4. ASSUME r = H - 1 PROVE (n + 1) % H = 0 /\ (n + 1) \div H = q + 1
  <2> HIDE DEF q, r
  <2>1. n + 1 = H * (q + 1) + 0 /\ 0 \in 0 .. H - 1 /\ q + 1 \in Nat
    <3>1. H * q \in Nat /\ H * (q + 1) = H * q + H  BY <1>1, <1>2
    <3> QED  BY <1>1, <1>2, <1>4, <3>1
  <2>2. (H * (q + 1) + 0) \div H = q + 1 /\ (H * (q + 1) + 0) % H = 0
    BY <1>1, <2>1, DivModIs
  <2> QED  BY <2>1, <2>2
<1> QED  BY <1>2, <1>3, <1>4

\* Bursts are whole rounds of the pattern.
LEMMA Rounds ==
  ASSUME NEW k \in 0 .. Burst - 1
  PROVE  /\ Half \in Nat /\ Half > 1 /\ BurstBytes = Burst /\ Burst \in Nat /\ Burst >= Half
         /\ k \in Nat /\ k % Half \in 0 .. Half - 1 /\ k \div Half \in Nat
         /\ k = Half * (k \div Half) + (k % Half)
         /\ k % Half # Half - 1 => k + 1 < Burst
         /\ (k + 1 = Burst => k % Half = Half - 1)
<1> DEFINE m == BurstBytes \div Half
           q == k \div Half
           r == k % Half
<1>1. Half \in Nat \ {0} /\ Half > 1 /\ BurstBytes \in Nat /\ BurstBytes % Half = 0
      /\ BurstBytes = Burst /\ k \in Nat /\ BurstBytes # 0
  BY Sizes, ReceiverAssumption, BridgeAssumption, HandBackAssumption
<1>2. /\ m \in Nat /\ BurstBytes = Half * m + (BurstBytes % Half)
      /\ q \in Nat /\ r \in 0 .. Half - 1 /\ k = Half * q + r
  <2>1. m \in Nat /\ BurstBytes = Half * m + (BurstBytes % Half)  BY <1>1, DivMod
  <2>2. q \in Nat /\ r \in 0 .. Half - 1 /\ k = Half * q + r  BY <1>1, DivMod
  <2> QED  BY <2>1, <2>2
<1> HIDE DEF m, q, r
<1>3. Burst = Half * m /\ m >= 1
  <2>1. Burst = Half * m  BY <1>1, <1>2
  <2>2. m # 0  BY <1>1, <1>2, <2>1
  <2> QED  BY <1>2, <2>1, <2>2
<1>4. Burst = Half + Half * (m - 1) /\ Half * (m - 1) \in Nat  BY <1>1, <1>2, <1>3
<1>5. r # Half - 1 => k + 1 < Burst
  <2> SUFFICES ASSUME r # Half - 1 PROVE k + 1 < Burst  OBVIOUS
  <2>1. Half * (m - q) = Half * m - Half * q /\ Half * q \in Nat  BY <1>1, <1>2
  <2>2. Half * (m - q) > 0 /\ m - q \in Int  BY <1>1, <1>2, <1>3, <2>1
  <2>3. Half * (m - q) >= Half  BY <1>1, <2>2, NoMultiple
  <2> QED  BY <1>1, <1>2, <1>3, <2>1, <2>3
<1>6. k + 1 = Burst => r = Half - 1  BY <1>1, <1>5
<1> QED  BY <1>1, <1>2, <1>4, <1>5, <1>6 DEF q, r

LEMMA CountsTurn ==
  ASSUME NEW k, NEW w \in BOOLEAN, NEW s \in 0 .. Burst - 1, NEW g \in BOOLEAN,
         InCount(k, w, s, g), NEW b, b = s % Half
  PROVE  /\ s + 1 < Burst => InCount(CountAfter(k, b), WholeAfter(k, w, b), s + 1, g)
         /\ s + 1 = Burst => InCount(CountAfter(k, b), WholeAfter(k, w, b), 0, ~g)
<1> DEFINE a == k \div Half
           i == k % Half
           c == s \div Half
           j == s % Half
           k2 == CountAfter(k, b)
           w2 == WholeAfter(k, w, b)
<1>1. k \in 0 .. Burst - 1  BY DEF InCount
<1>2. /\ Half \in Nat /\ Half > 1 /\ BurstBytes = Burst /\ Burst \in Nat /\ Burst >= Half
      /\ k \in Nat /\ i \in 0 .. Half - 1 /\ a \in Nat /\ k = Half * a + i
      /\ i # Half - 1 => k + 1 < Burst
      /\ k + 1 = Burst => i = Half - 1
  BY <1>1, Rounds
<1>3. /\ s \in Nat /\ j \in 0 .. Half - 1 /\ c \in Nat /\ s = Half * c + j
      /\ s + 1 = Burst => j = Half - 1
  BY Rounds
<1>4. /\ i # Half - 1 => (k + 1) % Half = i + 1 /\ (k + 1) \div Half = a
      /\ i = Half - 1 => (k + 1) % Half = 0 /\ (k + 1) \div Half = a + 1
      /\ j # Half - 1 => (s + 1) % Half = j + 1 /\ (s + 1) \div Half = c
      /\ j = Half - 1 => (s + 1) % Half = 0 /\ (s + 1) \div Half = c + 1
  BY <1>2, <1>3, Successor
<1>5. \/ w = g /\ (s = 0 \/ (i = j /\ k >= s))
      \/ w = ~g /\ s > 0 /\ a < c
  BY DEF InCount
<1>6. (b # i) => k2 = a * Half + ((b + 1) % Half) /\ w2 = w
  BY DEF CountAfter, WholeAfter
<1>7. (b = i /\ k + 1 < Burst) => k2 = k + 1 /\ w2 = w
  <2> SUFFICES ASSUME b = i, k + 1 < Burst PROVE k2 = k + 1 /\ w2 = w  OBVIOUS
  <2>1. ~(k + 1 >= BurstBytes)  BY <1>2
  <2>2. k2 = k + 1  BY <2>1 DEF CountAfter
  <2>3. w2 = w  BY <2>1, Zenon DEF WholeAfter
  <2> QED  BY <2>2, <2>3
<1>8. (b = i /\ k + 1 = Burst) => k2 = 0 /\ w2 = ~w
  <2> SUFFICES ASSUME b = i, k + 1 = Burst PROVE k2 = 0 /\ w2 = ~w  OBVIOUS
  <2>1. k + 1 >= BurstBytes  BY <1>2
  <2>2. k2 = 0  BY <2>1 DEF CountAfter
  <2>3. w2 = ~w  BY <2>1, Zenon DEF WholeAfter
  <2> QED  BY <2>2, <2>3
<1>9. b = j /\ s + 1 \in Nat /\ s + 1 # 0  BY <1>3
<1>10. b # i => k2 \in 0 .. Burst - 1 /\ k2 \div Half = a /\ k2 % Half = (s + 1) % Half
              /\ k2 = Half * a + ((s + 1) % Half)
  <2> SUFFICES ASSUME b # i
               PROVE  k2 \in 0 .. Burst - 1 /\ k2 \div Half = a /\ k2 % Half = (s + 1) % Half
                      /\ k2 = Half * a + ((s + 1) % Half)
    OBVIOUS
  <2> DEFINE r == (b + 1) % Half
  <2>1. r = (s + 1) % Half /\ r \in 0 .. Half - 1
    <3>1. j # Half - 1 => (j + 1) % Half = j + 1  BY <1>2, <1>3
    <3>2. j = Half - 1 => (j + 1) % Half = 0
      <4>1. Half % Half = 0  BY <1>2
      <4>2. j = Half - 1 => j + 1 = Half  BY <1>2, <1>3
      <4> QED  BY <4>1, <4>2
    <3> QED  BY <1>2, <1>3, <1>4, <1>9, <3>1, <3>2
  <2>2. k2 = a * Half + r  BY <1>6
  <2>3. k2 \in 0 .. Burst - 1
    <3>1. k \in 0 .. BurstBytes - 1 /\ b \in Nat  BY <1>1, <1>2, <1>3, <1>9
    <3>2. a * Half + r \in 0 .. BurstBytes - 1  BY <3>1, RoundsFit
    <3> QED  BY <1>2, <2>2, <3>2
  <2> HIDE DEF a, r, k2
  <2>4. a * Half = Half * a /\ Half > 0  BY <1>2
  <2>5. (Half * a + r) \div Half = a /\ (Half * a + r) % Half = r
    BY <1>2, <2>1, <2>4, DivModIs
  <2> QED  BY <2>1, <2>2, <2>3, <2>4, <2>5
<1>11. k + 1 < Burst \/ k + 1 = Burst  BY <1>1, <1>2
<1>12. s + 1 < Burst \/ s + 1 = Burst  BY <1>2
<1> HIDE DEF a, i, c, j, k2, w2
<1>13. SUFFICES /\ s + 1 < Burst => InCount(k2, w2, s + 1, g)
                /\ s + 1 = Burst => InCount(k2, w2, 0, ~g)
  BY DEF k2, w2
<1>14. CASE w = g /\ s = 0
  <2>1. c = 0 /\ j = 0 /\ b = 0
    <3>1. Half * c \in Nat  BY <1>2, <1>3
    <3>2. j = 0 /\ Half * c = 0  BY <1>3, <1>14, <3>1
    <3> QED  BY <1>2, <1>3, <1>9, <3>2
  <2>2. s + 1 = 1 /\ 1 < Burst /\ (s + 1) % Half = 1
    <3>1. j # Half - 1  BY <1>2, <2>1
    <3> QED  BY <1>2, <1>4, <1>14, <2>1, <3>1
  <2>3. w2 = w /\ k2 \in 0 .. Burst - 1 /\ k2 % Half = 1 /\ k2 >= 1
    <3>1. CASE b # i
      <4>1. Half * a \in Nat  BY <1>2
      <4> QED  BY <1>2, <1>6, <1>10, <2>2, <3>1, <4>1
    <3>2. CASE b = i
      <4>1. i # Half - 1 /\ k + 1 < Burst  BY <1>2, <2>1, <3>2
      <4> QED  BY <1>2, <1>4, <1>7, <2>1, <3>2, <4>1
    <3> QED  BY <3>1, <3>2
  <2>4. InCount(k2, w2, s + 1, g)  BY <1>14, <2>2, <2>3 DEF InCount
  <2> QED  BY <2>2, <2>4
<1>15. CASE w = g /\ i = j /\ k >= s
  <2>1. CASE k + 1 = Burst
    <3>1. k2 = 0 /\ w2 = ~w /\ i = Half - 1 /\ 0 \in 0 .. Burst - 1
      BY <1>2, <1>8, <1>9, <1>15, <2>1
    <3>2. ASSUME s + 1 = Burst PROVE InCount(k2, w2, 0, ~g)
      BY <1>15, <3>1 DEF InCount
    <3>3. ASSUME s + 1 < Burst PROVE InCount(k2, w2, s + 1, g)
      <4>1. (s + 1) \div Half = c + 1  BY <1>4, <1>15, <3>1
      <4>2. 0 \div Half = 0  BY <1>2
      <4>3. k2 \div Half < (s + 1) \div Half /\ s + 1 > 0  BY <1>3, <3>1, <4>1, <4>2
      <4> QED  BY <1>15, <3>1, <4>3 DEF InCount
    <3> QED  BY <3>2, <3>3
  <2>2. CASE k + 1 < Burst
    <3>1. k2 = k + 1 /\ w2 = w /\ s + 1 < Burst /\ k + 1 \in 0 .. Burst - 1 /\ k + 1 >= s + 1
      BY <1>2, <1>3, <1>7, <1>9, <1>15, <2>2
    <3>2. (k + 1) % Half = (s + 1) % Half  BY <1>4, <1>15
    <3>3. InCount(k2, w2, s + 1, g)  BY <1>15, <3>1, <3>2 DEF InCount
    <3> QED  BY <1>2, <1>3, <3>1, <3>3
  <2> QED  BY <1>11, <2>1, <2>2
<1>16. CASE w = ~g /\ s > 0 /\ a < c
  <2>1. w2 = w /\ k2 \in 0 .. Burst - 1 /\ k2 \div Half < (s + 1) \div Half
    <3>1. CASE b # i
      <4>1. (s + 1) \div Half >= c /\ (s + 1) \div Half \in Nat  BY <1>3, <1>4
      <4> QED  BY <1>2, <1>3, <1>6, <1>10, <1>16, <3>1, <4>1
    <3>2. CASE b = i
      <4>1. k + 1 < Burst
        <5>1. c = a + 1 + (c - a - 1) /\ c - a - 1 \in Nat  BY <1>2, <1>3, <1>16
        <5> DEFINE e == c - a - 1
        <5>2. e \in Nat /\ c = a + 1 + e  BY <5>1
        <5> HIDE DEF e
        <5>3. Half * c = Half * a + Half + Half * e /\ Half * e \in Nat /\ Half * a \in Nat
          BY <1>2, <5>2
        <5>4. k + 1 <= s  BY <1>2, <1>3, <5>3
        <5> QED  BY <1>2, <1>3, <5>4
      <4>2. k2 = k + 1 /\ w2 = w /\ k + 1 \in 0 .. Burst - 1  BY <1>2, <1>7, <3>2, <4>1
      <4>3. (k + 1) \div Half < (s + 1) \div Half
        BY <1>2, <1>3, <1>4, <1>9, <1>16, <3>2
      <4> QED  BY <4>2, <4>3
    <3> QED  BY <3>1, <3>2
  <2>2. s + 1 > 0  BY <1>3
  <2>3. InCount(k2, w2, s + 1, g)  BY <1>16, <2>1, <2>2 DEF InCount
  <2>4. InCount(k2, w2, 0, ~g)  BY <1>16, <2>1 DEF InCount
  <2> QED  BY <2>3, <2>4
<1> QED  BY <1>5, <1>14, <1>15, <1>16

LEMMA BridgeByteIs ==
  ASSUME NEW r \in RxTypes, NEW b \in Nat
  PROVE  LET s == BridgeByte(r, b)
         IN  /\ s \in RxTypes /\ s.state = r.state /\ s.buf = r.buf /\ s.snapshot = r.snapshot
             /\ s.bridge = CountAfter(r.bridge, b) /\ s.whole = WholeAfter(r.bridge, r.whole, b)
<1> DEFINE s == BridgeByte(r, b)
           k == r.bridge
<1>1. Half \in Nat /\ Half > 0 /\ BurstBytes \in Nat /\ k \in Nat
  BY Numbers, ReceiverAssumption, RxIs
<1>2. CASE b # k % Half
  <2> DEFINE e == (k \div Half) * Half + ((b + 1) % Half)
             t == [r EXCEPT !.isotp = TRUE, !.bridge = e]
  <2>1. e \in Nat
    <3>1. k \div Half \in Nat /\ (b + 1) % Half \in Nat  BY <1>1
    <3>2. (k \div Half) * Half \in Nat  BY <1>1, <3>1
    <3> QED  BY <3>1, <3>2
  <2>2. s = t  BY <1>2 DEF BridgeByte, BridgeByteAt
  <2>3. CountAfter(k, b) = e  BY <1>2 DEF CountAfter
  <2>4. WholeAfter(k, r.whole, b) = r.whole  BY <1>2, Zenon DEF WholeAfter
  <2> HIDE DEF s, e
  <2>5. /\ t \in RxTypes /\ t.state = r.state /\ t.buf = r.buf /\ t.snapshot = r.snapshot
        /\ t.bridge = e /\ t.whole = r.whole
    BY <2>1 DEF RxTypes
  <2> HIDE DEF t
  <2> QED  BY <2>2, <2>3, <2>4, <2>5 DEF s
<1>3. CASE b = k % Half /\ k + 1 >= BurstBytes
  <2> DEFINE t == [r EXCEPT !.bridge = 0, !.whole = ~@]
  <2>1. s = t  BY <1>3 DEF BridgeByte, BridgeByteAt
  <2>2. CountAfter(k, b) = 0  BY <1>3 DEF CountAfter
  <2>3. WholeAfter(k, r.whole, b) = ~r.whole  BY <1>3, Zenon DEF WholeAfter
  <2> HIDE DEF s
  <2>4. /\ t \in RxTypes /\ t.state = r.state /\ t.buf = r.buf /\ t.snapshot = r.snapshot
        /\ t.bridge = 0 /\ t.whole = ~r.whole
    BY DEF RxTypes
  <2> HIDE DEF t
  <2> QED  BY <2>1, <2>2, <2>3, <2>4 DEF s
<1>4. CASE b = k % Half /\ ~(k + 1 >= BurstBytes)
  <2> DEFINE t == [r EXCEPT !.bridge = @ + 1]
  <2>1. s = t  BY <1>4 DEF BridgeByte, BridgeByteAt
  <2>2. CountAfter(k, b) = k + 1  BY <1>4 DEF CountAfter
  <2>3. WholeAfter(k, r.whole, b) = r.whole  BY <1>4, Zenon DEF WholeAfter
  <2> HIDE DEF s
  <2>4. /\ t \in RxTypes /\ t.state = r.state /\ t.buf = r.buf /\ t.snapshot = r.snapshot
        /\ t.bridge = k + 1 /\ t.whole = r.whole
    BY <1>1 DEF RxTypes
  <2> HIDE DEF t
  <2> QED  BY <2>1, <2>2, <2>3, <2>4 DEF s
<1> QED  BY <1>2, <1>3, <1>4

\* The rest of a frame, heard from its byte d on by a verifier just cleared: each
\* byte moves the count within one round of the pattern, and the payload bytes,
\* which are consecutive, by one.
Wasted(d) ==
  IF d = 0 THEN 5 * (Half - 1) + (PayloadBytes - 1)
  ELSE IF d = 1 THEN 0
  ELSE IF d = 2 THEN Half - 1
  ELSE IF d = 3 THEN 2 * (Half - 1)
  ELSE IF d < Frame - 1 THEN 3 * (Half - 1) + (d - 4)
  ELSE 4 * (Half - 1) + (PayloadBytes - 1)

\* The count k is at most that, and in step with the payload.
InWaste(k, c, d) ==
  /\ k \in Nat /\ k <= Wasted(d)
  /\ d \in 4 .. 3 + PayloadBytes => k = 0 \/ k % Half = PayloadByte(c, d - 3)

LEMMA WasteIs ==
  ASSUME NEW d \in 0 .. Frame - 1
  PROVE  Wasted(d) \in Nat /\ Wasted(d) < Burst
<1>1. /\ Half \in Nat /\ Half > 1 /\ PayloadBytes \in Nat /\ PayloadBytes > 0
      /\ 5 * (Half - 1) + PayloadBytes <= Burst /\ Frame = 3 + PayloadBytes + 2 /\ Burst \in Nat
  BY Numbers, HandBackAssumption, BridgeAssumption, ReceiverAssumption
<1> QED  BY <1>1 DEF Wasted

LEMMA WasteGrows ==
  ASSUME NEW c \in ByteRange, NEW d \in 1 .. Frame - 1, NEW k, InWaste(k, c, d),
         NEW b, b = FrameOf(c)[d + 1], NEW e, e = IF d + 1 < Frame THEN d + 1 ELSE 0,
         NEW w \in BOOLEAN
  PROVE  /\ b \in Nat
         /\ b = Sync0 => InWaste(k, c, e)
         /\ InWaste(CountAfter(k, b), c, e) /\ WholeAfter(k, w, b) = w
<1> DEFINE H == Half - 1
           P == PayloadBytes
           k2 == CountAfter(k, b)
<1>1. /\ Half \in Nat /\ Half > 1 /\ P \in Nat /\ P > 0
      /\ 5 * H + P <= Burst /\ Frame = 3 + P + 2 /\ Burst \in Nat /\ BurstBytes = Burst
      /\ c \in Nat /\ Sync0 >= Half
  BY Numbers, HandBackAssumption, BridgeAssumption, ReceiverAssumption
<1>2. b \in Nat
  <2>1. FrameOf(c) \in Seq(ByteRange) /\ Len(FrameOf(c)) = Frame  BY FrameIs
  <2>2. d + 1 \in 1 .. Frame  BY <1>1
  <2>3. b \in ByteRange  BY <2>1, <2>2, ElementOfSeq
  <2> QED  BY <2>3, Numbers
<1>3. k \in Nat /\ k <= Wasted(d)  BY DEF InWaste
<1>4. e \in 0 .. Frame - 1 /\ e # 1  BY <1>1
<1>5. d \in 3 .. 2 + P =>
        /\ b = PayloadByte(c, d - 3) /\ b \in 0 .. Half - 1
        /\ (b + 1) % Half = PayloadByte(c, (d + 1) - 3) /\ e = d + 1
  <2> SUFFICES ASSUME d \in 3 .. 2 + P
               PROVE  /\ b = PayloadByte(c, d - 3) /\ b \in 0 .. Half - 1
                      /\ (b + 1) % Half = PayloadByte(c, (d + 1) - 3) /\ e = d + 1
    OBVIOUS
  <2> DEFINE i == d - 2
  <2>1. i \in 1 .. PayloadBytes /\ 3 + i = d + 1 /\ i - 1 = d - 3  BY <1>1
  <2> HIDE DEF i
  <2>2. FrameOf(c)[3 + i] = PayloadByte(c, i - 1)  BY <2>1, FrameIs
  <2>3. b = (c + (d - 3)) % Half  BY <2>1, <2>2 DEF PayloadByte
  <2> DEFINE n == c + (d - 3)
  <2>4. n \in Nat /\ c + ((d + 1) - 3) = n + 1  BY <1>1
  <2> HIDE DEF n
  <2>5. b = n % Half  BY <2>3 DEF n
  <2>6. /\ b \in 0 .. Half - 1
        /\ b # Half - 1 => (n + 1) % Half = b + 1
        /\ b = Half - 1 => (n + 1) % Half = 0
    <3>1. /\ n % Half \in 0 .. Half - 1
          /\ n % Half # Half - 1 => (n + 1) % Half = (n % Half) + 1
          /\ n % Half = Half - 1 => (n + 1) % Half = 0
      <4>1. n \in Nat /\ Half \in Nat /\ Half > 1  BY <1>1, <2>4
      <4> QED  BY <4>1, Successor
    <3> QED  BY <2>5, <3>1, Zenon
  <2>7. (b + 1) % Half = (n + 1) % Half
    <3>1. b # Half - 1 => (b + 1) % Half = b + 1  BY <1>1, <2>6
    <3>2. b = Half - 1 => (b + 1) % Half = 0
      <4>1. Half % Half = 0  BY <1>1
      <4>2. b = Half - 1 => b + 1 = Half  BY <1>1, <2>6
      <4> QED  BY <4>1, <4>2
    <3> QED  BY <2>6, <3>1, <3>2
  <2>8. PayloadByte(c, (d + 1) - 3) = (n + 1) % Half  BY <2>4 DEF PayloadByte
  <2>9. e = d + 1  BY <1>1
  <2> QED  BY <2>3, <2>6, <2>7, <2>8, <2>9 DEF PayloadByte
<1>6. Wasted(d) <= Wasted(e) /\ Wasted(d) \in Nat /\ Wasted(e) \in Nat /\ Wasted(e) < Burst
  <2>1. Wasted(d) <= Wasted(e)
    <3> HIDE DEF P
    <3> QED  BY <1>1 DEF Wasted, P
  <2>2. d \in 0 .. Frame - 1  BY <1>1
  <2> QED  BY <1>4, <2>1, <2>2, WasteIs
<1>7. ASSUME b = Sync0 PROVE InWaste(k, c, e)
  <2>1. d \notin 3 .. 2 + P  BY <1>1, <1>5, <1>7
  <2>2. e \notin 4 .. 3 + P  BY <1>1, <2>1
  <2> QED  BY <1>3, <1>6, <2>2 DEF InWaste
<1> DEFINE a == k \div Half
           i == k % Half
           j == (b + 1) % Half
<1>8. /\ a \in Nat /\ i \in 0 .. H /\ k = Half * a + i /\ j \in 0 .. H
      /\ i # H => (k + 1) % Half = i + 1
      /\ i = H => (k + 1) % Half = 0
  <2>1. b + 1 \in Nat  BY <1>2
  <2> QED  BY <1>1, <1>3, <2>1, Successor
<1>9. a * Half = Half * a /\ Half * a \in Nat  BY <1>1, <1>8
<1>10. k + 1 <= Burst
  <2>1. d \in 0 .. Frame - 1  BY <1>1
  <2>2. Wasted(d) < Burst  BY <2>1, WasteIs
  <2> QED  BY <1>1, <1>3, <1>6, <2>2
<1>11. b # i => k2 = Half * a + j /\ WholeAfter(k, w, b) = w
  <2> SUFFICES ASSUME b # i PROVE k2 = Half * a + j /\ WholeAfter(k, w, b) = w  OBVIOUS
  <2>1. k2 = a * Half + j  BY DEF CountAfter
  <2>2. WholeAfter(k, w, b) = w  BY Zenon DEF WholeAfter
  <2> QED  BY <1>9, <2>1, <2>2
<1>12. (b = i /\ k + 1 < Burst) => k2 = k + 1 /\ WholeAfter(k, w, b) = w
  <2> SUFFICES ASSUME b = i, k + 1 < Burst PROVE k2 = k + 1 /\ WholeAfter(k, w, b) = w
    OBVIOUS
  <2>1. ~(k + 1 >= BurstBytes)  BY <1>1, <1>3
  <2>2. k2 = k + 1  BY <2>1 DEF CountAfter
  <2>3. WholeAfter(k, w, b) = w  BY <2>1, Zenon DEF WholeAfter
  <2> QED  BY <2>2, <2>3
<1>13. /\ d \notin 4 .. 2 + P => Wasted(d) + H <= Wasted(e)
       /\ d \in 4 .. 2 + P => Wasted(d) + 1 <= Wasted(e) /\ H <= Wasted(e)
  <2> HIDE DEF P
  <2> QED  BY <1>1 DEF Wasted, P
<1> HIDE DEF a, i, j, k2
<1>14. k + 1 # Burst
  <2>1. Wasted(d) + 1 <= Wasted(e)  BY <1>1, <1>13, <1>6
  <2> QED  BY <1>3, <1>6, <2>1
<1>15. /\ k2 % Half = j /\ k2 <= k + H /\ k2 \in Nat /\ WholeAfter(k, w, b) = w
       /\ b = i => k2 = k + 1
  <2>1. CASE b # i
    <3>1. (Half * a + j) % Half = j
      <4>1. Half > 0 /\ j \in 0 .. Half - 1  BY <1>1, <1>8
      <4> QED  BY <1>1, <1>8, <4>1, DivModIs
    <3> QED  BY <1>1, <1>8, <1>9, <1>11, <2>1, <3>1
  <2>2. CASE b = i /\ k + 1 < Burst
    <3>1. (k + 1) % Half = j
      <4>1. i # H => (i + 1) % Half = i + 1  BY <1>1, <1>8
      <4>2. i = H => (i + 1) % Half = 0
        <5>1. Half % Half = 0  BY <1>1
        <5>2. i = H => i + 1 = Half  BY <1>1, <1>8
        <5> QED  BY <5>1, <5>2
      <4> QED  BY <1>8, <2>2, <4>1, <4>2 DEF j
    <3> QED  BY <1>1, <1>3, <1>12, <2>2, <3>1
  <2> QED  BY <1>1, <1>3, <1>10, <1>14, <2>1, <2>2
<1>16. k2 <= Wasted(e)
  <2>1. CASE d \notin 4 .. 2 + P  BY <1>1, <1>3, <1>6, <1>13, <1>15, <2>1
  <2>2. CASE d \in 4 .. 2 + P
    <3>1. k = 0 \/ i = PayloadByte(c, d - 3)
      <4>1. d \in 4 .. 3 + P  BY <1>1, <2>2
      <4> QED  BY <4>1 DEF InWaste, i
    <3>2. d \in 3 .. 2 + P  BY <1>1, <2>2
    <3>3. CASE k = 0  BY <1>1, <1>6, <1>13, <1>15, <2>2, <3>3
    <3>4. CASE i = PayloadByte(c, d - 3)
      <4>1. b = i  BY <1>5, <3>2, <3>4
      <4>2. k2 = k + 1  BY <1>15, <4>1
      <4> QED  BY <1>3, <1>6, <1>13, <2>2, <4>2
    <3> QED  BY <3>1, <3>3, <3>4
  <2> QED  BY <2>1, <2>2
<1>17. e \in 4 .. 3 + P => k2 % Half = PayloadByte(c, e - 3)
  <2> SUFFICES ASSUME e \in 4 .. 3 + P PROVE k2 % Half = PayloadByte(c, e - 3)  OBVIOUS
  <2>1. d \in 3 .. 2 + P /\ e = d + 1  BY <1>1
  <2> QED  BY <1>5, <1>15, <2>1 DEF j
<1>18. InWaste(k2, c, e)  BY <1>15, <1>16, <1>17 DEF InWaste
<1> QED  BY <1>2, <1>7, <1>15, <1>18 DEF k2

\* The verifier r is where the sender was at place p: at the same byte of a
\* frame, with the last frame for a snapshot, or none yet...
OnFrame(r, p) ==
  /\ InFrame(r, p)
  /\ InCount(r.bridge, r.whole, p.sent, p.whole)
  /\ r.snapshot # <<>> => p.f > 0 /\ r.snapshot = FrameOf(CountBefore(p.f))

\* ... or still in the frame that was being sent when it was cleared, or at its
\* end, after a last byte that may begin the next.
Skips(r, p) ==
  /\ p.sent = 0 /\ r.whole = p.whole /\ r.snapshot = <<>>
  /\ InWaste(r.bridge, Count(p.f), p.done)
  /\ \/ r.state = "sync0" /\ r.buf = <<>> /\ p.done # 0
     \/ /\ r.state = "sync1" /\ r.buf = <<Sync0>> /\ p.done # 1
        /\ p.done # 0 => FrameOf(Count(p.f))[p.done] = Sync0

Tracks(r, p) == r \in RxTypes /\ (OnFrame(r, p) \/ Skips(r, p))

\* The header bytes are no bridge bytes where it matters.
LEMMA BridgeByteIsNone ==
  ASSUME NEW s \in 0 .. Burst - 1
  PROVE  /\ BridgeByteAt(s) \in Nat /\ BridgeByteAt(s) # Sync0 /\ BridgeByteAt(s) = s % Half
         /\ s = 0 => BridgeByteAt(s) # Sync1
<1>1. s \in Nat /\ Half \in Nat \ {0}  BY Numbers
<1>2. s % Half \in 0 .. Half - 1  BY <1>1, DivMod
<1> QED  BY <1>2, Numbers, HandBackAssumption DEF BridgeByteAt, HeaderOnce

\* The count over a waste is one of no burst.
LEMMA WasteCounts ==
  ASSUME NEW p \in Places, NEW c, NEW k, InWaste(k, c, p.done), NEW w, w = p.whole, p.sent = 0
  PROVE  InCount(k, w, p.sent, p.whole)
<1>1. p.done \in 0 .. Frame - 1  BY PlaceIs
<1>2. k \in Nat /\ k <= Wasted(p.done)  BY DEF InWaste
<1>3. Wasted(p.done) \in Nat /\ Wasted(p.done) < Burst  BY <1>1, WasteIs
<1>4. Burst \in Nat  BY BridgeAssumption, ReceiverAssumption
<1>5. k \in 0 .. Burst - 1  BY <1>2, <1>3, <1>4
<1> QED  BY <1>5 DEF InCount

\* A burst's byte, heard between frames.
LEMMA TracksBurst ==
  ASSUME NEW p \in Places, NEW q \in Places, NEW b, BurstByte(p, b, q), NEW r \in RxTypes,
         r.state = "sync0", r.buf = <<>>, InCount(r.bridge, r.whole, p.sent, p.whole),
         r.snapshot # <<>> => p.f > 0 /\ r.snapshot = FrameOf(CountBefore(p.f))
  PROVE  Tracks(BridgeByte(r, b), q)
<1> DEFINE s == BridgeByte(r, b)
           k == CountAfter(r.bridge, b)
           w == WholeAfter(r.bridge, r.whole, b)
<1>1. p.sent \in 0 .. Burst - 1 /\ p.whole \in BOOLEAN /\ r.whole \in BOOLEAN
  BY PlaceIs, RxIs
<1>2. b = p.sent % Half /\ b \in Nat /\ q.f = p.f /\ q.done = 0
  BY <1>1, BridgeByteIsNone DEF BurstByte
<1>3. /\ s \in RxTypes /\ s.state = "sync0" /\ s.buf = <<>> /\ s.snapshot = r.snapshot
      /\ s.bridge = k /\ s.whole = w
  BY <1>2, BridgeByteIs
<1>4. /\ p.sent + 1 < Burst => InCount(k, w, p.sent + 1, p.whole)
      /\ p.sent + 1 = Burst => InCount(k, w, 0, ~p.whole)
  BY <1>1, <1>2, CountsTurn
<1> HIDE DEF s, k, w
<1>5. InCount(s.bridge, s.whole, q.sent, q.whole)
  <2>1. CASE p.sent + 1 < Burst
    <3>1. q.sent = p.sent + 1 /\ q.whole = p.whole  BY <1>1, <2>1 DEF BurstByte
    <3> QED  BY <1>3, <1>4, <2>1, <3>1
  <2>2. CASE p.sent + 1 = Burst
    <3>1. q.sent = 0 /\ q.whole = ~p.whole  BY <1>1, <2>2 DEF BurstByte
    <3> QED  BY <1>3, <1>4, <2>2, <3>1
  <2> QED  BY <2>1, <2>2 DEF BurstByte
<1>6. InFrame(s, q)
  <2>1. SubSeq(FrameOf(Count(q.f)), 1, q.done) = <<>>  BY <1>2, SubSeqEmpty
  <2> QED  BY <1>2, <1>3, <2>1 DEF InFrame
<1>7. s.snapshot # <<>> => q.f > 0 /\ s.snapshot = FrameOf(CountBefore(q.f))
  BY <1>2, <1>3
<1> QED  BY <1>3, <1>5, <1>6, <1>7 DEF Tracks, OnFrame, s

\* A byte of a frame, heard from the frame's beginning.
LEMMA TracksFrame ==
  ASSUME NEW p \in Places, NEW q \in Places, NEW b, FrameByte(p, b, q), NEW r \in RxTypes,
         OnFrame(r, p)
  PROVE  Tracks(RxByte(r, b), q)
<1> DEFINE t == RxByte(r, b)
<1>1. /\ InFrame(r, p) /\ InCount(r.bridge, r.whole, p.sent, p.whole)
      /\ r.snapshot # <<>> => p.f > 0 /\ r.snapshot = FrameOf(CountBefore(p.f))
      /\ p.sent = 0 /\ q.sent = 0 /\ q.whole = p.whole
  BY DEF OnFrame, FrameByte
<1>2. CASE p.done + 1 < Frame
  <2>1. InFrame(t, q) /\ Keeps(t, r)  BY <1>1, <1>2, HuntGoesOn
  <2> HIDE DEF t
  <2>2. t \in RxTypes /\ t.bridge = r.bridge /\ t.whole = r.whole /\ t.snapshot = r.snapshot
    BY <2>1 DEF Keeps
  <2>3. q.f = p.f  BY <1>2, PlaceIs, Numbers DEF FrameByte
  <2>4. InCount(t.bridge, t.whole, q.sent, q.whole)  BY <1>1, <2>2
  <2>5. t.snapshot # <<>> => q.f > 0 /\ t.snapshot = FrameOf(CountBefore(q.f))
    BY <1>1, <2>2, <2>3
  <2> QED  BY <2>1, <2>2, <2>4, <2>5 DEF Tracks, OnFrame, t
<1>3. CASE p.done + 1 = Frame
  <2>1. InFrame(t, q) /\ Takes(t, r, p, q)  BY <1>1, <1>3, HuntEnds
  <2> HIDE DEF t
  <2>2. /\ t \in RxTypes /\ q.f = p.f + 1 /\ t.snapshot = FrameOf(Count(p.f))
        /\ t.bridge = 0 /\ t.whole = r.whole
    BY <2>1 DEF Takes
  <2>3. q.f > 0 /\ CountBefore(q.f) = Count(p.f)
    <3>1. q.f > 0 /\ q.f # 0 /\ q.f - 1 = p.f  BY <2>2, PlaceIs
    <3> QED  BY <3>1 DEF CountBefore, Count
  <2>4. InCount(t.bridge, t.whole, q.sent, q.whole)
    <3>1. r.whole = p.whole
      <4>1. ~(p.sent > 0)  BY <1>1
      <4> QED  BY <1>1, <4>1 DEF InCount
    <3>2. 0 \in 0 .. Burst - 1  BY Constants, BurstIs
    <3> QED  BY <1>1, <2>2, <3>1, <3>2 DEF InCount
  <2>5. t.snapshot # <<>> => q.f > 0 /\ t.snapshot = FrameOf(CountBefore(q.f))
    BY <2>2, <2>3
  <2> QED  BY <2>1, <2>2, <2>4, <2>5 DEF Tracks, OnFrame, t
<1> QED  BY <1>2, <1>3 DEF FrameByte

\* A byte of a frame, heard from the middle of it: not its header again.
LEMMA TracksWaste ==
  ASSUME NEW p \in Places, NEW q \in Places, NEW b, FrameByte(p, b, q), NEW r \in RxTypes,
         Skips(r, p), p.done # 0
  PROVE  Tracks(RxByte(r, b), q)
<1> DEFINE c == Count(p.f)
           d == p.done
           k == r.bridge
           k2 == CountAfter(k, b)
           w2 == WholeAfter(k, r.whole, b)
           t == RxByte(r, b)
<1>1. /\ c \in ByteRange /\ d \in 1 .. Frame - 1 /\ r.whole \in BOOLEAN
  BY PlaceIs, RxIs
<1>2. /\ p.sent = 0 /\ q.sent = 0 /\ q.whole = p.whole /\ r.whole = p.whole
      /\ r.snapshot = <<>> /\ InWaste(k, c, d) /\ b = FrameOf(c)[d + 1]
  BY DEF Skips, FrameByte
<1>3. q.done = IF d + 1 < Frame THEN d + 1 ELSE 0  BY <1>1, Numbers DEF FrameByte
<1>4. /\ b \in Nat
      /\ b = Sync0 => InWaste(k, c, q.done)
      /\ InWaste(k2, c, q.done) /\ w2 = r.whole
  BY <1>1, <1>2, <1>3, WasteGrows
<1>5. q.done # 1 /\ (q.done # 0 => q.f = p.f /\ q.done = d + 1)
  BY <1>1, Numbers DEF FrameByte
<1>6. \A x : InWaste(x, c, q.done) => InWaste(x, Count(q.f), q.done)
  <2>1. CASE q.done = 0
    <3>1. q.done \notin 4 .. 3 + PayloadBytes  BY <2>1
    <3> QED  BY <3>1 DEF InWaste
  <2>2. CASE q.done # 0  BY <1>5, <2>2
  <2> QED  BY <2>1, <2>2
<1> HIDE DEF c, d, k, k2, w2
<1>7. ASSUME b = Sync0, NEW u \in RxTypes, u.state = "sync1", u.buf = <<Sync0>>,
             u.bridge = k, u.whole = r.whole, u.snapshot = r.snapshot
      PROVE  Tracks(u, q)
  <2>1. InWaste(u.bridge, Count(q.f), q.done)  BY <1>4, <1>6, <1>7, Zenon
  <2>2. q.done # 0 => FrameOf(Count(q.f))[q.done] = Sync0
    BY <1>2, <1>5, <1>7 DEF c
  <2>3. q.sent = 0 /\ u.whole = q.whole /\ u.snapshot = <<>>  BY <1>2, <1>7
  <2> QED  BY <1>5, <1>7, <2>1, <2>2, <2>3 DEF Tracks, Skips
<1>8. ASSUME NEW u \in RxTypes, u.state = "sync0", u.buf = <<>>,
             u.bridge = k, u.whole = r.whole, u.snapshot = r.snapshot
      PROVE  Tracks(BridgeByte(u, b), q)
  <2> DEFINE s == BridgeByte(u, b)
  <2>1. /\ s \in RxTypes /\ s.state = "sync0" /\ s.buf = <<>> /\ s.snapshot = <<>>
        /\ s.bridge = k2 /\ s.whole = w2
    <3>1. /\ s \in RxTypes /\ s.state = u.state /\ s.buf = u.buf /\ s.snapshot = u.snapshot
          /\ s.bridge = CountAfter(u.bridge, b) /\ s.whole = WholeAfter(u.bridge, u.whole, b)
      BY <1>4, BridgeByteIs
    <3> HIDE DEF s
    <3> QED  BY <1>2, <1>8, <3>1, Zenon DEF k2, w2
  <2> HIDE DEF s
  <2>2. InWaste(s.bridge, Count(q.f), q.done) /\ s.whole = q.whole /\ q.sent = 0
    BY <1>2, <1>4, <1>6, <2>1
  <2>3. CASE q.done # 0
    <3>1. Skips(s, q)  BY <2>1, <2>2, <2>3 DEF Skips
    <3> QED  BY <2>1, <3>1 DEF Tracks, s
  <2>4. CASE q.done = 0
    <3>1. InCount(s.bridge, s.whole, q.sent, q.whole)  BY <2>2, WasteCounts
    <3>2. SubSeq(FrameOf(Count(q.f)), 1, q.done) = <<>>  BY <2>4, SubSeqEmpty
    <3>3. InFrame(s, q)  BY <2>1, <2>4, <3>2 DEF InFrame
    <3>4. OnFrame(s, q)  BY <2>1, <3>1, <3>3 DEF OnFrame
    <3> QED  BY <2>1, <3>4 DEF Tracks, s
  <2> QED  BY <2>3, <2>4
<1>9. CASE r.state = "sync0"
  <2>1. r.buf = <<>>  BY <1>9 DEF Skips
  <2>2. CASE b = Sync0
    <3> DEFINE u == Hunting(r, "sync1", <<b>>)
    <3>1. t = u  BY <1>9, <2>2 DEF RxByte, Hunting
    <3>2. <<b>> \in Seq(ByteRange) /\ <<b>> = <<Sync0>>
      <4>1. FrameOf(c) \in Seq(ByteRange) /\ Len(FrameOf(c)) = Frame  BY <1>1, FrameIs
      <4>2. d + 1 \in 1 .. Len(FrameOf(c))  BY <1>1, <4>1, Numbers
      <4>3. b \in ByteRange  BY <1>2, <4>1, <4>2, ElementOfSeq
      <4>4. <<b>> \in Seq(ByteRange)  BY <4>3
      <4> QED  BY <2>2, <4>4, Zenon
    <3>3. Keeps(u, r) /\ u.state = "sync1" /\ u.buf = <<b>>
      <4>1. "sync1" \in {"sync0", "sync1", "collect"}  OBVIOUS
      <4> QED  BY <3>2, <4>1, HuntingKeeps, Zenon
    <3> HIDE DEF t, u
    <3>4. u \in RxTypes /\ u.bridge = k /\ u.whole = r.whole /\ u.snapshot = r.snapshot
      BY <3>3 DEF Keeps, k
    <3>5. u.buf = <<Sync0>>  BY <3>2, <3>3, Zenon
    <3>6. Tracks(u, q)  BY <1>7, <2>2, <3>3, <3>4, <3>5
    <3> QED  BY <3>1, <3>6 DEF t
  <2>3. CASE b # Sync0
    <3>1. t = BridgeByte(r, b)  BY <1>9, <2>3 DEF RxByte
    <3>2. Tracks(BridgeByte(r, b), q)  BY <1>8, <1>9, <2>1 DEF k
    <3> QED  BY <3>1, <3>2
  <2> QED  BY <2>2, <2>3
<1>10. CASE r.state = "sync1"
  <2>1. r.buf = <<Sync0>> /\ d # 1 /\ FrameOf(c)[d] = Sync0
    BY <1>10 DEF Skips, c, d
  <2>2. b # Sync1
    <3>1. d \in 2 .. FrameLen - 1
      <4>1. FrameLen = Frame  BY BridgeAssumption
      <4> QED  BY <1>1, <2>1, <4>1
    <3>2. ~(FrameOf(c)[d] = Sync0 /\ FrameOf(c)[d + 1] = Sync1)
      BY <1>1, <3>1, HandBackAssumption DEF HeaderOnce
    <3> QED  BY <1>2, <2>1, <3>2
  <2>3. CASE b = Sync0
    <3>1. t = r  BY <1>10, <2>2, <2>3 DEF RxByte
    <3>2. Tracks(r, q)  BY <1>7, <1>10, <2>1, <2>3 DEF k
    <3> QED  BY <3>1, <3>2
  <2>4. CASE b # Sync0
    <3> DEFINE u == [r EXCEPT !.resyncs = TRUE, !.state = "sync0", !.buf = <<>>]
    <3>1. t = BridgeByte(u, b)  BY <1>10, <2>2, <2>4 DEF RxByte
    <3>2. <<>> \in Seq(ByteRange)  OBVIOUS
    <3>3. /\ u \in RxTypes /\ u.state = "sync0" /\ u.buf = <<>> /\ u.bridge = r.bridge
          /\ u.whole = r.whole /\ u.snapshot = r.snapshot
      BY <3>2 DEF RxTypes
    <3> HIDE DEF u, t
    <3>4. Tracks(BridgeByte(u, b), q)  BY <1>8, <3>3 DEF k
    <3> QED  BY <3>1, <3>4 DEF t
  <2> QED  BY <2>3, <2>4
<1> QED  BY <1>9, <1>10 DEF Skips

LEMMA TracksOn ==
  ASSUME NEW p \in Places, NEW q \in Places, NEW b, Goes(p, b, q), NEW r, Tracks(r, p)
  PROVE  Tracks(RxByte(r, b), q)
<1>1. r \in RxTypes /\ (OnFrame(r, p) \/ Skips(r, p))  BY DEF Tracks
<1>2. CASE FrameByte(p, b, q) /\ OnFrame(r, p)  BY <1>1, <1>2, TracksFrame
<1>3. CASE FrameByte(p, b, q) /\ Skips(r, p) /\ p.done # 0  BY <1>1, <1>3, TracksWaste
<1>4. CASE FrameByte(p, b, q) /\ Skips(r, p) /\ p.done = 0
  <2>1. /\ r.state = "sync1" /\ r.buf = <<Sync0>> /\ r.snapshot = <<>> /\ r.whole = p.whole
        /\ p.sent = 0 /\ InWaste(r.bridge, Count(p.f), p.done)
    BY <1>4 DEF Skips
  <2>2. /\ FrameOf(Count(p.f))[1] = Sync0 /\ SubSeq(FrameOf(Count(p.f)), 1, 1) = <<Sync0>>
        /\ b = Sync0
    <3>1. Count(p.f) \in ByteRange  BY PlaceIs
    <3>2. /\ FrameOf(Count(p.f))[1] = Sync0
          /\ SubSeq(FrameOf(Count(p.f)), 1, 1) = <<Sync0>>
      BY <3>1, FrameBegins
    <3>3. b = FrameOf(Count(p.f))[1]  BY <1>4 DEF FrameByte
    <3> QED  BY <3>2, <3>3
  <2>3. RxByte(r, b) = r  BY <2>1, <2>2, Numbers DEF RxByte
  <2>4. q.f = p.f /\ q.done = 1 /\ q.sent = 0 /\ q.whole = p.whole
    BY <1>4, Numbers DEF FrameByte
  <2>5. InCount(r.bridge, r.whole, q.sent, q.whole)
    <3>1. InCount(r.bridge, r.whole, p.sent, p.whole)  BY <2>1, WasteCounts
    <3> QED  BY <2>1, <2>4, <3>1
  <2>6. InFrame(r, q)  BY <2>1, <2>2, <2>4 DEF InFrame
  <2>7. OnFrame(r, q)  BY <2>1, <2>5, <2>6 DEF OnFrame
  <2> QED  BY <1>1, <2>3, <2>7 DEF Tracks
<1>5. CASE BurstByte(p, b, q)
  <2>1. b # Sync0 /\ p.done = 0 /\ (p.sent = 0 => b # Sync1)
    <3>1. p.sent \in 0 .. Burst - 1  BY PlaceIs
    <3> QED  BY <1>5, <3>1, BridgeByteIsNone DEF BurstByte
  <2>2. CASE OnFrame(r, p)
    <3>1. r.state = "sync0" /\ r.buf = <<>>
      <4>1. SubSeq(FrameOf(Count(p.f)), 1, p.done) = <<>>  BY <2>1, SubSeqEmpty
      <4> QED  BY <2>1, <2>2, <4>1 DEF OnFrame, InFrame
    <3>2. RxByte(r, b) = BridgeByte(r, b)  BY <2>1, <3>1 DEF RxByte
    <3>3. /\ InCount(r.bridge, r.whole, p.sent, p.whole)
          /\ r.snapshot # <<>> => p.f > 0 /\ r.snapshot = FrameOf(CountBefore(p.f))
      BY <2>2 DEF OnFrame
    <3>4. Tracks(BridgeByte(r, b), q)  BY <1>1, <1>5, <3>1, <3>3, TracksBurst
    <3> QED  BY <3>2, <3>4
  <2>3. CASE Skips(r, p)
    <3>1. /\ r.state = "sync1" /\ r.buf = <<Sync0>> /\ r.snapshot = <<>> /\ r.whole = p.whole
          /\ p.sent = 0 /\ InWaste(r.bridge, Count(p.f), p.done)
      BY <2>1, <2>3 DEF Skips
    <3> DEFINE u == [r EXCEPT !.resyncs = TRUE, !.state = "sync0", !.buf = <<>>]
    <3>2. RxByte(r, b) = BridgeByte(u, b)  BY <2>1, <3>1 DEF RxByte
    <3>3. <<>> \in Seq(ByteRange)  OBVIOUS
    <3>4. /\ u \in RxTypes /\ u.state = "sync0" /\ u.buf = <<>> /\ u.bridge = r.bridge
          /\ u.whole = r.whole /\ u.snapshot = r.snapshot
      BY <1>1, <3>3 DEF RxTypes
    <3> HIDE DEF u
    <3>5. InCount(u.bridge, u.whole, p.sent, p.whole)
      <4>1. InCount(r.bridge, r.whole, p.sent, p.whole)  BY <3>1, WasteCounts
      <4> QED  BY <3>4, <4>1
    <3>6. u.snapshot # <<>> => p.f > 0 /\ u.snapshot = FrameOf(CountBefore(p.f))
      BY <3>1, <3>4
    <3>7. Tracks(BridgeByte(u, b), q)  BY <1>5, <3>4, <3>5, <3>6, TracksBurst
    <3> QED  BY <3>2, <3>7
  <2> QED  BY <1>1, <2>2, <2>3
<1> QED  BY <1>1, <1>2, <1>3, <1>4, <1>5 DEF Goes

(***************************************************************************)
(* What is on its way.                                                     *)
(***************************************************************************)

\* Bytes of frames sent.
Far(p) == Frame * p.f + p.done

\* The verifier r is at place p; and finds nothing wrong, if it was not cleared.
Heard(r, p, h) == Tracks(r, p) /\ (h = 0 => Follows(r, p))

LEMMA HeardOn ==
  ASSUME NEW p \in Places, NEW q \in Places, NEW b, NEW r, NEW h, Heard(r, p, h), Goes(p, b, q)
  PROVE  Heard(RxByte(r, b), q, h)
<1>1. Tracks(RxByte(r, b), q)  BY TracksOn DEF Heard
<1>2. ASSUME h = 0 PROVE Follows(RxByte(r, b), q)
  <2>1. Follows(r, p)  BY <1>2 DEF Heard
  <2> QED  BY <2>1, Hears
<1> QED  BY <1>1, <1>2 DEF Heard

\* The bytes of s take the sender along p, from where the verifier r is.
Path(p, s, r, h) ==
  /\ s \in Seq(ByteRange)
  /\ p \in [0 .. Len(s) -> Places]
  /\ \A i \in 1 .. Len(s) : Goes(p[i - 1], s[i], p[i])
  /\ \A i \in 0 .. Len(s) :
       Far(p[i]) <= Far(p[Len(s)]) /\ Far(p[Len(s)]) <= Far(p[i]) + (Len(s) - i)
  /\ Heard(r, p[0], h)

LEMMA FarIsNat == ASSUME NEW p \in Places PROVE Far(p) \in Nat
<1>1. p.f \in Nat /\ p.done \in 0 .. Frame - 1 /\ Frame \in Nat  BY PlaceIs, Numbers
<1>2. Frame * p.f \in Nat  BY <1>1
<1> QED  BY <1>1, <1>2 DEF Far

LEMMA FarIs ==
  ASSUME NEW p \in Places, NEW q \in Places, NEW b, Goes(p, b, q)
  PROVE  /\ Far(p) \in Nat /\ Far(q) \in Nat
         /\ Far(p) <= Far(q) /\ Far(q) <= Far(p) + 1
<1>1. /\ p.f \in Nat /\ q.f \in Nat /\ p.done \in Nat /\ q.done \in Nat
      /\ Frame * p.f \in Nat /\ Frame * q.f \in Nat /\ Frame \in Nat
  BY PlaceIs, Numbers
<1>2. CASE q.f = p.f  BY <1>1, <1>2 DEF Goes, FrameByte, BurstByte, Far
<1>3. CASE q.f = p.f + 1
  <2>1. p.done + 1 = Frame /\ q.done = 0
    BY <1>1, <1>3 DEF Goes, FrameByte, BurstByte
  <2>2. Frame * q.f = Frame * p.f + Frame  BY <1>1, <1>3
  <2> QED  BY <1>1, <2>1, <2>2 DEF Far
<1> QED  BY <1>2, <1>3 DEF Goes, FrameByte, BurstByte

\* One more byte is sent.
LEMMA PathGrows ==
  ASSUME NEW s, NEW p, NEW r, NEW h, Path(p, s, r, h), NEW b \in ByteRange, NEW x \in Places,
         Goes(p[Len(s)], b, x)
  PROVE  LET q == [i \in 0 .. Len(s) + 1 |-> IF i <= Len(s) THEN p[i] ELSE x]
         IN  /\ Path(q, Append(s, b), r, h)
             /\ Len(Append(s, b)) = Len(s) + 1 /\ q[Len(s) + 1] = x
             /\ \A i \in 0 .. Len(s) : q[i] = p[i]
<1> DEFINE n == Len(s)
           q == [i \in 0 .. n + 1 |-> IF i <= n THEN p[i] ELSE x]
           t == Append(s, b)
<1>1. /\ s \in Seq(ByteRange) /\ p \in [0 .. n -> Places]
      /\ \A i \in 1 .. n : Goes(p[i - 1], s[i], p[i])
      /\ \A i \in 0 .. n : Far(p[i]) <= Far(p[n]) /\ Far(p[n]) <= Far(p[i]) + (n - i)
      /\ Heard(r, p[0], h)
  BY DEF Path
<1>2. n \in Nat  BY <1>1, LenProperties
<1>3. /\ t \in Seq(ByteRange) /\ Len(t) = n + 1 /\ t[n + 1] = b
      /\ \A i \in 1 .. n : t[i] = s[i]
  BY <1>1, AppendProperties
<1> HIDE DEF n, t
<1>4. q \in [0 .. n + 1 -> Places]  BY <1>1, <1>2
<1>5. q[n + 1] = x /\ \A i \in 0 .. n : q[i] = p[i]  BY <1>2
<1> HIDE DEF q
<1>6. ASSUME NEW i \in 1 .. n + 1 PROVE Goes(q[i - 1], t[i], q[i])
  <2>1. CASE i = n + 1
    <3>1. i - 1 = n /\ n \in 0 .. n  BY <1>2, <2>1
    <3>2. Goes(p[n], b, x)  BY DEF n
    <3> QED  BY <1>3, <1>5, <2>1, <3>1, <3>2
  <2>2. CASE i \in 1 .. n
    <3>1. i - 1 \in 0 .. n /\ i \in 0 .. n  BY <1>2, <2>2
    <3> QED  BY <1>1, <1>3, <1>5, <2>2, <3>1
  <2> QED  BY <1>2, <2>1, <2>2
<1>7. Far(x) \in Nat /\ Far(p[n]) <= Far(x) /\ Far(x) <= Far(p[n]) + 1 /\ Far(p[n]) \in Nat
  <2>1. p[n] \in Places /\ Goes(p[n], b, x)  BY <1>1, <1>2 DEF n
  <2> QED  BY <2>1, FarIs
<1>8. ASSUME NEW i \in 0 .. n + 1
      PROVE  Far(q[i]) <= Far(q[n + 1]) /\ Far(q[n + 1]) <= Far(q[i]) + ((n + 1) - i)
  <2>1. CASE i = n + 1  BY <1>2, <1>5, <1>7, <2>1
  <2>2. CASE i \in 0 .. n
    <3>1. Far(p[i]) <= Far(p[n]) /\ Far(p[n]) <= Far(p[i]) + (n - i) /\ q[i] = p[i]
      BY <1>1, <1>5, <2>2
    <3>2. Far(p[i]) \in Int
      <4>1. p[i] \in Places  BY <1>1, <2>2
      <4> QED  BY <4>1, FarIsNat
    <3>3. q[n + 1] = x  BY <1>5
    <3> QED  BY <1>2, <1>7, <2>2, <3>1, <3>2, <3>3
  <2> QED  BY <1>2, <2>1, <2>2
<1>9. Heard(r, q[0], h)
  <2>1. 0 \in 0 .. n  BY <1>2
  <2> QED  BY <1>1, <1>5, <2>1
<1>10. Path(q, t, r, h)
  BY <1>3, <1>4, <1>6, <1>8, <1>9 DEF Path
<1> QED  BY <1>3, <1>5, <1>10 DEF n, q, t

\* The verifier takes the first byte.
LEMMA PathMoves ==
  ASSUME NEW s, NEW p, NEW r, NEW h, Path(p, s, r, h), s # <<>>
  PROVE  LET q == [i \in 0 .. Len(s) - 1 |-> p[i + 1]]
         IN  /\ Path(q, Tail(s), RxByte(r, Head(s)), h)
             /\ Len(Tail(s)) = Len(s) - 1 /\ Len(s) \in Nat /\ Len(s) > 0
             /\ \A i \in 0 .. Len(s) - 1 : q[i] = p[i + 1]
<1> DEFINE n == Len(s)
           q == [i \in 0 .. n - 1 |-> p[i + 1]]
           t == Tail(s)
<1>1. /\ s \in Seq(ByteRange) /\ p \in [0 .. n -> Places]
      /\ \A i \in 1 .. n : Goes(p[i - 1], s[i], p[i])
      /\ \A i \in 0 .. n : Far(p[i]) <= Far(p[n]) /\ Far(p[n]) <= Far(p[i]) + (n - i)
      /\ Heard(r, p[0], h)
  BY DEF Path
<1>2. n \in Nat /\ n > 0  BY <1>1, EmptySeq
<1>3. t \in Seq(ByteRange) /\ Len(t) = n - 1 /\ \A i \in 1 .. n - 1 : t[i] = s[i + 1]
  BY <1>1, HeadTailProperties
<1>4. Head(s) = s[1]  BY <1>1
<1> HIDE DEF n, t
<1>5. q \in [0 .. n - 1 -> Places]
  <2>1. \A i \in 0 .. n - 1 : i + 1 \in 0 .. n  BY <1>2
  <2> QED  BY <1>1, <2>1
<1>6. \A i \in 0 .. n - 1 : q[i] = p[i + 1]  OBVIOUS
<1> HIDE DEF q
<1>7. ASSUME NEW i \in 1 .. n - 1 PROVE Goes(q[i - 1], t[i], q[i])
  <2>1. i + 1 \in 1 .. n /\ (i + 1) - 1 = i /\ i - 1 \in 0 .. n - 1 /\ i \in 0 .. n - 1
        /\ (i - 1) + 1 = i
    BY <1>2
  <2>2. Goes(p[(i + 1) - 1], s[i + 1], p[i + 1])  BY <1>1, <2>1
  <2>3. q[i - 1] = p[i] /\ q[i] = p[i + 1] /\ t[i] = s[i + 1]
    <3>1. q[i - 1] = p[(i - 1) + 1]  BY <1>6, <2>1
    <3> QED  BY <1>3, <1>6, <2>1, <3>1
  <2> QED  BY <2>1, <2>2, <2>3
<1>8. ASSUME NEW i \in 0 .. n - 1
      PROVE  Far(q[i]) <= Far(q[n - 1]) /\ Far(q[n - 1]) <= Far(q[i]) + ((n - 1) - i)
  <2>1. i + 1 \in 0 .. n /\ n - 1 \in 0 .. n - 1 /\ (n - 1) + 1 = n
        /\ n - (i + 1) = (n - 1) - i
    BY <1>2
  <2>2. q[n - 1] = p[n] /\ q[i] = p[i + 1]
    <3>1. q[n - 1] = p[(n - 1) + 1]  BY <1>6, <2>1
    <3> QED  BY <1>6, <2>1, <3>1
  <2>3. Far(p[i + 1]) <= Far(p[n]) /\ Far(p[n]) <= Far(p[i + 1]) + (n - (i + 1))
    BY <1>1, <2>1
  <2> QED  BY <2>1, <2>2, <2>3
<1>9. Heard(RxByte(r, s[1]), q[0], h)
  <2>1. 1 \in 1 .. n /\ 1 - 1 = 0 /\ 0 \in 0 .. n /\ 1 \in 0 .. n /\ 0 \in 0 .. n - 1
        /\ 0 + 1 = 1
    BY <1>2
  <2>2. Goes(p[1 - 1], s[1], p[1])  BY <1>1, <2>1
  <2>3. Goes(p[0], s[1], p[1]) /\ p[0] \in Places /\ p[1] \in Places
    BY <1>1, <2>1, <2>2
  <2>4. q[0] = p[0 + 1]  BY <1>6, <2>1
  <2> QED  BY <1>1, <2>1, <2>3, <2>4, HeardOn
<1>10. Path(q, t, RxByte(r, Head(s)), h)
  BY <1>3, <1>4, <1>5, <1>7, <1>8, <1>9 DEF Path
<1> QED  BY <1>2, <1>3, <1>6, <1>10 DEF n, q, t

(***************************************************************************)
(* The queues on the way, and the time they take.                          *)
(***************************************************************************)

LEMMA TailOfConcat ==
  ASSUME NEW S, NEW s \in Seq(S), NEW t \in Seq(S), s # <<>>
  PROVE  s \o t # <<>> /\ Head(s \o t) = Head(s) /\ Tail(s \o t) = Tail(s) \o t
<1> DEFINE m == Len(s)
           n == Len(t)
           u == s \o t
<1>1. m \in Nat /\ m > 0 /\ n \in Nat  BY EmptySeq, LenProperties
<1>2. u \in Seq(S) /\ Len(u) = m + n /\ \A i \in 1 .. m + n : u[i] = IF i <= m THEN s[i] ELSE t[i - m]
  BY ConcatProperties
<1>3. Tail(s) \in Seq(S) /\ Len(Tail(s)) = m - 1 /\ \A i \in 1 .. m - 1 : Tail(s)[i] = s[i + 1]
  BY HeadTailProperties
<1> DEFINE v == Tail(s) \o t
<1>4. /\ v \in Seq(S) /\ Len(v) = (m - 1) + n
      /\ \A i \in 1 .. (m - 1) + n : v[i] = IF i <= m - 1 THEN Tail(s)[i] ELSE t[i - (m - 1)]
  <2> HIDE DEF m
  <2> QED  BY <1>3, ConcatProperties
<1> HIDE DEF m, n, u, v
<1>5. u # <<>>  BY <1>1, <1>2, EmptySeq
<1>6. Tail(u) \in Seq(S) /\ Len(Tail(u)) = (m + n) - 1
      /\ \A i \in 1 .. (m + n) - 1 : Tail(u)[i] = u[i + 1]
  BY <1>2, <1>5, HeadTailProperties
<1>7. ASSUME NEW i \in 1 .. (m + n) - 1 PROVE Tail(u)[i] = v[i]
  <2>1. i + 1 \in 1 .. m + n /\ i \in 1 .. (m - 1) + n  BY <1>1
  <2>2. Tail(u)[i] = IF i + 1 <= m THEN s[i + 1] ELSE t[(i + 1) - m]
    BY <1>2, <1>6, <2>1
  <2>3. CASE i <= m - 1
    <3>1. i \in 1 .. m - 1 /\ i + 1 <= m  BY <1>1, <2>3
    <3> QED  BY <1>3, <1>4, <2>1, <2>2, <2>3, <3>1
  <2>4. CASE ~(i <= m - 1)
    <3>1. ~(i + 1 <= m) /\ (i + 1) - m = i - (m - 1)  BY <1>1, <2>4
    <3> QED  BY <1>4, <2>1, <2>2, <2>4, <3>1
  <2> QED  BY <2>3, <2>4
<1>8. (m + n) - 1 = (m - 1) + n  BY <1>1
<1>9. Tail(u) = v  BY <1>4, <1>6, <1>7, <1>8, SeqEqual
<1>10. Head(u) = u[1] /\ Head(s) = s[1]  OBVIOUS
<1>11. u[1] = s[1]
  <2>1. 1 \in 1 .. m + n /\ 1 <= m  BY <1>1
  <2> QED  BY <1>2, <2>1
<1> QED  BY <1>5, <1>9, <1>10, <1>11 DEF u, v

LEMMA MoveHead ==
  ASSUME NEW S, NEW s \in Seq(S), NEW t \in Seq(S), t # <<>>
  PROVE  /\ Append(s, Head(t)) \o Tail(t) = s \o t
         /\ Append(s, Head(t)) \in Seq(S) /\ Len(Append(s, Head(t))) = Len(s) + 1
         /\ Tail(t) \in Seq(S) /\ Len(Tail(t)) = Len(t) - 1
<1>1. Head(t) \in S /\ Tail(t) \in Seq(S) /\ Len(Tail(t)) = Len(t) - 1
  BY HeadTailProperties
<1>2. Append(s, Head(t)) \in Seq(S) /\ Len(Append(s, Head(t))) = Len(s) + 1
      /\ Append(s, Head(t)) = s \o <<Head(t)>>
  BY <1>1, AppendProperties, AppendIsConcat
<1>3. <<Head(t)>> \in Seq(S)  BY <1>1
<1>4. <<Head(t)>> \o Tail(t) = t
  <2>1. Len(t) \in Nat /\ Len(t) > 0  BY EmptySeq
  <2>2. 1 \in 1 .. Len(t) /\ Len(t) \in 1 .. Len(t)  BY <2>1
  <2>3. SubSeq(t, 1, Len(t)) = <<t[1]>> \o SubSeq(t, 1 + 1, Len(t))
    BY <2>2, SubSeqRecursiveFirst
  <2>4. SubSeq(t, 1, Len(t)) = t /\ Tail(t) = SubSeq(t, 2, Len(t))
    BY SubSeqFull, TailIsSubSeq
  <2>5. Head(t) = t[1] /\ 1 + 1 = 2  OBVIOUS
  <2> QED  BY <2>3, <2>4, <2>5
<1>5. (s \o <<Head(t)>>) \o Tail(t) = s \o (<<Head(t)>> \o Tail(t))
  BY <1>1, <1>3, ConcatAssociative
<1> QED  BY <1>1, <1>2, <1>4, <1>5

LEMMA ConcatAppend ==
  ASSUME NEW S, NEW s \in Seq(S), NEW t \in Seq(S), NEW e \in S
  PROVE  /\ s \o Append(t, e) = Append(s \o t, e)
         /\ Append(t, e) \in Seq(S) /\ Len(Append(t, e)) = Len(t) + 1
<1>1. Append(t, e) = t \o <<e>> /\ Append(t, e) \in Seq(S) /\ Len(Append(t, e)) = Len(t) + 1
  BY AppendIsConcat, AppendProperties
<1>2. s \o t \in Seq(S) /\ <<e>> \in Seq(S)  BY ConcatProperties
<1>3. Append(s \o t, e) = (s \o t) \o <<e>>  BY <1>2, AppendIsConcat
<1>4. (s \o t) \o <<e>> = s \o (t \o <<e>>)  BY <1>2, ConcatAssociative
<1> QED  BY <1>1, <1>3, <1>4

\* The bytes on their way, in the order they were sent.
Flying == rxRing \o air

\* Time until the protocol task drains its ring again; now, if it is 0.
NextWake == IF proto \in {"answer", "clear", "ran"} THEN KernelTick ELSE wake

\* So many bytes are on their way if they come one per byte time and the ring
\* is drained once a kernel tick.
Few(n, w, t) == ByteTime * n <= (KernelTick - w) + t + ByteTime * 2

QueueInv ==
  /\ rxRing \in Seq(ByteRange) /\ air \in Seq(ByteRange) /\ Len(air) <= 2
  /\ ~rxLost /\ rxLost \in BOOLEAN /\ counter \in ByteRange /\ begun \in BOOLEAN
  /\ proto \in {"delayed", "drain", "answer", "clear", "ran"}
  /\ proto # "delayed" => wake = 0
  /\ Few(Len(rxRing) + Len(air), NextWake, tick)

LEMMA QueueFacts ==
  ASSUME SensorInv, QueueInv
  PROVE  /\ Len(rxRing) \in Nat /\ Len(air) \in 0 .. 2
         /\ tick \in 0 .. ByteTime /\ wake \in 0 .. KernelTick
         /\ NextWake \in 0 .. KernelTick
         /\ Flying \in Seq(ByteRange) /\ Len(Flying) = Len(rxRing) + Len(air)
<1>1. Len(rxRing) \in Nat /\ Len(air) \in Nat  BY LenProperties DEF QueueInv
<1>2. Flying \in Seq(ByteRange) /\ Len(Flying) = Len(rxRing) + Len(air)
  BY ConcatProperties DEF QueueInv, Flying
<1>3. tick \in 0 .. ByteTime /\ wake \in 0 .. KernelTick  BY DEF SensorInv, Clocks
<1>4. NextWake \in 0 .. KernelTick  BY <1>3, Constants DEF NextWake
<1>5. Len(air) <= 2  BY DEF QueueInv
<1>6. \A n \in Nat : n <= 2 => n \in 0 .. 2  OBVIOUS
<1>7. Len(air) \in 0 .. 2  BY <1>1, <1>5, <1>6, Zenon
<1> QED  BY <1>1, <1>2, <1>3, <1>4, <1>7

\* A byte tick, a byte taken, a drained ring, and time.
LEMMA FewMore ==
  ASSUME NEW n \in Nat, NEW w \in 0 .. KernelTick, NEW t \in 0 .. ByteTime, Few(n, w, t)
  PROVE  /\ t = 0 => Few(n + 1, w, ByteTime)
         /\ n > 0 => Few(n - 1, w, t)
         /\ \A e \in Nat : Few(n, w - e, t - e)
         /\ n > 0 => n - 1 < RxRingBytes
<1>1. ByteTime \in Nat /\ KernelTick \in Nat /\ ByteTime > 0  BY Constants
<1>2. /\ ByteTime * n \in Int /\ ByteTime * 2 \in Int
      /\ ByteTime * (n + 1) = ByteTime * n + ByteTime
      /\ ByteTime * (n - 1) = ByteTime * n - ByteTime
  BY <1>1, Times
<1>3. ASSUME n > 0 PROVE n - 1 < RxRingBytes
  <2>1. /\ RxRingBytes \in Nat /\ 2 * ByteTime = ByteTime * 2
        /\ KernelTick + 2 * ByteTime < ByteTime * RxRingBytes
    BY <1>1, BridgeAssumption
  <2>2. ByteTime * (n - 1) \in Int /\ ByteTime * RxRingBytes \in Int  BY <1>1, <2>1
  <2>3. ByteTime * (n - 1) < ByteTime * RxRingBytes
    BY <1>1, <1>2, <2>1, <2>2 DEF Few
  <2> QED
    <3>1. ~(RxRingBytes <= n - 1)
      <4>1. ASSUME RxRingBytes <= n - 1 PROVE ByteTime * RxRingBytes <= ByteTime * (n - 1)
        <5>1. n - 1 \in Int /\ RxRingBytes \in Int  BY <2>1
        <5> QED  BY <4>1, <5>1, Times
      <4> QED  BY <2>2, <2>3, <4>1
    <3> QED  BY <2>1, <3>1
<1> QED  BY <1>1, <1>2, <1>3 DEF Few

LEMMA QueueInit == BridgeInit => QueueInv
<1> SUFFICES ASSUME BridgeInit PROVE QueueInv  OBVIOUS
<1>1. /\ air = <<>> /\ rxRing = <<>> /\ rxLost = FALSE /\ counter = 0 /\ begun = FALSE
      /\ proto = "delayed" /\ wake = KernelTick /\ tick \in 0 .. ByteTime - 1
  BY LineAssumption DEF BridgeInit
<1>2. <<>> \in Seq(ByteRange) /\ Len(air) = 0 /\ Len(rxRing) = 0  BY <1>1
<1>3. NextWake = KernelTick  BY <1>1 DEF NextWake
<1>4. ByteTime * (0 + 0) = 0 /\ ByteTime * 2 \in Nat  BY Constants
<1>5. Few(Len(rxRing) + Len(air), NextWake, tick)
  BY <1>1, <1>2, <1>3, <1>4, Constants DEF Few
<1>6. counter \in ByteRange /\ ~rxLost /\ rxLost \in BOOLEAN /\ begun \in BOOLEAN
  <2>1. 0 \in ByteRange  BY Numbers
  <2> QED  BY <1>1, <2>1
<1>7. rxRing \in Seq(ByteRange) /\ air \in Seq(ByteRange) /\ Len(air) <= 2  BY <1>1, <1>2
<1>8. proto \in {"delayed", "drain", "answer", "clear", "ran"} /\ ~(proto # "delayed")
  BY <1>1
<1> QED  BY <1>5, <1>6, <1>7, <1>8 DEF QueueInv

\* What a byte tick puts on the line: a byte of a burst, or of a frame.
LEMMA TickBurst ==
  ASSUME SensorInv, BridgeInv, ByteTick, wire' = "bridge"
  PROVE  /\ HasLine /\ bridge > 0 /\ txRemaining = 0 /\ txRemaining' = 0
         /\ bridge' = bridge - 1 /\ sent' = (sent + 1) % Burst
<1>1. tick = 0 /\ sensor \in Nat /\ txRemaining \in 0 .. Frame - 1 /\ bridge \in Nat
  BY BridgeFacts DEF SensorInv, ByteTick
<1>2. HasLine /\ bridge > 0
  BY DEF ByteTick, Arbitrate
<1>3. txRemaining' = txRemaining /\ bridge' = bridge - 1 /\ sent' = (sent + 1) % Burst
  BY <1>2 DEF ByteTick, Arbitrate
<1>4. txRemaining = 0
  BY <1>1, <1>2 DEF BridgeInv, OneOwner, HasLine
<1> QED  BY <1>2, <1>3, <1>4

LEMMA TickFrame ==
  ASSUME SensorInv, BridgeInv, ByteTick, wire' = "sensor"
  PROVE  /\ sent = 0 /\ UNCHANGED <<sent, bridge>>
         /\ txRemaining' = (IF txRemaining > 0 THEN txRemaining ELSE Frame) - 1
<1>1. ~(HasLine /\ bridge > 0)  BY DEF ByteTick, Arbitrate
<1>2. UNCHANGED <<sent, bridge>>  BY <1>1 DEF ByteTick, Arbitrate
<1>3. SensorTurn /\ sensor > 0  BY <1>1 DEF ByteTick, Arbitrate
<1>4. txRemaining' = (IF txRemaining > 0 THEN txRemaining ELSE Frame) - 1
  BY <1>1, <1>3 DEF ByteTick, Arbitrate
<1>5. BridgeInv'  BY <1>1, OtherByteInv
<1>6. sent' = 0  BY <1>5 DEF BridgeInv, OneOwner
<1> QED  BY <1>2, <1>4, <1>6

\* The line is never idle.
LEMMA TickSends ==
  ASSUME SensorInv, ByteTick
  PROVE  wire' \in {"bridge", "sensor"}
<1>1. SensorInv'  BY SensorNext DEF Next
<1> QED  BY <1>1 DEF SensorInv

\* The byte that goes into the UART.
LEMMA TickByte ==
  ASSUME SensorInv, BridgeInv, QueueInv, Tick
  PROVE  \E b \in ByteRange :
           /\ air' = Append(air, b)
           /\ wire' = "bridge" => b = BridgeByteAt(sent) /\ counter' = counter
           /\ wire' = "sensor" =>
                /\ b = FrameOf(counter)[Frame - txRemaining']
                /\ counter' = IF txRemaining' = 0 THEN (counter + 1) % Bytes ELSE counter
           /\ counter' \in ByteRange
<1>1. ByteTick  BY DEF Tick
<1>2. counter \in ByteRange /\ (counter + 1) % Bytes \in ByteRange
  BY Numbers DEF QueueInv
<1>3. CASE wire' = "bridge"
  <2>1. air' = Append(air, BridgeByteAt(sent)) /\ counter' = counter
    BY <1>3 DEF Tick
  <2>2. sent \in Nat  BY BridgeFacts, BurstIs
  <2>3. BridgeByteAt(sent) \in ByteRange  BY <2>2, Numbers DEF BridgeByteAt
  <2> QED  BY <1>2, <1>3, <2>1, <2>3
<1>4. CASE wire' = "sensor"
  <2> DEFINE b == FrameOf(counter)[Frame - txRemaining']
  <2>1. /\ air' = Append(air, b)
        /\ counter' = IF txRemaining' = 0 THEN (counter + 1) % Bytes ELSE counter
    BY <1>4 DEF Tick, Bytes
  <2>2. txRemaining \in 0 .. Frame - 1 /\ Frame \in Nat /\ Frame > 0
    BY Numbers DEF SensorInv
  <2>3. txRemaining' = (IF txRemaining > 0 THEN txRemaining ELSE Frame) - 1
    BY <1>1, <1>4, TickFrame
  <2>4. Frame - txRemaining' \in 1 .. Frame
    <3>1. CASE txRemaining > 0
      <4>1. txRemaining' = txRemaining - 1  BY <2>3, <3>1
      <4>2. Frame - (txRemaining - 1) \in 1 .. Frame  BY <2>2, <3>1
      <4> QED  BY <4>1, <4>2
    <3>2. CASE txRemaining = 0
      <4>1. txRemaining' = Frame - 1  BY <2>3, <3>2
      <4>2. Frame - (Frame - 1) \in 1 .. Frame  BY <2>2
      <4> QED  BY <4>1, <4>2
    <3> QED  BY <2>2, <3>1, <3>2
  <2>5. b \in ByteRange
    <3>1. FrameOf(counter) \in Seq(ByteRange) /\ Len(FrameOf(counter)) = Frame  BY <1>2, FrameIs
    <3> QED  BY <2>4, <3>1, ElementOfSeq
  <2> HIDE DEF b
  <2>6. counter' \in ByteRange  BY <1>2, <2>1
  <2> QED  BY <1>4, <2>1, <2>5, <2>6 DEF b
<1> QED  BY <1>1, <1>3, <1>4, TickSends

\* Steps that leave the queues alone and the kernel tick where it is.
LEMMA QueueSame ==
  ASSUME SensorInv, QueueInv, UNCHANGED <<air, rxRing, rxLost, counter, tick>>,
         begun' \in BOOLEAN, NextWake' = NextWake,
         proto' \in {"delayed", "drain", "answer", "clear", "ran"},
         proto' # "delayed" => wake' = 0
  PROVE  QueueInv'
<1>1. UNCHANGED <<air, rxRing, rxLost, counter, tick>>  OBVIOUS
<1>2. Few(Len(rxRing) + Len(air), NextWake, tick)'  BY <1>1 DEF QueueInv, Few
<1> QED  BY <1>1, <1>2 DEF QueueInv

LEMMA QueueTick ==
  ASSUME SensorInv, BridgeInv, QueueInv, Tick
  PROVE  QueueInv'
<1>1. ByteTick /\ Len(air) < 2 /\ UNCHANGED <<rxRing, rxLost, begun, proto>>  BY DEF Tick
<1>2. tick = 0 /\ tick' = ByteTime /\ wake' = wake  BY <1>1 DEF ByteTick
<1>3. PICK b \in ByteRange : air' = Append(air, b) /\ counter' \in ByteRange  BY TickByte
<1>4. Len(rxRing) \in Nat /\ Len(air) \in 0 .. 2 /\ NextWake \in 0 .. KernelTick
      /\ tick \in 0 .. ByteTime
  BY QueueFacts
<1>5. air' \in Seq(ByteRange) /\ Len(air') = Len(air) + 1
  <2>1. air \in Seq(ByteRange)  BY DEF QueueInv
  <2> QED  BY <1>3, <2>1, AppendProperties
<1>6. NextWake' = NextWake  BY <1>1, <1>2 DEF NextWake
<1>7. (Len(rxRing) + Len(air))' = (Len(rxRing) + Len(air)) + 1
      /\ Len(rxRing) + Len(air) \in Nat
  BY <1>1, <1>4, <1>5
<1>8. Few(Len(rxRing) + Len(air), NextWake, tick)'
  <2> DEFINE n == Len(rxRing) + Len(air)
             w == NextWake
  <2>1. Few(n, w, tick) /\ n \in Nat /\ w \in 0 .. KernelTick
    BY <1>4, <1>7 DEF QueueInv
  <2>2. n' = n + 1 /\ w' = w  BY <1>6, <1>7
  <2> HIDE DEF n, w
  <2>3. Few(n + 1, w, ByteTime)  BY <1>2, <1>4, <2>1, FewMore
  <2> QED  BY <1>2, <2>2, <2>3 DEF Few, n, w
<1>9. Len(air') <= 2
  <2>1. \A n \in 0 .. 2 : n < 2 => n + 1 <= 2  OBVIOUS
  <2> QED  BY <1>1, <1>4, <1>5, <2>1
<1> QED  BY <1>1, <1>2, <1>3, <1>5, <1>8, <1>9 DEF QueueInv

LEMMA QueueMoves ==
  ASSUME SensorInv, QueueInv, RxIsr
  PROVE  /\ QueueInv' /\ Flying' = Flying /\ NextWake' = NextWake
         /\ Len(rxRing)' = Len(rxRing) + 1 /\ Len(air) > 0
<1>1. /\ air # <<>> /\ air' = Tail(air)
      /\ UNCHANGED <<vars, counter, begun, proto>>
  BY DEF RxIsr
<1>2. UNCHANGED <<tick, wake>>  BY <1>1 DEF vars, timers
<1>3. /\ rxRing \in Seq(ByteRange) /\ air \in Seq(ByteRange)
  BY DEF QueueInv
<1>4. /\ Append(rxRing, Head(air)) \o Tail(air) = Flying
      /\ Append(rxRing, Head(air)) \in Seq(ByteRange)
      /\ Len(Append(rxRing, Head(air))) = Len(rxRing) + 1
      /\ Tail(air) \in Seq(ByteRange) /\ Len(Tail(air)) = Len(air) - 1
  BY <1>1, <1>3, MoveHead DEF Flying
<1>5. /\ Len(rxRing) \in Nat /\ Len(air) \in 0 .. 2 /\ NextWake \in 0 .. KernelTick
      /\ tick \in 0 .. ByteTime
  BY QueueFacts
<1>6. Len(air) > 0
  <2>1. Len(air) \in Nat \ {0}  BY <1>1, <1>3, EmptySeq
  <2> QED  BY <2>1
<1>7. Len(rxRing) < RxRingBytes
  <2> DEFINE m == Len(rxRing)
             n == Len(air)
             w == NextWake
  <2>1. Few(m + n, w, tick) /\ m \in Nat /\ n \in 0 .. 2 /\ n > 0 /\ w \in 0 .. KernelTick
    BY <1>5, <1>6 DEF QueueInv
  <2> HIDE DEF m, n, w
  <2>2. m + n \in Nat /\ m + n > 0  BY <2>1
  <2>3. (m + n) - 1 < RxRingBytes  BY <1>5, <2>1, <2>2, FewMore
  <2>4. RxRingBytes \in Nat  BY BridgeAssumption
  <2>5. m < RxRingBytes  BY <2>1, <2>3, <2>4
  <2> QED  BY <2>5 DEF m
<1>8. rxRing' = Append(rxRing, Head(air)) /\ rxLost' = rxLost  BY <1>7 DEF RxIsr
<1>9. NextWake' = NextWake  BY <1>1, <1>2 DEF NextWake
<1>10. Flying' = Flying  BY <1>1, <1>4, <1>8 DEF Flying
<1>11. Len(rxRing)' = Len(rxRing) + 1 /\ Len(air)' = Len(air) - 1  BY <1>1, <1>4, <1>8
<1>12. (Len(rxRing) + Len(air))' = Len(rxRing) + Len(air) /\ Len(air)' <= 2
  <2>1. \A m \in Nat, n \in 0 .. 2 : (m + 1) + (n - 1) = m + n /\ n - 1 <= 2  OBVIOUS
  <2>2. (Len(rxRing) + Len(air))' = (Len(rxRing) + 1) + (Len(air) - 1)  BY <1>11
  <2> QED  BY <1>5, <1>11, <2>1, <2>2, Zenon
<1>13. Few(Len(rxRing) + Len(air), NextWake, tick)'
  BY <1>2, <1>9, <1>12 DEF QueueInv, Few
<1>14. QueueInv'
  BY <1>1, <1>2, <1>4, <1>8, <1>12, <1>13 DEF QueueInv
<1> QED  BY <1>6, <1>9, <1>10, <1>11, <1>14

LEMMA QueueTaken ==
  ASSUME SensorInv, QueueInv, ProtoByte
  PROVE  /\ QueueInv' /\ NextWake' = NextWake
         /\ Flying # <<>> /\ Head(Flying) = Head(rxRing) /\ Flying' = Tail(Flying)
         /\ Len(rxRing)' = Len(rxRing) - 1
<1>1. /\ proto = "drain" /\ rxRing # <<>> /\ rxRing' = Tail(rxRing)
      /\ UNCHANGED <<vars, air, rxLost, counter, begun, proto>>
  BY DEF ProtoByte
<1>2. UNCHANGED <<tick, wake>>  BY <1>1 DEF vars, timers
<1>3. rxRing \in Seq(ByteRange) /\ air \in Seq(ByteRange)  BY DEF QueueInv
<1>4. Flying # <<>> /\ Head(Flying) = Head(rxRing) /\ Flying' = Tail(Flying)
  <2>1. Flying' = Tail(rxRing) \o air  BY <1>1 DEF Flying
  <2> QED  BY <1>1, <1>3, <2>1, TailOfConcat DEF Flying
<1>5. rxRing' \in Seq(ByteRange) /\ Len(rxRing)' = Len(rxRing) - 1
  BY <1>1, <1>3, HeadTailProperties
<1>6. Len(rxRing) \in Nat \ {0} /\ Len(air) \in 0 .. 2 /\ NextWake \in 0 .. KernelTick
      /\ tick \in 0 .. ByteTime
  BY <1>1, <1>3, QueueFacts, EmptySeq
<1>7. NextWake' = NextWake  BY <1>1, <1>2 DEF NextWake
<1>8. Few(Len(rxRing) + Len(air), NextWake, tick)'
  <2> DEFINE n == Len(rxRing) + Len(air)
             w == NextWake
  <2>1. Few(n, w, tick) /\ n \in Nat /\ n > 0 /\ w \in 0 .. KernelTick
    BY <1>6 DEF QueueInv
  <2>2. n' = n - 1 /\ w' = w  BY <1>1, <1>5, <1>6, <1>7
  <2> HIDE DEF n, w
  <2>3. Few(n - 1, w, tick)  BY <1>6, <2>1, FewMore
  <2> QED  BY <1>2, <2>2, <2>3 DEF Few, n, w
<1>9. QueueInv'
  BY <1>1, <1>2, <1>5, <1>8 DEF QueueInv
<1> QED  BY <1>4, <1>5, <1>7, <1>9

LEMMA QueueDrained ==
  ASSUME SensorInv, QueueInv, ProtoDrained
  PROVE  /\ QueueInv' /\ Flying' = Flying /\ Len(rxRing) = 0 /\ Len(rxRing)' = 0
         /\ NextWake' = KernelTick
<1>1. /\ proto = "drain" /\ rxRing = <<>> /\ proto' \in {"answer", "ran"}
      /\ UNCHANGED <<vars, air, rxRing, rxLost, counter, begun>>
  BY DEF ProtoDrained, uart
<1>2. UNCHANGED <<tick, wake>>  BY <1>1 DEF vars, timers
<1>3. wake = 0  BY <1>1 DEF QueueInv
<1>4. Len(rxRing) = 0 /\ Len(rxRing)' = 0 /\ Flying' = Flying  BY <1>1 DEF Flying
<1>5. NextWake' = KernelTick  BY <1>1 DEF NextWake
<1>6. Len(air) \in 0 .. 2 /\ tick \in 0 .. ByteTime  BY QueueFacts
<1>7. Few(Len(rxRing) + Len(air), NextWake, tick)'
  <2> DEFINE n == Len(air)
  <2>1. n \in 0 .. 2 /\ 2 \in Int /\ n \in Int  BY <1>6
  <2> HIDE DEF n
  <2>2. n <= 2  BY <2>1
  <2>3. ByteTime * n <= ByteTime * 2 /\ ByteTime * n \in Int /\ ByteTime * 2 \in Int
    BY <2>1, <2>2, Times
  <2>4. 0 + n = n  BY <2>1
  <2>5. Few(0 + n, KernelTick, tick)  BY <1>6, <2>3, <2>4, Constants DEF Few
  <2>6. n' = n  BY <1>1 DEF n
  <2> QED  BY <1>2, <1>4, <1>5, <2>5, <2>6 DEF Few, n
<1>8. QueueInv'
  <2>1. proto' \in {"delayed", "drain", "answer", "clear", "ran"}  BY <1>1
  <2> QED  BY <1>1, <1>2, <1>3, <1>7, <2>1 DEF QueueInv
<1> QED  BY <1>4, <1>5, <1>8

LEMMA QueueTime ==
  ASSUME SensorInv, QueueInv, Time
  PROVE  /\ QueueInv' /\ Earliest \in Nat
         /\ NextWake' = NextWake - Earliest /\ tick' = tick - Earliest
         /\ slot' = slot - Earliest
<1>1. Advance /\ UNCHANGED <<air, rxRing, rxLost, counter, begun, proto>>  BY DEF Time, uart
<1>2. Earliest > 0 /\ tick' = tick - Earliest /\ wake' = wake - Earliest
      /\ slot' = slot - Earliest
  BY <1>1 DEF Advance
<1>3. Earliest \in Nat /\ Earliest <= wake /\ wake \in 0 .. KernelTick
  <2>1. tick \in Nat /\ slot \in Nat /\ wake \in Nat /\ wake \in 0 .. KernelTick
    BY Constants DEF SensorInv, Clocks
  <2> QED  BY <2>1, EarliestIs
<1>4. wake # 0  BY <1>2, <1>3
<1>5. proto = "delayed"  BY <1>4 DEF QueueInv
<1>6. NextWake = wake /\ NextWake' = NextWake - Earliest
  BY <1>1, <1>2, <1>5 DEF NextWake
<1>7. Len(rxRing) \in Nat /\ Len(air) \in 0 .. 2 /\ NextWake \in 0 .. KernelTick
      /\ tick \in 0 .. ByteTime
  BY QueueFacts
<1>8. Few(Len(rxRing) + Len(air), NextWake, tick)'
  <2> DEFINE n == Len(rxRing) + Len(air)
             w == NextWake
             e == Earliest
  <2>1. Few(n, w, tick) /\ n \in Nat /\ w \in 0 .. KernelTick /\ e \in Nat
    BY <1>3, <1>7 DEF QueueInv
  <2>2. n' = n /\ w' = w - e /\ tick' = tick - e  BY <1>1, <1>2, <1>6
  <2> HIDE DEF n, w, e
  <2>3. Few(n, w - e, tick - e)  BY <1>7, <2>1, FewMore
  <2> QED  BY <2>2, <2>3 DEF Few, n, w
<1>9. QueueInv'
  BY <1>1, <1>5, <1>8 DEF QueueInv
<1> QED  BY <1>2, <1>3, <1>6, <1>9

\* The other steps: they leave the queues alone.
OtherStep ==
  \/ Slot \/ Push \/ ProtoWakes \/ ProtoAnswers \/ ProtoClears \/ SensorWakes \/ SensorFills

LEMMA OtherQueue ==
  ASSUME SensorInv, QueueInv, OtherStep
  PROVE  /\ UNCHANGED <<air, rxRing, rxLost, counter, tick, rx>>
         /\ begun' \in BOOLEAN /\ NextWake' = NextWake
         /\ proto' \in {"delayed", "drain", "answer", "clear", "ran"}
         /\ proto' # "delayed" => wake' = 0
<1>1. /\ proto \in {"delayed", "drain", "answer", "clear", "ran"}
      /\ proto # "delayed" => wake = 0
      /\ begun \in BOOLEAN
  BY DEF QueueInv
<1>2. CASE Slot
  <2>1. CanSlot /\ UNCHANGED <<air, rxRing, rxLost, counter, rx, proto>>
        /\ begun' = IF Starts THEN ~begun ELSE begun
    BY <1>2 DEF Slot, uart
  <2>2. UNCHANGED <<tick, wake>>  BY <2>1 DEF CanSlot
  <2>3. begun' \in BOOLEAN  BY <1>1, <2>1
  <2> QED  BY <1>1, <2>1, <2>2, <2>3 DEF NextWake
<1>3. CASE Push
  <2>1. CanPush /\ UNCHANGED <<air, rxRing, rxLost, counter, rx, proto, begun>>
    BY <1>3 DEF Push, uart
  <2>2. UNCHANGED <<tick, wake>>  BY <2>1 DEF CanPush, timers
  <2> QED  BY <1>1, <2>1, <2>2 DEF NextWake
<1>4. CASE ProtoWakes
  <2>1. /\ UNCHANGED <<air, rxRing, rxLost, counter, rx, begun, tick, wake>>
        /\ wake = 0 /\ proto = "delayed" /\ proto' = "drain"
    BY <1>4 DEF ProtoWakes, uart, vars, timers
  <2> QED  BY <1>1, <2>1 DEF NextWake
<1>5. CASE ProtoAnswers
  <2>1. /\ UNCHANGED <<air, rxRing, rxLost, counter, rx, begun, tick, wake>>
        /\ proto = "answer" /\ proto' = "clear"
    BY <1>5 DEF ProtoAnswers, uart, vars, timers
  <2> QED  BY <1>1, <2>1 DEF NextWake
<1>6. CASE ProtoClears
  <2>1. /\ UNCHANGED <<air, rxRing, rxLost, counter, rx, begun, tick, wake>>
        /\ proto = "clear" /\ proto' = "ran"
    BY <1>6 DEF ProtoClears, uart, vars, timers
  <2> QED  BY <1>1, <2>1 DEF NextWake
<1>7. CASE SensorWakes
  <2>1. /\ UNCHANGED <<air, rxRing, rxLost, counter, rx, begun, tick>> /\ wake' = KernelTick
        /\ proto = "ran" /\ proto' = "delayed"
    BY <1>7 DEF SensorWakes, SensorTask, uart
  <2> QED  BY <1>1, <2>1 DEF NextWake
<1>8. CASE SensorFills
  <2>1. SensorPush /\ UNCHANGED <<air, rxRing, rxLost, counter, rx, proto, begun>>
    BY <1>8 DEF SensorFills, uart
  <2>2. UNCHANGED <<tick, wake>>  BY <2>1 DEF SensorPush, timers
  <2> QED  BY <1>1, <2>1, <2>2 DEF NextWake
<1> QED  BY <1>2, <1>3, <1>4, <1>5, <1>6, <1>7, <1>8 DEF OtherStep

LEMMA QueueNext == SensorInv /\ BridgeInv /\ QueueInv /\ [BridgeNext]_allVars => QueueInv'
<1> SUFFICES ASSUME SensorInv, BridgeInv, QueueInv, [BridgeNext]_allVars PROVE QueueInv'
  OBVIOUS
<1>1. CASE OtherStep
  BY <1>1, OtherQueue, QueueSame
<1>2. CASE Tick  BY <1>2, QueueTick
<1>3. CASE RxIsr  BY <1>3, QueueMoves
<1>4. CASE ProtoByte  BY <1>4, QueueTaken
<1>5. CASE ProtoDrained  BY <1>5, QueueDrained
<1>6. CASE Time  BY <1>6, QueueTime
<1>7. CASE SweepHandsBack
  <2>1. /\ UNCHANGED <<air, rxRing, counter, proto, tick, wake>>
        /\ rxLost' = FALSE /\ begun' = FALSE
    BY <1>7 DEF SweepHandsBack, timers
  <2>2. ~rxLost' /\ rxLost' \in BOOLEAN /\ begun' \in BOOLEAN  BY <2>1
  <2>3. NextWake' = NextWake  BY <2>1 DEF NextWake
  <2>4. Few(Len(rxRing) + Len(air), NextWake, tick)'  BY <2>1, <2>3 DEF QueueInv, Few
  <2> QED  BY <2>1, <2>2, <2>4 DEF QueueInv
<1>8. CASE UNCHANGED allVars
  <2>1. UNCHANGED <<air, rxRing, rxLost, counter, tick, wake, begun, proto>>
    BY <1>8 DEF allVars, uart, vars, timers
  <2>2. NextWake' = NextWake  BY <2>1 DEF NextWake
  <2>3. Few(Len(rxRing) + Len(air), NextWake, tick)'  BY <2>1, <2>2 DEF QueueInv, Few
  <2> QED  BY <2>1, <2>3 DEF QueueInv
<1> QED
  BY <1>1, <1>2, <1>3, <1>4, <1>5, <1>6, <1>7, <1>8
  DEF BridgeNext, Machine, Steps, OtherStep

(***************************************************************************)
(* The verifier is where the sender is, but for what is on its way.        *)
(***************************************************************************)

\* All of the burst is sent.
Through == sent = 0 /\ bridge = 0 /\ pushing = 0 /\ Due = Burst

\* The sender is at place x.
Sender(x) ==
  /\ Count(x.f) = counter
  /\ x.done = IF txRemaining = 0 THEN 0 ELSE Frame - txRemaining
  /\ x.sent = sent
  /\ x.whole = IF Through THEN begun ELSE ~begun

\* Of n bytes that are on their way along p, m of them in the ring, those of
\* the burst that is through, of parity g, are taken before the next begins.
Timely(p, n, m, w, t, z, g) ==
  \A i \in 1 .. n : p[i - 1].whole # g =>
    IF i <= m THEN w < z ELSE t + ByteTime * (1 - (n - i)) + KernelTick < z

Flight(p) ==
  /\ Path(p, Flying, rx, handed)
  /\ Sender(p[Len(Flying)])
  /\ Through => Timely(p, Len(Flying), Len(rxRing), NextWake, tick, ToBurst, begun)

FlightInv == \E p : Flight(p)

LEMMA ToBurstIs == ASSUME SensorInv, BridgeInv PROVE ToBurst \in Int
<1>1. tp.slot \in 0 .. Slots /\ tp.since \in 0 .. Period - 1 /\ slot \in 0 .. SlotTime
  BY BridgeFacts DEF SensorInv, Clocks
<1>2. SlotsToBurst \in Int  BY <1>1, Constants, BurstIs DEF SlotsToBurst
<1> DEFINE k == SlotsToBurst
<1>3. k \in Int  BY <1>2
<1> HIDE DEF k
<1>4. SlotTime * k \in Int  BY <1>3, Constants
<1> QED  BY <1>1, <1>4, Constants DEF ToBurst, k

\* A byte of a frame is sent after the burst.
LEMMA TimelySent ==
  ASSUME NEW p, NEW q, NEW n \in Nat, NEW m \in Nat, NEW w, NEW z \in Int, NEW g,
         m <= n, Timely(p, n, m, w, 0, z, g), p[n].whole = g,
         \A i \in 0 .. n : q[i] = p[i]
  PROVE  Timely(q, n + 1, m, w, ByteTime, z, g)
<1> SUFFICES ASSUME NEW i \in 1 .. n + 1, q[i - 1].whole # g
             PROVE  IF i <= m THEN w < z
                    ELSE ByteTime + ByteTime * (1 - ((n + 1) - i)) + KernelTick < z
  BY DEF Timely
<1>1. i - 1 \in 0 .. n  OBVIOUS
<1>2. p[i - 1].whole # g  BY <1>1
<1>3. i \in 1 .. n
  <2>1. i # n + 1
    <3>1. ASSUME i = n + 1 PROVE FALSE
      <4>1. i - 1 = n  BY <3>1
      <4> QED  BY <1>2, <4>1
    <3> QED  BY <3>1
  <2> QED  BY <2>1
<1>4. IF i <= m THEN w < z ELSE 0 + ByteTime * (1 - (n - i)) + KernelTick < z
  BY <1>2, <1>3 DEF Timely
<1>5. ByteTime * (1 - ((n + 1) - i)) = ByteTime * (1 - (n - i)) - ByteTime
      /\ ByteTime * (1 - (n - i)) \in Int
  <2>1. 1 - (n - i) \in Int /\ 1 \in Int /\ 1 - ((n + 1) - i) = (1 - (n - i)) - 1  OBVIOUS
  <2> QED  BY <2>1, Times
<1> QED  BY <1>4, <1>5, Constants

\* The last byte of the burst is sent.
LEMMA TimelyEnd ==
  ASSUME NEW q, NEW n \in Nat, NEW m \in Nat, NEW w \in 0 .. KernelTick, NEW z \in Int,
         NEW g, n - m <= 1, ByteTime + ByteTime + KernelTick < z
  PROVE  Timely(q, n + 1, m, w, ByteTime, z, g)
<1> SUFFICES ASSUME NEW i \in 1 .. n + 1
             PROVE  IF i <= m THEN w < z
                    ELSE ByteTime + ByteTime * (1 - ((n + 1) - i)) + KernelTick < z
  BY DEF Timely
<1>1. CASE i <= m  BY <1>1, Constants
<1>2. CASE ~(i <= m)
  <2>1. 1 - ((n + 1) - i) \in Int /\ 1 \in Int /\ 1 - ((n + 1) - i) <= 1  OBVIOUS
  <2>2. ByteTime * (1 - ((n + 1) - i)) <= ByteTime
        /\ ByteTime * (1 - ((n + 1) - i)) \in Int
    BY <2>1, Times
  <2> QED  BY <1>2, <2>2, Constants
<1> QED  BY <1>1, <1>2

\* A byte goes into the ring, and out of it; the ring is empty; time goes on.
LEMMA TimelyMoved ==
  ASSUME NEW p, NEW n \in Nat, NEW m \in Nat, NEW w \in 0 .. KernelTick, NEW t \in Nat,
         NEW z \in Int, NEW g, Timely(p, n, m, w, t, z, g), n - m \in 1 .. 2
  PROVE  Timely(p, n, m + 1, w, t, z, g)
<1> SUFFICES ASSUME NEW i \in 1 .. n, p[i - 1].whole # g
             PROVE  IF i <= m + 1 THEN w < z
                    ELSE t + ByteTime * (1 - (n - i)) + KernelTick < z
  BY DEF Timely
<1>1. IF i <= m THEN w < z ELSE t + ByteTime * (1 - (n - i)) + KernelTick < z
  BY DEF Timely
<1>2. CASE i <= m  BY <1>1, <1>2
<1>3. CASE i = m + 1
  <2>1. 0 <= 1 - (n - i) /\ 1 - (n - i) \in Int /\ 0 \in Int  BY <1>3
  <2>2. 0 <= ByteTime * (1 - (n - i)) /\ ByteTime * (1 - (n - i)) \in Int  BY <2>1, Times
  <2> QED  BY <1>1, <1>3, <2>2, Constants
<1>4. CASE i > m + 1  BY <1>1, <1>4
<1> QED  BY <1>2, <1>3, <1>4

LEMMA TimelyTaken ==
  ASSUME NEW p, NEW q, NEW n \in Nat, NEW m \in Nat, NEW w, NEW t, NEW z, NEW g,
         Timely(p, n, m, w, t, z, g), \A i \in 0 .. n - 1 : q[i] = p[i + 1]
  PROVE  Timely(q, n - 1, m - 1, w, t, z, g)
<1> SUFFICES ASSUME NEW i \in 1 .. n - 1, q[i - 1].whole # g
             PROVE  IF i <= m - 1 THEN w < z
                    ELSE t + ByteTime * (1 - ((n - 1) - i)) + KernelTick < z
  BY DEF Timely
<1>1. i + 1 \in 1 .. n /\ (i + 1) - 1 = i /\ n - (i + 1) = (n - 1) - i
      /\ i - 1 \in 0 .. n - 1 /\ (i - 1) + 1 = i
      /\ (i + 1 <= m <=> i <= m - 1)
  OBVIOUS
<1>2. p[(i + 1) - 1].whole # g
  <2>1. q[i - 1] = p[(i - 1) + 1]  BY <1>1
  <2> QED  BY <1>1, <2>1
<1>3. IF i + 1 <= m THEN w < z ELSE t + ByteTime * (1 - (n - (i + 1))) + KernelTick < z
  BY <1>1, <1>2 DEF Timely
<1> QED  BY <1>1, <1>3

LEMMA TimelyDrained ==
  ASSUME NEW p, NEW n \in Nat, NEW w, NEW x, NEW t, NEW z, NEW g, Timely(p, n, 0, w, t, z, g)
  PROVE  Timely(p, n, 0, x, t, z, g)
<1>1. \A i \in 1 .. n : ~(i <= 0)  OBVIOUS
<1> QED  BY <1>1 DEF Timely

LEMMA TimelyLater ==
  ASSUME NEW p, NEW n \in Nat, NEW m \in Nat, NEW w \in Nat, NEW t \in Nat, NEW z \in Int,
         NEW g, NEW e \in Nat, Timely(p, n, m, w, t, z, g)
  PROVE  Timely(p, n, m, w - e, t - e, z - e, g)
<1> SUFFICES ASSUME NEW i \in 1 .. n, p[i - 1].whole # g
             PROVE  IF i <= m THEN w - e < z - e
                    ELSE (t - e) + ByteTime * (1 - (n - i)) + KernelTick < z - e
  BY DEF Timely
<1>1. IF i <= m THEN w < z ELSE t + ByteTime * (1 - (n - i)) + KernelTick < z
  BY DEF Timely
<1>2. 1 - (n - i) \in Int  OBVIOUS
<1>3. ByteTime * (1 - (n - i)) \in Int  BY <1>2, Times
<1> QED  BY <1>1, <1>3, Constants

\* What a slot does to a burst that is through, or not.
LEMMA ThroughSlot ==
  ASSUME SensorInv, BridgeInv, CanSlot
  PROVE  /\ Starts => Through /\ ~Through'
         /\ ~Starts => (Through' <=> Through)
<1> USE Constants, BurstIs
<1>1. /\ tp.active \in BOOLEAN /\ tp.slot \in 0 .. Slots
      /\ (tp.active => tp.slot \in 1 .. Slots - 1)
      /\ pushing = 0 /\ UNCHANGED <<bridge, sent>> /\ bridge \in Nat /\ sent \in Nat
  BY BridgeFacts DEF CanSlot
<1>2. CASE Starts
  <2>1. ~tp.active /\ tp'.active /\ tp'.slot = 1  BY <1>2, SlotSteps
  <2>2. AtRest
    <3>1. ToBurst = 0  BY <1>2, SlotToBurst
    <3>2. SUFFICES ASSUME ~AtRest PROVE FALSE  OBVIOUS
    <3>3. tick + ByteTime * (bridge + txRemaining) + Margin < ToBurst
      BY <2>1, <3>2 DEF BridgeInv, Drains
    <3>4. bridge + txRemaining \in Nat /\ tick \in Nat
      BY <1>1 DEF SensorInv, Clocks
    <3>5. ByteTime * (bridge + txRemaining) \in Nat  BY <3>4
    <3> QED  BY <3>1, <3>3, <3>4, <3>5, MarginIs
  <2>3. Through  BY <2>1, <2>2 DEF AtRest, Through, Due
  <2>4. Due' = 0  BY <2>1, OtherSlots DEF Due
  <2>5. Burst # 0  OBVIOUS
  <2> QED  BY <1>2, <2>3, <2>4, <2>5 DEF Through
<1>3. CASE ~tp.active /\ ~Starts
  <2>1. ~tp'.active /\ pushing' = 0  BY <1>3, SlotSteps
  <2>2. Due = Burst /\ Due' = Burst  BY <1>3, <2>1 DEF Due
  <2> QED  BY <1>1, <1>3, <2>1, <2>2 DEF Through
<1>4. CASE tp.active
  <2> DEFINE s == tp.slot
  <2>1. /\ ~Starts /\ tp'.slot = s + 1 /\ (tp'.active <=> s + 1 < Slots)
        /\ pushing' = IF Kind(s) = "consecutive" THEN Payload ELSE 0
    BY <1>4, SlotSteps
  <2>2. s \in 1 .. Slots - 1 /\ Due = Made(s)  BY <1>1, <1>4 DEF Due
  <2> HIDE DEF s
  <2>3. CASE s >= Slots - 2
    <3>1. Made(s) = Burst /\ pushing' = 0  BY <2>1, <2>2, <2>3, OtherSlots
    <3>2. s + 1 \in Nat /\ s + 1 >= Slots - 2  BY <2>2, <2>3
    <3>3. Made(s + 1) = Burst  BY <3>2, OtherSlots
    <3>4. Due' = Burst  BY <2>1, <3>3 DEF Due
    <3> QED  BY <1>1, <2>1, <2>2, <3>1, <3>4 DEF Through
  <2>4. CASE s \in 1 .. Slots - 3
    <3>1. /\ Made(s) \in 0 .. Burst - 1
          /\ Kind(s) # "consecutive" => Made(s + 1) = Made(s)
      BY <2>4, SlotIs
    <3>2. ~Through  BY <2>2, <3>1 DEF Through
    <3>3. CASE Kind(s) = "consecutive"
      <4>1. pushing' = Payload /\ Payload # 0  BY <2>1, <3>3
      <4> QED  BY <2>1, <3>2, <4>1 DEF Through
    <3>4. CASE Kind(s) # "consecutive"
      <4>1. s + 1 < Slots  BY <2>4
      <4>2. Due' = Made(s)  BY <2>1, <3>1, <3>4, <4>1 DEF Due
      <4> QED  BY <2>1, <3>1, <3>2, <4>2 DEF Through
    <3> QED  BY <3>3, <3>4
  <2> QED  BY <2>2, <2>3, <2>4
<1> QED  BY <1>1, <1>2, <1>3, <1>4

LEMMA FlightSlot ==
  ASSUME SensorInv, BridgeInv, QueueInv, Slot, handed' = handed, NEW p, Flight(p)
  PROVE  Flight(p)'
<1>1. /\ CanSlot /\ UNCHANGED <<air, rxRing, counter, rx, proto>>
      /\ begun' = IF Starts THEN ~begun ELSE begun
  BY DEF Slot, uart
<1>2. UNCHANGED <<tick, wake, sent, bridge, txRemaining>>
  BY <1>1 DEF CanSlot, arbiter
<1>3. Flying' = Flying /\ NextWake' = NextWake  BY <1>1, <1>2 DEF Flying, NextWake
<1>4. Path(p, Flying, rx, handed)'  BY <1>1, <1>3 DEF Flight
<1> DEFINE x == p[Len(Flying)]
<1>5. /\ Count(x.f) = counter /\ x.done = IF txRemaining = 0 THEN 0 ELSE Frame - txRemaining
      /\ x.sent = sent /\ x.whole = IF Through THEN begun ELSE ~begun
  BY DEF Flight, Sender
<1>6. x' = x  BY <1>3
<1> HIDE DEF x
<1>7. CASE Starts
  <2>1. Through /\ ~Through'  BY <1>1, <1>7, ThroughSlot
  <2>2. begun' = ~begun /\ begun \in BOOLEAN  BY <1>1, <1>7 DEF QueueInv
  <2>3. Sender(x)'  BY <1>1, <1>2, <1>5, <1>6, <2>1, <2>2 DEF Sender
  <2> QED  BY <1>4, <2>1, <2>3 DEF Flight, x
<1>8. CASE ~Starts
  <2>1. (Through' <=> Through) /\ begun' = begun  BY <1>1, <1>8, ThroughSlot
  <2>2. ToBurst' = ToBurst  BY <1>1, <1>8, SlotToBurst
  <2>3. Sender(x)'  BY <1>1, <1>2, <1>5, <1>6, <2>1 DEF Sender
  <2>4. (Through => Timely(p, Len(Flying), Len(rxRing), NextWake, tick, ToBurst, begun))'
    BY <1>1, <1>2, <1>3, <2>1, <2>2 DEF Flight, Timely
  <2> QED  BY <1>4, <2>3, <2>4 DEF Flight, x
<1> QED  BY <1>7, <1>8

\* A slot pushes a byte: the burst is not through.
LEMMA FlightPush ==
  ASSUME SensorInv, BridgeInv, QueueInv, Push, handed' = handed, NEW p, Flight(p)
  PROVE  Flight(p)'
<1>1. /\ CanPush /\ UNCHANGED <<air, rxRing, counter, rx, proto, begun>>
  BY DEF Push, uart
<1>2. UNCHANGED <<tick, wake, sent, txRemaining>> /\ pushing > 0
  BY <1>1 DEF CanPush, arbiter, timers
<1>3. Flying' = Flying  BY <1>1 DEF Flying
<1>4. ~Through /\ ~Through'
  <2>1. bridge \in Nat /\ pushing \in Nat  BY BridgeFacts, Constants
  <2>2. BridgeInv'  BY <1>1, RingNext DEF Next
  <2>3. ~(lost' = TRUE)
    <3>1. ~lost'  BY <2>2 DEF BridgeInv
    <3>2. ASSUME lost' = TRUE PROVE FALSE
      <4>1. lost'  BY <3>2, Zenon
      <4> QED  BY <3>1, <4>1
    <3> QED  BY <3>2, Zenon
  <2>4. bridge' = bridge + 1  BY <1>1, <2>3 DEF CanPush
  <2>5. bridge + 1 # 0  BY <2>1
  <2> QED  BY <1>2, <2>1, <2>4, <2>5 DEF Through
<1>5. Path(p, Flying, rx, handed)'  BY <1>1, <1>3 DEF Flight
<1> DEFINE x == p[Len(Flying)]
<1>6. /\ Count(x.f) = counter /\ x.done = IF txRemaining = 0 THEN 0 ELSE Frame - txRemaining
      /\ x.sent = sent /\ x.whole = IF Through THEN begun ELSE ~begun
  BY DEF Flight, Sender
<1>7. x' = x  BY <1>3
<1> HIDE DEF x
<1>8. Sender(x)'  BY <1>1, <1>2, <1>4, <1>6, <1>7 DEF Sender
<1> QED  BY <1>4, <1>5, <1>8 DEF Flight, x

\* Steps that leave the line and the queues alone.
LEMMA FlightSame ==
  ASSUME UNCHANGED <<air, rxRing, counter, rx, begun, txRemaining, sent, bridge, pushing, tp,
                     slot, tick>>,
         NextWake' = NextWake, handed' = handed, NEW p, Flight(p)
  PROVE  Flight(p)'
<1>1. UNCHANGED <<air, rxRing, counter, rx, begun, txRemaining, sent, bridge, pushing, tp,
                  slot, tick>>
  OBVIOUS
<1>2. Flying' = Flying  BY <1>1 DEF Flying
<1>3. Due' = Due /\ ToBurst' = ToBurst /\ (Through' <=> Through)
  BY <1>1 DEF Due, ToBurst, SlotsToBurst, Through
<1>4. Path(p, Flying, rx, handed)'  BY <1>1, <1>2 DEF Flight
<1>5. Sender(p[Len(Flying)])'  BY <1>1, <1>2, <1>3 DEF Flight, Sender
<1>6. (Through => Timely(p, Len(Flying), Len(rxRing), NextWake, tick, ToBurst, begun))'
  BY <1>1, <1>2, <1>3 DEF Flight, Timely
<1> QED  BY <1>4, <1>5, <1>6 DEF Flight

LEMMA FlightMoves ==
  ASSUME SensorInv, BridgeInv, QueueInv, RxIsr, handed' = handed, NEW p, Flight(p)
  PROVE  Flight(p)'
<1>1. UNCHANGED <<vars, counter, begun, rx>>  BY DEF RxIsr
<1>2. UNCHANGED <<tick, slot, tp, pushing, bridge, sent, txRemaining>>
  BY <1>1 DEF vars, timers, arbiter
<1>3. /\ Flying' = Flying /\ NextWake' = NextWake
      /\ Len(rxRing)' = Len(rxRing) + 1 /\ Len(air) > 0
  BY QueueMoves
<1>4. Due' = Due /\ ToBurst' = ToBurst /\ (Through' <=> Through)
  BY <1>2 DEF Due, ToBurst, SlotsToBurst, Through
<1>5. Path(p, Flying, rx, handed)'  BY <1>1, <1>3 DEF Flight
<1>6. Sender(p[Len(Flying)])'  BY <1>1, <1>2, <1>3, <1>4 DEF Flight, Sender
<1>7. ASSUME Through
      PROVE  Timely(p, Len(Flying), Len(rxRing), NextWake, tick, ToBurst, begun)'
  <2> DEFINE n == Len(Flying)
             m == Len(rxRing)
             w == NextWake
             z == ToBurst
  <2>1. n \in Nat /\ m \in Nat /\ n - m \in 1 .. 2 /\ w \in 0 .. KernelTick /\ tick \in Nat
    <3>1. \A i \in Nat, j \in 0 .. 2 : j > 0 => i + j \in Nat /\ (i + j) - i \in 1 .. 2
      OBVIOUS
    <3>2. Len(rxRing) \in Nat /\ Len(air) \in 0 .. 2 /\ Len(Flying) = Len(rxRing) + Len(air)
          /\ w \in 0 .. KernelTick /\ tick \in 0 .. ByteTime
      BY QueueFacts
    <3>3. tick \in Nat  BY <3>2, Constants
    <3> QED  BY <1>3, <3>1, <3>2, <3>3, Zenon
  <2>2. z \in Int  BY ToBurstIs
  <2>3. Timely(p, n, m, w, tick, z, begun)  BY <1>7 DEF Flight
  <2>4. n' = n /\ m' = m + 1 /\ w' = w /\ z' = z /\ tick' = tick /\ begun' = begun
    BY <1>1, <1>2, <1>3, <1>4
  <2> HIDE DEF n, m, w, z
  <2>5. Timely(p, n, m + 1, w, tick, z, begun)  BY <2>1, <2>2, <2>3, TimelyMoved
  <2>6. Timely(p, n', m', w', tick', z', begun')  BY <2>4, <2>5
  <2> QED  BY <2>6 DEF n, m, w, z, Timely
<1> QED  BY <1>4, <1>5, <1>6, <1>7 DEF Flight

LEMMA FlightDrained ==
  ASSUME SensorInv, BridgeInv, QueueInv, ProtoDrained, handed' = handed, NEW p, Flight(p)
  PROVE  Flight(p)'
<1>1. UNCHANGED <<vars, counter, begun, rx>>  BY DEF ProtoDrained, uart
<1>2. UNCHANGED <<tick, slot, tp, pushing, bridge, sent, txRemaining>>
  BY <1>1 DEF vars, timers, arbiter
<1>3. Flying' = Flying /\ Len(rxRing) = 0 /\ Len(rxRing)' = 0
  BY QueueDrained
<1>4. Due' = Due /\ ToBurst' = ToBurst /\ (Through' <=> Through)
  BY <1>2 DEF Due, ToBurst, SlotsToBurst, Through
<1>5. Path(p, Flying, rx, handed)'  BY <1>1, <1>3 DEF Flight
<1>6. Sender(p[Len(Flying)])'  BY <1>1, <1>2, <1>3, <1>4 DEF Flight, Sender
<1>7. ASSUME Through
      PROVE  Timely(p, Len(Flying), Len(rxRing), NextWake, tick, ToBurst, begun)'
  <2> DEFINE n == Len(Flying)
             w == NextWake
             z == ToBurst
  <2>1. n \in Nat
    <3>1. Flying \in Seq(ByteRange)  BY QueueFacts
    <3> QED  BY <3>1, LenProperties
  <2>2. Timely(p, n, 0, w, tick, z, begun)  BY <1>3, <1>7 DEF Flight
  <2>3. n' = n /\ Len(rxRing)' = 0 /\ z' = z /\ tick' = tick /\ begun' = begun
    BY <1>1, <1>2, <1>3, <1>4
  <2> HIDE DEF n, w, z
  <2>4. Timely(p, n, 0, w', tick, z, begun)  BY <2>1, <2>2, TimelyDrained
  <2>5. Timely(p, n', Len(rxRing)', w', tick', z', begun')  BY <2>3, <2>4
  <2> QED  BY <2>5 DEF n, w, z, Timely
<1> QED  BY <1>4, <1>5, <1>6, <1>7 DEF Flight

LEMMA FlightTime ==
  ASSUME SensorInv, BridgeInv, QueueInv, Time, handed' = handed, NEW p, Flight(p)
  PROVE  Flight(p)'
<1>1. Advance /\ UNCHANGED <<air, rxRing, counter, begun, rx>>  BY DEF Time, uart
<1>2. UNCHANGED <<tp, pushing, bridge, sent, txRemaining>>
  BY <1>1 DEF Advance, arbiter
<1>3. Flying' = Flying  BY <1>1 DEF Flying
<1>4. /\ Earliest \in Nat /\ NextWake' = NextWake - Earliest
      /\ tick' = tick - Earliest /\ slot' = slot - Earliest
  BY QueueTime
<1>5. Due' = Due /\ (Through' <=> Through)
  BY <1>2 DEF Due, Through
<1>6. ToBurst' = ToBurst - Earliest
  <2>1. SlotsToBurst' = SlotsToBurst  BY <1>2 DEF SlotsToBurst
  <2>2. SlotsToBurst \in Int /\ slot \in Int
    <3>1. tp.slot \in 0 .. Slots /\ tp.since \in 0 .. Period - 1 /\ slot \in 0 .. SlotTime
      BY BridgeFacts DEF SensorInv, Clocks
    <3> QED  BY <3>1, Constants, BurstIs DEF SlotsToBurst
  <2> DEFINE k == SlotsToBurst
  <2>3. k' = k /\ k \in Int  BY <2>1, <2>2
  <2> HIDE DEF k
  <2>4. SlotTime * k \in Int  BY <2>3, Constants
  <2>5. ToBurst = slot + SlotTime * k /\ ToBurst' = slot' + SlotTime * k
    BY <2>3 DEF ToBurst, k
  <2> QED  BY <1>4, <2>2, <2>4, <2>5
<1>7. Path(p, Flying, rx, handed)'  BY <1>1, <1>3 DEF Flight
<1>8. Sender(p[Len(Flying)])'  BY <1>1, <1>2, <1>3, <1>5 DEF Flight, Sender
<1>9. ASSUME Through
      PROVE  Timely(p, Len(Flying), Len(rxRing), NextWake, tick, ToBurst, begun)'
  <2> DEFINE n == Len(Flying)
             m == Len(rxRing)
             w == NextWake
             z == ToBurst
             e == Earliest
  <2>1. n \in Nat /\ m \in Nat /\ w \in Nat /\ tick \in Nat /\ z \in Int /\ e \in Nat
    <3>1. m \in Nat /\ w \in 0 .. KernelTick /\ tick \in 0 .. ByteTime
          /\ Flying \in Seq(ByteRange)
      BY QueueFacts
    <3>2. n \in Nat  BY <3>1, LenProperties
    <3>3. w \in Nat /\ tick \in Nat  BY <3>1, Constants
    <3> QED  BY <1>4, <3>1, <3>2, <3>3, ToBurstIs
  <2>2. Timely(p, n, m, w, tick, z, begun)  BY <1>9 DEF Flight
  <2>3. n' = n /\ m' = m /\ w' = w - e /\ z' = z - e /\ tick' = tick - e /\ begun' = begun
    BY <1>1, <1>3, <1>4, <1>6
  <2> HIDE DEF n, m, w, z, e
  <2>4. Timely(p, n, m, w - e, tick - e, z - e, begun)  BY <2>1, <2>2, TimelyLater
  <2>5. Timely(p, n', m', w', tick', z', begun')  BY <2>3, <2>4
  <2> QED  BY <2>5 DEF n, m, w, z, Timely
<1> QED  BY <1>5, <1>7, <1>8, <1>9 DEF Flight

\* The verifier takes a byte.
LEMMA FlightTaken ==
  ASSUME SensorInv, BridgeInv, QueueInv, ProtoByte, handed' = handed, NEW p, Flight(p)
  PROVE  \E q : Flight(q)'
<1>1. UNCHANGED <<vars, counter, begun>> /\ rx' = RxByte(rx, Head(rxRing))
  BY DEF ProtoByte
<1>2. UNCHANGED <<tick, slot, tp, pushing, bridge, sent, txRemaining>>
  BY <1>1 DEF vars, timers, arbiter
<1>3. /\ NextWake' = NextWake /\ Flying # <<>> /\ Head(Flying) = Head(rxRing)
      /\ Flying' = Tail(Flying) /\ Len(rxRing)' = Len(rxRing) - 1
  BY QueueTaken
<1>4. Due' = Due /\ ToBurst' = ToBurst /\ (Through' <=> Through)
  BY <1>2 DEF Due, ToBurst, SlotsToBurst, Through
<1>5. PICK q : /\ Path(q, Tail(Flying), RxByte(rx, Head(Flying)), handed)
               /\ Len(Tail(Flying)) = Len(Flying) - 1
               /\ \A i \in 0 .. Len(Flying) - 1 : q[i] = p[i + 1]
  <2> DEFINE s == Flying
             u == [i \in 0 .. Len(s) - 1 |-> p[i + 1]]
  <2>1. Path(p, s, rx, handed) /\ s # <<>>  BY <1>3 DEF Flight
  <2> HIDE DEF s
  <2>2. /\ Path(u, Tail(s), RxByte(rx, Head(s)), handed)
        /\ Len(Tail(s)) = Len(s) - 1
        /\ \A i \in 0 .. Len(s) - 1 : u[i] = p[i + 1]
    BY <2>1, PathMoves
  <2> HIDE DEF u
  <2> QED  BY <2>2 DEF s
<1>6. Path(q, Flying, rx, handed)'  BY <1>1, <1>3, <1>5
<1> DEFINE n == Len(Flying)
           m == Len(rxRing)
           w == NextWake
           z == ToBurst
<1>7. n \in Nat /\ n > 0 /\ m \in Nat
  <2>1. Flying \in Seq(ByteRange) /\ m \in Nat  BY QueueFacts
  <2>2. n \in Nat \ {0}  BY <1>3, <2>1, EmptySeq
  <2> QED  BY <2>1, <2>2
<1>8. n' = n - 1 /\ m' = m - 1 /\ w' = w /\ z' = z /\ tick' = tick /\ begun' = begun
  BY <1>1, <1>2, <1>3, <1>4, <1>5
<1>9. Sender(p[n]) /\ (Through => Timely(p, n, m, w, tick, z, begun))  BY DEF Flight
<1>10. \A i \in 0 .. n - 1 : q[i] = p[i + 1]  BY <1>5
<1> HIDE DEF n, m, w, z
<1>11. q[n - 1] = p[n]
  <2>1. n - 1 \in 0 .. n - 1 /\ (n - 1) + 1 = n  BY <1>7
  <2>2. q[n - 1] = p[(n - 1) + 1]  BY <1>10, <2>1
  <2> QED  BY <2>1, <2>2
<1>12. Sender(q[n])'
  <2>1. q[n'] = p[n]  BY <1>8, <1>11
  <2> QED  BY <1>1, <1>2, <1>4, <1>9, <2>1 DEF Sender
<1>13. ASSUME Through PROVE Timely(q, n, m, w, tick, z, begun)'
  <2>1. Timely(q, n - 1, m - 1, w, tick, z, begun)
    BY <1>7, <1>9, <1>10, <1>13, TimelyTaken
  <2>2. Timely(q, n', m', w', tick', z', begun')  BY <1>8, <2>1
  <2> QED  BY <2>2 DEF Timely
<1> QED  BY <1>4, <1>6, <1>12, <1>13 DEF Flight, n, m, w, z

\* The last byte of a burst is sent long before the next burst.
LEMMA EndIsEarly ==
  ASSUME SensorInv, BridgeInv, tick = 0, bridge > 0, txRemaining = 0
  PROVE  ByteTime + ByteTime + KernelTick < ToBurst
<1> USE Constants, BurstIs
<1>1. /\ bridge \in Nat /\ tp.active \in BOOLEAN /\ tp.slot \in 0 .. Slots
      /\ (tp.active => tp.slot \in 1 .. Slots - 1 /\ tp.since = 0)
      /\ slot \in 0 .. SlotTime
  BY BridgeFacts DEF SensorInv, Clocks
<1>2. CASE ~tp.active
  <2>1. ~AtRest  BY <1>1 DEF AtRest
  <2>2. 0 + ByteTime * (bridge + 0) + Margin < ToBurst
    BY <1>2, <2>1 DEF BridgeInv, Drains
  <2>3. bridge + 0 \in Int /\ 1 <= bridge + 0 /\ 1 \in Int  BY <1>1
  <2>4. ByteTime <= ByteTime * (bridge + 0) /\ ByteTime * (bridge + 0) \in Int
    BY <2>3, Times
  <2> QED  BY <2>2, <2>4, ToBurstIs DEF Margin
<1>3. CASE tp.active
  <2> DEFINE k == SlotsToBurst
  <2>1. k \in Int /\ Period <= k  BY <1>1, <1>3 DEF SlotsToBurst
  <2>2. ToBurst = slot + SlotTime * k  BY DEF ToBurst
  <2> HIDE DEF k
  <2>3. SlotTime * Period <= SlotTime * k /\ SlotTime * Period \in Int /\ SlotTime * k \in Int
    BY <2>1
  <2>4. ByteTime * (Burst + Frame + 1) + Margin <= SlotTime * Period  BY MarginIs
  <2>5. Burst + Frame + 1 \in Int /\ 2 <= Burst + Frame + 1 /\ 2 \in Int /\ 1 \in Int /\ 1 + 1 = 2
    OBVIOUS
  <2>6. ByteTime * 2 <= ByteTime * (Burst + Frame + 1)
        /\ ByteTime * (Burst + Frame + 1) \in Int /\ ByteTime * 2 = ByteTime + ByteTime
    BY <2>5, Times
  <2> QED  BY <1>1, <2>2, <2>3, <2>4, <2>6 DEF Margin
<1> QED  BY <1>1, <1>2, <1>3

\* Where a byte tick takes the sender, and what that does to the burst.
LEMMA TickGoes ==
  ASSUME SensorInv, BridgeInv, QueueInv, Tick, NEW b,
         wire' = "bridge" => b = BridgeByteAt(sent) /\ counter' = counter,
         wire' = "sensor" =>
           /\ b = FrameOf(counter)[Frame - txRemaining']
           /\ counter' = IF txRemaining' = 0 THEN (counter + 1) % Bytes ELSE counter,
         NEW x \in Places, Sender(x)
  PROVE  \E y \in Places :
           /\ Goes(x, b, y) /\ Sender(y)'
           /\ \/ Through' /\ ~Through /\ ByteTime + ByteTime + KernelTick < ToBurst
              \/ Through' /\ Through /\ x.whole = begun
              \/ ~Through'
<1> USE Constants, BurstIs
<1>1. /\ ByteTick /\ UNCHANGED <<begun, rx>>  BY DEF Tick
<1>2. /\ tick = 0 /\ UNCHANGED <<tp, pushing>>  BY <1>1 DEF ByteTick
<1>3. /\ Count(x.f) = counter
      /\ x.done = IF txRemaining = 0 THEN 0 ELSE Frame - txRemaining
      /\ x.sent = sent /\ x.whole = IF Through THEN begun ELSE ~begun
      /\ x.f \in Nat /\ x.whole \in BOOLEAN
  BY PlaceIs DEF Sender
<1>4. /\ sent \in 0 .. Burst - 1 /\ bridge \in Nat /\ pushing \in Nat /\ Due \in 0 .. Burst
      /\ txRemaining \in 0 .. Frame - 1 /\ begun \in BOOLEAN
  <2>1. pushing \in 0 .. Payload  BY BridgeFacts
  <2>2. pushing \in Nat  BY <2>1
  <2> QED  BY <2>2, BridgeFacts DEF SensorInv, QueueInv
<1>5. Due' = Due  BY <1>2 DEF Due
<1>6. CASE wire' = "bridge"
  <2>1. /\ HasLine /\ bridge > 0 /\ txRemaining = 0 /\ txRemaining' = 0
        /\ bridge' = bridge - 1 /\ sent' = (sent + 1) % Burst
    BY <1>1, <1>6, TickBurst
  <2>2. ~Through /\ x.done = 0 /\ x.whole = ~begun  BY <1>3, <1>4, <2>1 DEF Through
  <2>3. b = BridgeByteAt(x.sent) /\ counter' = counter  BY <1>3, <1>6
  <2>4. CASE sent + 1 < Burst
    <3>1. sent' = sent + 1 /\ sent + 1 # 0 /\ sent + 1 \in 0 .. Burst - 1
      BY <1>4, <2>1, <2>4
    <3>2. ~Through'  BY <3>1 DEF Through
    <3> DEFINE y == [f |-> x.f, done |-> 0, sent |-> x.sent + 1, whole |-> x.whole]
    <3>3. y \in Places  BY <1>3, <1>4, <3>1 DEF Places
    <3>4. y.f = x.f /\ y.done = 0 /\ y.sent = sent + 1 /\ y.whole = x.whole  BY <1>3
    <3> HIDE DEF y
    <3>5. Goes(x, b, y)  BY <1>3, <2>2, <2>3, <2>4, <3>4 DEF Goes, BurstByte
    <3>6. y.whole = (IF Through THEN begun ELSE ~begun)'  BY <1>1, <2>2, <3>2, <3>4
    <3>7. Count(y.f) = counter'  BY <1>3, <2>3, <3>4
    <3>8. y.sent = sent' /\ y.done = IF txRemaining' = 0 THEN 0 ELSE Frame - txRemaining'
      BY <2>1, <3>1, <3>4
    <3>9. Sender(y)'  BY <3>6, <3>7, <3>8 DEF Sender
    <3> QED  BY <3>2, <3>3, <3>5, <3>9
  <2>5. CASE sent + 1 = Burst
    <3>1. sent' = 0  BY <1>4, <2>1, <2>5
    <3>2. sent + bridge + pushing = Due  BY <1>4, <2>1 DEF BridgeInv, Account
    <3>3. bridge = 1 /\ pushing = 0 /\ Due = Burst  BY <1>4, <2>1, <2>5, <3>2
    <3>4. Through'
      <4>1. bridge' = 0  BY <2>1, <3>3
      <4> QED  BY <1>2, <1>5, <3>1, <3>3, <4>1 DEF Through
    <3>5. ByteTime + ByteTime + KernelTick < ToBurst  BY <1>2, <2>1, EndIsEarly
    <3> PICK h \in BOOLEAN : h = ~x.whole  BY <1>3
    <3> DEFINE y == [f |-> x.f, done |-> 0, sent |-> 0, whole |-> h]
    <3>6. y \in Places
      <4>1. 0 \in 0 .. Frame - 1 /\ 0 \in 0 .. Burst - 1  BY <1>4
      <4> QED  BY <1>3, <4>1 DEF Places
    <3>7. y.f = x.f /\ y.done = 0 /\ y.sent = 0 /\ y.whole = ~x.whole  OBVIOUS
    <3> HIDE DEF y
    <3>8. Goes(x, b, y)  BY <1>3, <2>2, <2>3, <2>5, <3>7 DEF Goes, BurstByte
    <3>9. y.whole = begun' /\ begun' = begun
      <4>1. (~x.whole) = begun  BY <1>4, <2>2
      <4> QED  BY <1>1, <3>7, <4>1
    <3>10. Sender(y)'  BY <1>3, <2>1, <2>3, <3>1, <3>4, <3>7, <3>9 DEF Sender
    <3> QED  BY <2>2, <3>4, <3>5, <3>6, <3>8, <3>10
  <2> QED  BY <1>4, <2>4, <2>5
<1>7. CASE wire' = "sensor"
  <2>1. /\ sent = 0 /\ UNCHANGED <<sent, bridge>>
        /\ txRemaining' = (IF txRemaining > 0 THEN txRemaining ELSE Frame) - 1
    BY <1>1, <1>7, TickFrame
  <2>2. Through' <=> Through  BY <1>2, <1>5, <2>1 DEF Through
  <2> DEFINE left == txRemaining'
  <2>3. left \in 0 .. Frame - 1 /\ Frame - left = x.done + 1 /\ x.done \in 0 .. Frame - 1
    <3>1. CASE txRemaining > 0
      <4>1. left = txRemaining - 1 /\ x.done = Frame - txRemaining  BY <1>3, <1>4, <2>1, <3>1
      <4>2. txRemaining - 1 \in 0 .. Frame - 1
            /\ Frame - (txRemaining - 1) = (Frame - txRemaining) + 1
            /\ Frame - txRemaining \in 0 .. Frame - 1
        BY <1>4, <3>1
      <4> QED  BY <4>1, <4>2
    <3>2. CASE txRemaining = 0
      <4>1. left = Frame - 1 /\ x.done = 0  BY <1>3, <2>1, <3>2
      <4>2. Frame - 1 \in 0 .. Frame - 1 /\ Frame - (Frame - 1) = 0 + 1 /\ 0 \in 0 .. Frame - 1
        OBVIOUS
      <4> QED  BY <4>1, <4>2
    <3> QED  BY <1>4, <3>1, <3>2
  <2>4. b = FrameOf(Count(x.f))[x.done + 1]
    <3>1. b = FrameOf(counter)[Frame - left]  BY <1>7
    <3> QED  BY <1>3, <2>3, <3>1
  <2>5. counter' = IF left = 0 THEN (counter + 1) % Bytes ELSE counter  BY <1>7
  <2>6. txRemaining' = left  OBVIOUS
  <2> HIDE DEF left
  <2>7. CASE left > 0
    <3> DEFINE y == [f |-> x.f, done |-> x.done + 1, sent |-> 0, whole |-> x.whole]
    <3>1. x.done + 1 < Frame /\ x.done + 1 \in 0 .. Frame - 1 /\ x.done + 1 = Frame - left
          /\ left # 0
      BY <2>3, <2>7
    <3>2. y \in Places  BY <1>3, <3>1 DEF Places
    <3>3. y.f = x.f /\ y.done = x.done + 1 /\ y.sent = 0 /\ y.whole = x.whole  OBVIOUS
    <3> HIDE DEF y
    <3>4. Goes(x, b, y)  BY <1>3, <2>1, <2>4, <3>1, <3>3 DEF Goes, FrameByte
    <3>5. counter' = counter  BY <2>5, <3>1
    <3>6. y.whole = (IF Through THEN begun ELSE ~begun)'  BY <1>1, <1>3, <2>2, <3>3
    <3>7. y.done = IF left = 0 THEN 0 ELSE Frame - left  BY <3>1, <3>3
    <3>8. Sender(y)'  BY <1>3, <2>1, <2>6, <3>3, <3>5, <3>6, <3>7 DEF Sender
    <3> QED  BY <1>3, <2>2, <3>2, <3>4, <3>8
  <2>8. CASE left = 0
    <3> DEFINE y == [f |-> x.f + 1, done |-> 0, sent |-> 0, whole |-> x.whole]
    <3>1. x.done + 1 = Frame  BY <2>3, <2>8
    <3>2. y \in Places
      <4>1. x.f + 1 \in Nat /\ 0 \in 0 .. Frame - 1 /\ 0 \in 0 .. Burst - 1  BY <1>3
      <4> QED  BY <1>3, <4>1 DEF Places
    <3>3. y.f = x.f + 1 /\ y.done = 0 /\ y.sent = 0 /\ y.whole = x.whole  OBVIOUS
    <3> HIDE DEF y
    <3>4. Goes(x, b, y)  BY <1>3, <2>1, <2>4, <3>1, <3>3 DEF Goes, FrameByte
    <3>5. counter' = (counter + 1) % Bytes  BY <2>5, <2>8
    <3>6. Count(y.f) = counter'
      <4>1. x.f + 1 \in Nat /\ x.f + 1 > 0 /\ x.f + 1 # 0 /\ (x.f + 1) - 1 = x.f  BY <1>3
      <4>2. Count(x.f + 1) = (CountBefore(x.f + 1) + 1) % Bytes  BY <4>1, CountsOn
      <4>3. CountBefore(x.f + 1) = Count(x.f)  BY <4>1 DEF CountBefore, Count
      <4> QED  BY <1>3, <3>3, <3>5, <4>2, <4>3
    <3>7. y.whole = (IF Through THEN begun ELSE ~begun)'  BY <1>1, <1>3, <2>2, <3>3
    <3>8. Sender(y)'  BY <2>1, <2>6, <2>8, <3>3, <3>6, <3>7 DEF Sender
    <3> QED  BY <1>3, <2>2, <3>2, <3>4, <3>8
  <2> QED  BY <2>3, <2>7, <2>8
<1> QED  BY <1>1, <1>6, <1>7, TickSends

LEMMA FlightTick ==
  ASSUME SensorInv, BridgeInv, QueueInv, Tick, handed' = handed, NEW p, Flight(p)
  PROVE  \E q : Flight(q)'
<1>1. /\ ByteTick /\ UNCHANGED <<rxRing, begun, proto, rx>>  BY DEF Tick
<1>2. /\ tick = 0 /\ tick' = ByteTime /\ UNCHANGED <<slot, wake, tp>>  BY <1>1 DEF ByteTick
<1>3. NextWake' = NextWake /\ ToBurst' = ToBurst
  BY <1>1, <1>2 DEF NextWake, ToBurst, SlotsToBurst
<1> DEFINE s == Flying
           n == Len(s)
           m == Len(rxRing)
           w == NextWake
           z == ToBurst
<1>4. s \in Seq(ByteRange) /\ n \in Nat /\ m \in Nat /\ m <= n /\ n - m <= 1
      /\ w \in 0 .. KernelTick /\ z \in Int
  <2>1. /\ m \in Nat /\ Len(air) \in 0 .. 2 /\ w \in 0 .. KernelTick
        /\ s \in Seq(ByteRange) /\ n = m + Len(air)
    BY QueueFacts
  <2>2. Len(air) < 2  BY DEF Tick
  <2>3. \A i \in Nat, j \in 0 .. 2 : j < 2 => i + j \in Nat /\ i <= i + j /\ (i + j) - i <= 1
    OBVIOUS
  <2> QED  BY <2>1, <2>2, <2>3, ToBurstIs, Zenon
<1>5. /\ Path(p, s, rx, handed) /\ Sender(p[n])
      /\ Through => Timely(p, n, m, w, tick, z, begun)
  BY DEF Flight
<1>6. PICK b \in ByteRange :
           /\ air' = Append(air, b)
           /\ wire' = "bridge" => b = BridgeByteAt(sent) /\ counter' = counter
           /\ wire' = "sensor" =>
                /\ b = FrameOf(counter)[Frame - txRemaining']
                /\ counter' = IF txRemaining' = 0 THEN (counter + 1) % Bytes ELSE counter
  BY TickByte
<1>7. Flying' = Append(s, b)
  <2>1. rxRing \in Seq(ByteRange) /\ air \in Seq(ByteRange)  BY DEF QueueInv
  <2>2. Flying' = rxRing \o Append(air, b)  BY <1>1, <1>6 DEF Flying
  <2> QED  BY <2>1, <2>2, ConcatAppend DEF Flying
<1>8. m' = m /\ w' = w /\ z' = z  BY <1>1, <1>3
<1> HIDE DEF m, w, z
<1>9. p[n] \in Places
  <2>1. p \in [0 .. n -> Places]  BY <1>5 DEF Path
  <2>2. n \in 0 .. n  BY <1>4
  <2> QED  BY <2>1, <2>2
<1>10. PICK y \in Places :
           /\ Goes(p[n], b, y) /\ Sender(y)'
           /\ \/ Through' /\ ~Through /\ ByteTime + ByteTime + KernelTick < ToBurst
              \/ Through' /\ Through /\ p[n].whole = begun
              \/ ~Through'
  BY <1>5, <1>6, <1>9, TickGoes
<1>11. PICK q : /\ Path(q, Append(s, b), rx, handed)
                /\ Len(Append(s, b)) = n + 1 /\ q[n + 1] = y
                /\ \A i \in 0 .. n : q[i] = p[i]
  <2> DEFINE u == [i \in 0 .. Len(s) + 1 |-> IF i <= Len(s) THEN p[i] ELSE y]
  <2>1. Path(p, s, rx, handed) /\ Goes(p[Len(s)], b, y)  BY <1>5, <1>10
  <2> HIDE DEF s
  <2>2. /\ Path(u, Append(s, b), rx, handed)
        /\ Len(Append(s, b)) = Len(s) + 1 /\ u[Len(s) + 1] = y
        /\ \A i \in 0 .. Len(s) : u[i] = p[i]
    BY <2>1, PathGrows
  <2> HIDE DEF u
  <2> QED  BY <2>2
<1>12. Path(q, Flying, rx, handed)'  BY <1>1, <1>7, <1>11
<1>13. Len(Flying)' = n + 1  BY <1>7, <1>11
<1>14. Sender(q[Len(Flying)])'  BY <1>10, <1>11, <1>13 DEF Sender
<1>15. ASSUME Through'
       PROVE  Timely(q, Len(Flying), m, w, tick, z, begun)'
  <2> HIDE DEF n
  <2>1. Timely(q, n + 1, m, w, ByteTime, z, begun)
    <3>1. CASE ByteTime + ByteTime + KernelTick < ToBurst
      BY <1>4, <3>1, TimelyEnd DEF z
    <3>2. CASE Through /\ p[n].whole = begun
      <4>1. Timely(p, n, m, w, 0, z, begun)  BY <1>2, <1>5, <3>2
      <4> QED  BY <1>4, <1>11, <3>2, <4>1, TimelySent
    <3> QED  BY <1>10, <1>15, <3>1, <3>2
  <2>2. Timely(q, Len(Flying)', m', w', tick', z', begun')
    BY <1>1, <1>2, <1>8, <1>13, <2>1
  <2> QED  BY <2>2 DEF Timely
<1> QED  BY <1>12, <1>14, <1>15 DEF Flight, m, w, z

\* Along a path of less than a burst, to the end of one: from where no burst is
\* being sent the parity stays; from the middle of one, which is sent by more
\* than a round, it changes.
LEMMA PathEnds ==
  ASSUME NEW n \in Nat, NEW s, NEW p \in [0 .. n -> Places],
         \A i \in 1 .. n : Goes(p[i - 1], s[i], p[i]),
         n <= Burst - Half, p[n].sent = 0
  PROVE  /\ p[0].sent = 0 => p[0].whole = p[n].whole
         /\ p[0].sent # 0 => p[0].sent >= Half /\ p[0].whole # p[n].whole
         /\ p[0].done # 0 => p[0].sent = 0
<1> DEFINE k == p[0].sent
           w == p[0].whole
           left == Burst - k
           On(i) == p[i].whole = w /\ p[i].sent = k + i
           Past(i) == i >= left /\ p[i].whole # w /\ p[i].sent <= i - left
           Idle(i) == p[i].whole = w /\ p[i].sent <= i
           S == {i \in 0 .. n : (k = 0 => Idle(i)) /\ (k # 0 => On(i) \/ Past(i))}
<1>1. /\ Half \in Nat /\ Half > 1 /\ Burst \in Nat /\ Burst >= Half
  <2>1. Burst \in Nat \ {0}  BY BridgeAssumption, ReceiverAssumption
  <2>2. 0 \in 0 .. Burst - 1  BY <2>1
  <2> QED  BY <2>2, Rounds
<1>2. \A i \in 0 .. n : p[i] \in Places /\ p[i].sent \in 0 .. Burst - 1 /\ p[i].whole \in BOOLEAN
  BY PlaceIs
<1>3. 0 \in 0 .. n /\ n \in 0 .. n  OBVIOUS
<1>4. k \in 0 .. Burst - 1 /\ w \in BOOLEAN  BY <1>2, <1>3
<1>5. 0 \in S  BY <1>3, <1>4
<1> HIDE DEF k, w
<1>6. ASSUME NEW i \in 1 .. n, i - 1 \in S PROVE i \in S
  <2> DEFINE o == p[i - 1]
             e == p[i]
  <2>1. i - 1 \in 0 .. n /\ i \in 0 .. n  OBVIOUS
  <2>2. Goes(o, s[i], e)  OBVIOUS
  <2>3. /\ o.sent \in 0 .. Burst - 1 /\ e.sent \in 0 .. Burst - 1
        /\ o.whole \in BOOLEAN /\ e.whole \in BOOLEAN
    BY <1>2, <2>1
  <2>4. /\ k = 0 => o.whole = w /\ o.sent <= i - 1
        /\ k # 0 => \/ o.whole = w /\ o.sent = k + (i - 1)
                    \/ i - 1 >= left /\ o.whole # w /\ o.sent <= (i - 1) - left
    <3>1. /\ k = 0 => Idle(i - 1)
          /\ k # 0 => On(i - 1) \/ Past(i - 1)
      BY <1>6
    <3> HIDE DEF k, w, left
    <3> QED  BY <3>1
  <2> HIDE DEF o, e, S
  <2>5. SUFFICES /\ k = 0 => e.whole = w /\ e.sent <= i
                 /\ k # 0 => \/ e.whole = w /\ e.sent = k + i
                             \/ i >= left /\ e.whole # w /\ e.sent <= i - left
    BY <2>1 DEF S, e
  <2>6. CASE e.sent = 0 /\ o.sent = 0 /\ e.whole = o.whole
    BY <1>1, <1>4, <2>3, <2>4, <2>6
  <2>7. CASE e.sent = o.sent + 1 /\ e.whole = o.whole
    BY <1>1, <1>4, <2>3, <2>4, <2>7
  <2>8. CASE o.sent + 1 = Burst /\ e.sent = 0 /\ e.whole = ~o.whole
    <3>0. n < Burst /\ k <= Burst - 1  BY <1>1, <1>4
    <3>1. ~(k = 0)
      <4>1. SUFFICES ASSUME k = 0 PROVE FALSE  OBVIOUS
      <4>2. o.sent <= i - 1  BY <2>4, <4>1
      <4> QED  BY <1>1, <2>3, <2>8, <3>0, <4>2
    <3>2. ~(i - 1 >= left /\ o.whole # w /\ o.sent <= (i - 1) - left)
      <4>1. SUFFICES ASSUME o.sent <= (i - 1) - left PROVE FALSE  OBVIOUS
      <4> QED  BY <1>1, <1>4, <2>3, <2>8, <3>0, <4>1
    <3>3. o.whole = w /\ o.sent = k + (i - 1)  BY <2>4, <3>1, <3>2
    <3>4. i = left  BY <1>1, <1>4, <2>8, <3>3
    <3>5. e.whole # w  BY <1>4, <2>3, <2>8, <3>3
    <3> QED  BY <1>4, <2>8, <3>1, <3>4, <3>5
  <2> QED  BY <2>2, <2>6, <2>7, <2>8 DEF Goes, FrameByte, BurstByte
<1>7. 0 .. n \subseteq S
  <2> HIDE DEF S
  <2> QED  BY <1>5, <1>6, Along
<1>8. n \in S  BY <1>3, <1>7
<1>9. k = 0 => w = p[n].whole  BY <1>8
<1>10. k # 0 => k >= Half /\ w # p[n].whole
  <2> SUFFICES ASSUME k # 0 PROVE k >= Half /\ w # p[n].whole  OBVIOUS
  <2>1. ~On(n)  BY <1>4
  <2>2. Past(n)  BY <1>8, <2>1
  <2> QED  BY <1>1, <1>4, <2>2
<1>11. p[0].done # 0 => k = 0
  <2>1. CASE n = 0  BY <2>1 DEF k
  <2>2. CASE n # 0
    <3>1. 1 \in 1 .. n /\ 1 - 1 = 0  BY <2>2
    <3>2. Goes(p[0], s[1], p[1])  BY <3>1
    <3> QED  BY <3>2 DEF Goes, FrameByte, BurstByte, k
  <2> QED  BY <2>1, <2>2
<1> QED  BY <1>9, <1>10, <1>11 DEF k, w

\* The same places along s, with the parity counted from the one given.
Recounts(q, p, n, s, g) ==
  /\ q \in [0 .. n -> Places]
  /\ \A i \in 0 .. n : /\ q[i].f = p[i].f /\ q[i].done = p[i].done
                       /\ q[i].sent = p[i].sent /\ q[i].whole = (p[i].whole # g)
                       /\ Far(q[i]) = Far(p[i])
  /\ \A i \in 1 .. n : Goes(q[i - 1], s[i], q[i])

LEMMA Recounting ==
  ASSUME NEW n \in Nat, NEW s, NEW p \in [0 .. n -> Places],
         \A i \in 1 .. n : Goes(p[i - 1], s[i], p[i]), NEW g \in BOOLEAN
  PROVE  \E q : Recounts(q, p, n, s, g)
<1> DEFINE q == [i \in 0 .. n |-> [p[i] EXCEPT !.whole = (@ # g)]]
<1>1. ASSUME NEW i \in 0 .. n
      PROVE  /\ q[i] \in Places /\ q[i].f = p[i].f /\ q[i].done = p[i].done
             /\ q[i].sent = p[i].sent /\ q[i].whole = (p[i].whole # g)
  <2> DEFINE o == p[i]
             h == (o.whole # g)
             e == [o EXCEPT !.whole = h]
  <2>1. q[i] = e  OBVIOUS
  <2>2. o \in Places /\ h \in BOOLEAN  OBVIOUS
  <2> HIDE DEF o, h, q
  <2>3. /\ e \in Places /\ e.f = o.f /\ e.done = o.done /\ e.sent = o.sent /\ e.whole = h
    BY <2>2 DEF Places
  <2> HIDE DEF e
  <2> QED  BY <2>1, <2>3 DEF o, h
<1>2. q \in [0 .. n -> Places]
  <2>1. q = [i \in 0 .. n |-> q[i]]  OBVIOUS
  <2> HIDE DEF q
  <2> QED  BY <1>1, <2>1
<1> HIDE DEF q
<1>3. \A i \in 0 .. n : Far(q[i]) = Far(p[i])  BY <1>1 DEF Far
<1>4. ASSUME NEW i \in 1 .. n PROVE Goes(q[i - 1], s[i], q[i])
  <2>1. i - 1 \in 0 .. n /\ i \in 0 .. n  OBVIOUS
  <2>2. Goes(p[i - 1], s[i], p[i])  OBVIOUS
  <2> DEFINE o == p[i - 1]
             e == p[i]
             u == q[i - 1]
             v == q[i]
  <2>3. o.whole \in BOOLEAN /\ e.whole \in BOOLEAN  BY <2>1, PlaceIs
  <2>4. /\ u.f = o.f /\ u.done = o.done /\ u.sent = o.sent /\ u.whole = (o.whole # g)
        /\ v.f = e.f /\ v.done = e.done /\ v.sent = e.sent /\ v.whole = (e.whole # g)
    BY <1>1, <2>1
  <2> HIDE DEF o, e, u, v
  <2>5. e.whole = o.whole => v.whole = u.whole  BY <2>4, Zenon
  <2>6. e.whole = ~o.whole => v.whole = ~u.whole
    <3>1. CASE o.whole = g  BY <2>3, <2>4, <3>1
    <3>2. CASE o.whole # g  BY <2>3, <2>4, <3>2
    <3> QED  BY <3>1, <3>2
  <2>7. Goes(o, s[i], e)  BY <2>2 DEF o, e
  <2>8. Goes(u, s[i], v)
    <3>1. CASE FrameByte(o, s[i], e)
      <4>1. FrameByte(u, s[i], v)  BY <2>4, <2>5, <3>1 DEF FrameByte
      <4> QED  BY <4>1 DEF Goes
    <3>2. CASE BurstByte(o, s[i], e)
      <4>1. BurstByte(u, s[i], v)  BY <2>4, <2>5, <2>6, <3>2 DEF BurstByte
      <4> QED  BY <4>1 DEF Goes
    <3> QED  BY <2>7, <3>1, <3>2 DEF Goes
  <2> QED  BY <2>8 DEF u, v
<1>5. Recounts(q, p, n, s, g)  BY <1>1, <1>2, <1>3, <1>4 DEF Recounts
<1> QED  BY <1>5

\* The verifier, cleared: at the beginning of a frame, or in the middle of one.
LEMMA ClearedTracks ==
  ASSUME NEW o \in Places,
         o.sent = 0 => o.whole = FALSE,
         o.sent # 0 => o.sent >= Half /\ o.whole = TRUE,
         o.done # 0 => o.sent = 0
  PROVE  Tracks(RxInit, o)
<1>1. /\ RxInit \in RxTypes /\ RxInit.state = "sync0" /\ RxInit.buf = <<>>
      /\ RxInit.bridge = 0 /\ RxInit.whole = FALSE /\ RxInit.snapshot = <<>>
  <2>1. <<>> \in Seq(ByteRange)  OBVIOUS
  <2> QED  BY <2>1 DEF RxTypes, RxInit
<1>2. o.done \in 0 .. Frame - 1 /\ o.sent \in 0 .. Burst - 1  BY PlaceIs
<1>3. InCount(0, FALSE, o.sent, o.whole)
  <2>1. Half \in Nat /\ Half > 1 /\ 0 \in 0 .. Burst - 1 /\ o.sent \in Nat
    BY <1>2, Rounds
  <2>2. CASE o.sent = 0  BY <2>1, <2>2 DEF InCount
  <2>3. CASE o.sent # 0
    <3>1. o.sent \div Half >= 1
      <4> DEFINE a == o.sent \div Half
      <4>1. a \in Nat /\ o.sent = Half * a + (o.sent % Half) /\ o.sent % Half \in 0 .. Half - 1
        BY <1>2, Rounds
      <4> HIDE DEF a
      <4>2. a # 0  BY <2>1, <2>3, <4>1
      <4> QED  BY <4>1, <4>2 DEF a
    <3>2. 0 \div Half = 0  BY <2>1
    <3>3. o.sent > 0 /\ 0 \div Half < o.sent \div Half
      <4>1. o.sent \div Half \in Nat  BY <2>1
      <4> QED  BY <2>1, <2>3, <3>1, <3>2, <4>1
    <3>4. FALSE = ~o.whole  BY <2>3
    <3> QED  BY <2>1, <3>3, <3>4 DEF InCount
  <2> QED  BY <2>2, <2>3
<1>4. CASE o.done = 0
  <2>1. SubSeq(FrameOf(Count(o.f)), 1, o.done) = <<>>  BY <1>4, SubSeqEmpty
  <2>2. InFrame(RxInit, o)  BY <1>1, <1>4, <2>1 DEF InFrame
  <2>3. OnFrame(RxInit, o)  BY <1>1, <1>3, <2>2 DEF OnFrame
  <2> QED  BY <1>1, <2>3 DEF Tracks
<1>5. CASE o.done # 0
  <2>1. InWaste(0, Count(o.f), o.done)
    <3>1. Wasted(o.done) \in Nat  BY <1>2, WasteIs
    <3> QED  BY <3>1 DEF InWaste
  <2>2. o.sent = 0 /\ o.whole = FALSE  BY <1>5
  <2>3. Skips(RxInit, o)  BY <1>1, <1>5, <2>1, <2>2 DEF Skips
  <2> QED  BY <1>1, <2>3 DEF Tracks
<1> QED  BY <1>4, <1>5

\* Less than a burst is ever on its way.
LEMMA FewFly ==
  ASSUME SensorInv, QueueInv
  PROVE  Len(Flying) \in Nat /\ Len(Flying) <= Burst - Half
<1> DEFINE n == Len(Flying)
           b == Burst - Half
<1>1. n \in Nat /\ n = Len(rxRing) + Len(air)
  <2>1. Flying \in Seq(ByteRange) /\ n = Len(rxRing) + Len(air)  BY QueueFacts
  <2>2. n \in Nat  BY <2>1, LenProperties
  <2> QED  BY <2>1, <2>2
<1>2. tick \in 0 .. ByteTime /\ NextWake \in 0 .. KernelTick  BY QueueFacts
<1> DEFINE w == NextWake
<1>3. w \in 0 .. KernelTick /\ w >= 0  BY <1>2
<1>4. ByteTime * n <= (KernelTick - w) + tick + ByteTime * 2
  <2>1. Few(n, w, tick)  BY <1>1 DEF QueueInv
  <2> QED  BY <2>1 DEF Few
<1>5. KernelTick + 3 * ByteTime <= ByteTime * b /\ b \in Int
  BY HandBackAssumption, BridgeAssumption, ReceiverAssumption, Numbers
<1> HIDE DEF n, b, w
<1>6. ByteTime * 2 = ByteTime + ByteTime /\ ByteTime * n \in Int /\ ByteTime * b \in Int
  BY <1>1, <1>5, Constants
<1>7. ByteTime * n <= ByteTime * b  BY <1>2, <1>3, <1>4, <1>5, <1>6, Constants
<1>8. ~(b + 1 <= n)
  <2>1. SUFFICES ASSUME b + 1 <= n PROVE FALSE  OBVIOUS
  <2>2. n \in Int /\ b + 1 \in Int  BY <1>1, <1>5
  <2>3. ByteTime * (b + 1) <= ByteTime * n  BY <2>1, <2>2, Times
  <2>4. ByteTime * (b + 1) = ByteTime * b + ByteTime  BY <1>5, Constants
  <2> QED  BY <1>6, <1>7, <2>3, <2>4, Constants
<1> QED  BY <1>1, <1>5, <1>8 DEF n, b

\* The sweep hands the line back: the parities are counted from here.
LEMMA FlightHandsBack ==
  ASSUME SensorInv, BridgeInv, QueueInv, RequestInv, SweepHandsBack, NEW p, Flight(p)
  PROVE  \E q : Flight(q)'
<1>1. /\ UNCHANGED <<tick, slot, wake, tp, pushing, bridge, sent, txRemaining, air, rxRing,
                     counter, proto>>
      /\ rx' = RxInit /\ begun' = FALSE /\ handed' = handed + 1
      /\ pushing = 0 /\ bridge = 0 /\ ~tp.active
  BY DEF SweepHandsBack, BetweenBursts, timers, arbiter
<1>2. Flying' = Flying /\ NextWake' = NextWake  BY <1>1 DEF Flying, NextWake
<1>3. Due' = Due /\ ToBurst' = ToBurst /\ (Through' <=> Through)
  BY <1>1 DEF Due, ToBurst, SlotsToBurst, Through
<1>4. handed' # 0
  <2>1. handed \in Nat  BY BridgeAssumption DEF RequestInv
  <2> QED  BY <1>1, <2>1
<1>5. Through
  <2>1. Due = Burst  BY <1>1 DEF Due
  <2>2. sent \in 0 .. Burst - 1  BY BridgeFacts
  <2>3. sent = 0  BY <1>1, <2>1, <2>2, Constants, BurstIs DEF BridgeInv, Account
  <2> QED  BY <1>1, <2>1, <2>3 DEF Through
<1> DEFINE s == Flying
           n == Len(s)
           m == Len(rxRing)
           w == NextWake
           z == ToBurst
<1>6. /\ s \in Seq(ByteRange) /\ p \in [0 .. n -> Places]
      /\ \A i \in 1 .. n : Goes(p[i - 1], s[i], p[i])
      /\ \A i \in 0 .. n : Far(p[i]) <= Far(p[n]) /\ Far(p[n]) <= Far(p[i]) + (n - i)
      /\ Sender(p[n]) /\ Timely(p, n, m, w, tick, z, begun)
  BY <1>5 DEF Flight, Path
<1>7. n \in Nat /\ n <= Burst - Half  BY FewFly
<1>8. begun \in BOOLEAN  BY DEF QueueInv
<1>9. p[n].sent = 0 /\ p[n].whole = begun  BY <1>5, <1>6 DEF Sender, Through
<1>10. s' = s /\ n' = n /\ m' = m /\ w' = w /\ z' = z /\ tick' = tick  BY <1>1, <1>2, <1>3
<1> HIDE DEF s, n, m, w, z
<1> PICK q : Recounts(q, p, n, s, begun)  BY <1>6, <1>7, <1>8, Recounting
<1>11. /\ q \in [0 .. n -> Places]
       /\ \A i \in 0 .. n : /\ q[i].f = p[i].f /\ q[i].done = p[i].done
                            /\ q[i].sent = p[i].sent /\ q[i].whole = (p[i].whole # begun)
                            /\ Far(q[i]) = Far(p[i])
       /\ \A i \in 1 .. n : Goes(q[i - 1], s[i], q[i])
  BY DEF Recounts
<1>12. 0 \in 0 .. n /\ n \in 0 .. n  BY <1>7
<1>13. Tracks(RxInit, q[0])
  <2> DEFINE o == p[0]
             e == q[0]
  <2>1. /\ o.sent = 0 => o.whole = begun
        /\ o.sent # 0 => o.sent >= Half /\ o.whole # begun
        /\ o.done # 0 => o.sent = 0
    <3>1. /\ p[0].sent = 0 => p[0].whole = p[n].whole
          /\ p[0].sent # 0 => p[0].sent >= Half /\ p[0].whole # p[n].whole
          /\ p[0].done # 0 => p[0].sent = 0
      BY <1>6, <1>7, <1>9, PathEnds
    <3> QED  BY <1>9, <3>1
  <2>2. /\ e \in Places /\ e.done = o.done /\ e.sent = o.sent /\ e.whole = (o.whole # begun)
    BY <1>11, <1>12
  <2> HIDE DEF o, e
  <2>3. /\ e.sent = 0 => e.whole = FALSE
        /\ e.sent # 0 => e.sent >= Half /\ e.whole = TRUE
        /\ e.done # 0 => e.sent = 0
    BY <2>1, <2>2
  <2>4. Tracks(RxInit, e)  BY <2>2, <2>3, ClearedTracks
  <2> QED  BY <2>4 DEF e
<1>14. Path(q, Flying, rx, handed)'
  <2>1. Heard(RxInit, q[0], handed')  BY <1>4, <1>13 DEF Heard
  <2>2. \A i \in 0 .. n : Far(q[i]) <= Far(q[n]) /\ Far(q[n]) <= Far(q[i]) + (n - i)
    BY <1>6, <1>11, <1>12
  <2>3. Path(q, s, RxInit, handed')  BY <1>6, <1>11, <2>1, <2>2 DEF Path, n
  <2>4. Path(q, s', rx', handed')  BY <1>1, <1>10, <2>3
  <2> QED  BY <2>4 DEF Path, s
<1>15. Sender(q[Len(Flying)])'
  <2> DEFINE o == p[n]
             e == q[n]
  <2>1. e.f = o.f /\ e.done = o.done /\ e.sent = o.sent /\ e.whole = (o.whole # begun)
    BY <1>11, <1>12
  <2>2. Sender(o) /\ o.whole = begun  BY <1>6, <1>9
  <2>3. e' = e
    <3>1. q[n'] = q[n]  BY <1>10
    <3> QED  BY <3>1, Zenon
  <2> HIDE DEF o, e
  <2>4. e.whole = FALSE  BY <2>1, <2>2
  <2>5. Sender(e)'  BY <1>1, <1>3, <1>5, <2>1, <2>2, <2>3, <2>4 DEF Sender
  <2> QED  BY <2>5 DEF e, n, s
<1>16. Timely(q, Len(Flying), Len(rxRing), NextWake, tick, ToBurst, begun)'
  <2>1. \A i \in 1 .. n : i - 1 \in 0 .. n  BY <1>7
  <2>2. \A i \in 1 .. n : q[i - 1].whole # FALSE => p[i - 1].whole # begun
    <3> SUFFICES ASSUME NEW i \in 1 .. n, q[i - 1].whole # FALSE PROVE p[i - 1].whole # begun
      OBVIOUS
    <3>1. q[i - 1].whole = (p[i - 1].whole # begun)  BY <1>11, <2>1
    <3> QED  BY <3>1, Zenon
  <2>3. Timely(q, n, m, w, tick, z, FALSE)  BY <1>6, <2>2 DEF Timely
  <2>4. Timely(q, n', m', w', tick', z', begun')  BY <1>1, <1>10, <2>3
  <2> QED  BY <2>4 DEF n, m, w, z, s, Timely
<1> QED  BY <1>14, <1>15, <1>16 DEF Flight

LEMMA FlightInit == BridgeInit => FlightInv
<1> SUFFICES ASSUME BridgeInit PROVE \E p : Flight(p)  BY DEF FlightInv
<1> USE Constants, BurstIs
<1>1. /\ air = <<>> /\ rxRing = <<>> /\ counter = 0 /\ begun = FALSE /\ rx = RxInit
      /\ sent = 0 /\ bridge = 0 /\ pushing = 0 /\ txRemaining = 0
      /\ tp = [active |-> FALSE, slot |-> 0, since |-> Period - Slots]
  BY DEF BridgeInit
<1> DEFINE x == [f |-> 0, done |-> 0, sent |-> 0, whole |-> FALSE]
           p == [i \in 0 .. 0 |-> x]
<1>2. x \in Places /\ x.f = 0 /\ x.done = 0 /\ x.sent = 0 /\ x.whole = FALSE
  BY DEF Places
<1> HIDE DEF x
<1>3. Flying = <<>> /\ Flying \in Seq(ByteRange) /\ Len(Flying) = 0
  <2>1. <<>> \o <<>> = <<>>
    <3>1. <<>> \in Seq(ByteRange)  OBVIOUS
    <3> QED  BY <3>1, ConcatEmptySeq
  <2> QED  BY <1>1, <2>1 DEF Flying
<1>4. p \in [0 .. 0 -> Places] /\ p[0] = x  BY <1>2
<1> HIDE DEF p
<1>5. Count(0) = 0 /\ CountBefore(0) = 0
  <2>1. Bytes \in Nat \ {0}  BY Numbers
  <2> QED  BY <2>1 DEF Count, CountBefore
<1>6. Follows(rx, x)
  <2>1. RxInit \in RxTypes
    <3>1. <<>> \in Seq(ByteRange)  OBVIOUS
    <3> QED  BY <3>1 DEF RxTypes, RxInit
  <2>2. SubSeq(FrameOf(Count(x.f)), 1, x.done) = <<>>  BY <1>2, SubSeqEmpty
  <2>3. /\ RxInit.state = "sync0" /\ RxInit.buf = <<>> /\ RxInit.have = FALSE
        /\ RxInit.last = 0 /\ RxInit.bridge = 0 /\ RxInit.whole = FALSE
        /\ RxInit.snapshot = <<>>
    BY DEF RxInit
  <2>4. Clean(RxInit)  BY DEF RxInit, Clean
  <2>5. RxInit.have = (x.f > 0)
    <3>1. (x.f > 0) = FALSE  BY <1>2
    <3> QED  BY <2>3, <3>1, Zenon
  <2> QED  BY <1>1, <1>2, <1>5, <2>1, <2>2, <2>3, <2>4, <2>5 DEF Follows, InFrame
<1>10. Heard(rx, x, handed)
  <2>1. Tracks(RxInit, x)  BY <1>2, ClearedTracks
  <2> QED  BY <1>1, <1>6, <2>1 DEF Heard
<1>7. Path(p, Flying, rx, handed)
  <2>1. \A i \in 1 .. 0 : Goes(p[i - 1], Flying[i], p[i])  OBVIOUS
  <2>2. \A i \in 0 .. 0 : Far(p[i]) <= Far(p[0]) /\ Far(p[0]) <= Far(p[i]) + (0 - i)
    <3>1. Far(p[0]) \in Nat  BY <1>2, <1>4, FarIsNat
    <3> QED  BY <3>1
  <2> QED  BY <1>3, <1>4, <1>10, <2>1, <2>2 DEF Path
<1>8. Sender(x)
  <2>1. Through  BY <1>1 DEF Through, Due
  <2> QED  BY <1>1, <1>2, <1>5, <2>1 DEF Sender
<1>9. Timely(p, Len(Flying), Len(rxRing), NextWake, tick, ToBurst, begun)
  BY <1>3 DEF Timely
<1> QED  BY <1>3, <1>4, <1>7, <1>8, <1>9 DEF Flight

LEMMA FlightNext ==
  SensorInv /\ BridgeInv /\ QueueInv /\ RequestInv /\ FlightInv /\ [BridgeNext]_allVars
    => FlightInv'
<1> SUFFICES ASSUME SensorInv, BridgeInv, QueueInv, RequestInv, FlightInv,
                    [BridgeNext]_allVars
             PROVE  (\E p : Flight(p))'
  BY DEF FlightInv
<1>1. handed' = handed \/ SweepHandsBack  BY DEF BridgeNext, Machine, allVars
<1>2. PICK p : Flight(p)  BY DEF FlightInv
<1>3. CASE Slot /\ handed' = handed  BY <1>2, <1>3, FlightSlot
<1>4. CASE Push /\ handed' = handed  BY <1>2, <1>4, FlightPush
<1>5. CASE Tick /\ handed' = handed  BY <1>2, <1>5, FlightTick
<1>6. CASE RxIsr /\ handed' = handed  BY <1>2, <1>6, FlightMoves
<1>7. CASE ProtoByte /\ handed' = handed  BY <1>2, <1>7, FlightTaken
<1>8. CASE ProtoDrained /\ handed' = handed  BY <1>2, <1>8, FlightDrained
<1>9. CASE Time /\ handed' = handed  BY <1>2, <1>9, FlightTime
<1>10. CASE /\ ProtoWakes \/ ProtoAnswers \/ ProtoClears \/ SensorWakes \/ SensorFills
            /\ handed' = handed
  <2>1. UNCHANGED <<air, rxRing, counter, tick, rx>> /\ NextWake' = NextWake
    BY <1>10, OtherQueue DEF OtherStep
  <2>2. UNCHANGED <<begun, txRemaining, sent, bridge, pushing, tp, slot>>
    BY <1>10 DEF ProtoWakes, ProtoAnswers, ProtoClears, SensorWakes, SensorFills, SensorTask,
       SensorPush, vars, timers, arbiter
  <2>3. Flight(p)'  BY <1>2, <1>10, <2>1, <2>2, FlightSame
  <2> QED  BY <2>3
<1>11. CASE UNCHANGED allVars
  <2>1. UNCHANGED <<air, rxRing, counter, rx, begun, txRemaining, sent, bridge, pushing, tp,
                    slot, tick, wake, proto, handed>>
    BY <1>11 DEF allVars, uart, vars, timers, arbiter
  <2>2. NextWake' = NextWake  BY <2>1 DEF NextWake
  <2>3. Flight(p)'  BY <1>2, <2>1, <2>2, FlightSame
  <2> QED  BY <2>3
<1>12. CASE SweepHandsBack  BY <1>2, <1>12, FlightHandsBack
<1> QED
  BY <1>1, <1>3, <1>4, <1>5, <1>6, <1>7, <1>8, <1>9, <1>10, <1>11, <1>12
  DEF BridgeNext, Machine, Steps

\* The queues, the requests and the way between sender and verifier.
WayInv == LineInv /\ RequestInv /\ QueueInv /\ FlightInv

LEMMA WayKept == WayInv /\ [BridgeNext]_allVars => WayInv'
<1> SUFFICES ASSUME WayInv, [BridgeNext]_allVars PROVE WayInv'  OBVIOUS
<1>1. SensorInv /\ BridgeInv /\ LineInv /\ RequestInv /\ QueueInv /\ FlightInv
  BY DEF WayInv, LineInv
<1> QED  BY <1>1, LineKept, RequestNext, QueueNext, FlightNext DEF WayInv

LEMMA WayHolds == BridgeSpec => []WayInv
<1>1. BridgeInit => WayInv
  BY StartsAsLine, RequestInit, QueueInit, FlightInit DEF WayInv
<1> QED  BY <1>1, WayKept, PTL DEF BridgeSpec

\* On a line that loses nothing the verifier finds nothing wrong, and nothing is
\* lost: whatever the phases of the interrupts and the tasks, frames and bursts
\* come out of the receive ring as they went in (engine_on_byte_tick,
\* engine_on_rx_byte, protocol_task, frame_rx_byte).
THEOREM NoFaultIsFound == BridgeSpec => []NoFaults
<1>1. WayInv => NoFaults
  <2> SUFFICES ASSUME WayInv, handed = 0 PROVE Clean(rx) /\ ~rxLost /\ ~lost
    BY DEF NoFaults
  <2>1. PICK p : Flight(p)  BY DEF WayInv, FlightInv
  <2>2. Clean(rx)  BY <2>1 DEF Flight, Path, Heard, Follows
  <2> QED  BY <2>2 DEF WayInv, LineInv, BridgeInv, QueueInv
<1> QED  BY <1>1, WayHolds, PTL

\* Of two frames that are not far apart, how far their counters are.
LEMMA CountsApart ==
  ASSUME NEW a \in Nat, NEW b \in Nat, b > 0, b <= a
  PROVE  (Count(a) - CountBefore(b)) % Bytes <= (a - b) + 1
<1> DEFINE B == Bytes
           k == a \div B
           c == a % B
           l == (b - 1) \div B
           d == (b - 1) % B
<1>1. B \in Nat \ {0} /\ b - 1 \in Nat  BY Numbers
<1>2. /\ k \in Nat /\ c \in 0 .. B - 1 /\ a = B * k + c
      /\ l \in Nat /\ d \in 0 .. B - 1 /\ b - 1 = B * l + d
  BY <1>1, DivMod
<1>3. Count(a) = c /\ CountBefore(b) = d  BY DEF Count, CountBefore
<1> HIDE DEF B, k, c, l, d
<1>4. (a - b) + 1 = B * (k - l) + (c - d)
  <2>1. B * (k - l) = B * k - B * l /\ B * k \in Int /\ B * l \in Int  BY <1>1, <1>2
  <2> QED  BY <1>2, <2>1
<1>5. B * (k - l) + (c - d) >= 0  BY <1>4
<1>6. CASE c >= d
  <2>1. c - d \in 0 .. B - 1  BY <1>1, <1>2, <1>6
  <2>2. B * 0 + (c - d) = c - d /\ B > 0  BY <1>1, <2>1
  <2>3. (c - d) % B = c - d  BY <1>1, <2>1, <2>2, DivModIs
  <2>4. B * (k - l) >= 0
    <3>1. k - l \in Int /\ B * (k - l) \in Int  BY <1>1, <1>2
    <3>2. ASSUME k - l <= -1 PROVE B * (k - l) <= -B  BY <1>1, <3>1, <3>2
    <3>3. ASSUME k - l >= 0 PROVE B * (k - l) >= 0  BY <1>1, <3>1, <3>3
    <3> QED  BY <1>1, <1>2, <1>5, <3>1, <3>2, <3>3, <2>1
  <2> QED  BY <1>1, <1>2, <1>3, <1>4, <2>3, <2>4 DEF B
<1>7. CASE c < d
  <2>1. (c - d) + B \in 0 .. B - 1  BY <1>1, <1>2, <1>7
  <2>2. (c - d) % B = (c - d) + B  BY <1>1, <1>2, <1>7, <2>1
  <2>3. B * (k - l) >= B
    <3>1. k - l \in Int /\ B * (k - l) > 0  BY <1>1, <1>2, <1>5, <1>7
    <3> QED  BY <1>1, <3>1, NoMultiple
  <2> QED  BY <1>1, <1>2, <1>3, <1>4, <2>2, <2>3 DEF B
<1> QED  BY <1>2, <1>6, <1>7

\* Of two places that are at most t bytes apart, how far their frames are.
LEMMA FramesApart ==
  ASSUME NEW F \in Nat \ {0}, NEW a \in Nat, NEW b \in Nat,
         NEW d \in 0 .. F - 1, NEW e \in 0 .. F - 1,
         NEW t \in Nat, NEW k \in Nat, NEW r \in 0 .. F - 1, t = F * k + r,
         F * b + e <= F * a + d, F * a + d <= F * b + t
  PROVE  b <= a /\ a - b <= k
<1> DEFINE g == b - a
           h == (a - b) - k
<1>1. g \in Int /\ h \in Int /\ F \in Nat /\ F > 0  OBVIOUS
<1>2. F * g < F
  <2>1. F * g = F * b - F * a /\ F * a \in Int /\ F * b \in Int  OBVIOUS
  <2> HIDE DEF g
  <2> QED  BY <2>1
<1>3. F * h < F
  <2>1. F * h = F * a - F * b - F * k /\ F * a \in Int /\ F * b \in Int /\ F * k \in Int
    OBVIOUS
  <2> HIDE DEF h
  <2> QED  BY <2>1
<1>4. ASSUME NEW m \in Int, F * m < F PROVE m <= 0
  <2>1. CASE m > 0
    <3>1. F * m > 0 /\ F * m \in Int  BY <2>1
    <3>2. F * m >= F  BY <3>1, NoMultiple
    <3> QED  BY <1>4, <3>1, <3>2
  <2> QED  BY <2>1
<1>5. g <= 0 /\ h <= 0
  <2> HIDE DEF g, h
  <2> QED  BY <1>1, <1>2, <1>3, <1>4
<1> QED  BY <1>5

\* A burst has been reassembled before the next begins, whenever the sweep has
\* handed the line back: its last byte is out of the UART, the ring and the
\* protocol task's hands by then, and a verifier that was cleared in the middle
\* of one counts its bytes in step again (frame_rx_byte, engine_on_can_slot).
THEOREM BurstsAreReassembled == BridgeSpec => []Reassembled
<1>1. WayInv => Reassembled
  <2> SUFFICES ASSUME WayInv, Starts, slot = 0 PROVE rx.whole = begun
    BY DEF Reassembled
  <2>1. SensorInv /\ BridgeInv /\ QueueInv  BY DEF WayInv, LineInv
  <2>2. PICK p : Flight(p)  BY DEF WayInv, FlightInv
  <2> DEFINE n == Len(Flying)
  <2>3. n \in Nat /\ Len(rxRing) \in Nat /\ n - Len(rxRing) \in 0 .. 2 /\ NextWake \in Nat
        /\ tick \in Nat
    <3>1. /\ Len(rxRing) \in Nat /\ Len(air) \in 0 .. 2 /\ NextWake \in 0 .. KernelTick
          /\ tick \in 0 .. ByteTime /\ n = Len(rxRing) + Len(air)
      BY <2>1, QueueFacts
    <3>2. \A i \in Nat, j \in 0 .. 2 : i + j \in Nat /\ (i + j) - i \in 0 .. 2  OBVIOUS
    <3>3. NextWake \in Nat /\ tick \in Nat  BY <3>1, Constants
    <3> QED  BY <3>1, <3>2, <3>3, Zenon
  <2>4. ToBurst = 0
    <3>1. ~tp.active /\ tp.since = Period - 1
      <4>1. tp.since \in 0 .. Period - 1  BY <2>1, BridgeFacts
      <4> QED  BY <4>1, Constants DEF Starts
    <3>2. SlotsToBurst = 0  BY <3>1, Constants DEF SlotsToBurst
    <3> QED  BY <3>2, Constants DEF ToBurst
  <2>5. Through
    <3>1. ReadyForNext
      BY <2>1, ReadyHolds DEF WayInv, LineInv
    <3>2. bridge = 0 /\ sent = 0 /\ ~tp.active  BY <3>1 DEF ReadyForNext, Starts
    <3>3. pushing = 0  BY <2>1, <3>2, BridgeFacts
    <3> QED  BY <3>2, <3>3 DEF Through, Due
  <2>6. /\ Timely(p, n, Len(rxRing), NextWake, tick, ToBurst, begun)
        /\ p[n].whole = begun /\ p[n].sent = sent /\ Tracks(rx, p[0])
        /\ p \in [0 .. n -> Places]
        /\ \A i \in 1 .. n : Goes(p[i - 1], Flying[i], p[i])
    BY <2>2, <2>5 DEF Flight, Sender, Path, Heard
  <2>7. sent = 0
    <3>1. ReadyForNext
      BY <2>1, ReadyHolds DEF WayInv, LineInv
    <3> QED  BY <3>1 DEF ReadyForNext, Starts
  <2>8. n <= Burst - Half  BY <2>1, FewFly
  <2> HIDE DEF n
  <2>9. 0 \in 0 .. n /\ n \in 0 .. n  BY <2>3
  <2>10. p[0] \in Places /\ p[0].sent \in Nat  BY <2>6, <2>9, PlaceIs
  <2>11. p[0].sent # 0 => p[0].whole # begun
    BY <2>3, <2>6, <2>7, <2>8, PathEnds
  <2>12. p[0].sent = 0 => rx.whole = p[0].whole
    BY <2>6, <2>10 DEF Tracks, OnFrame, Skips, InCount
  <2>13. p[0].whole = begun => rx.whole = begun  BY <2>11, <2>12, Zenon
  <2>14. CASE n = 0  BY <2>6, <2>13, <2>14
  <2>15. CASE n > 0
    <3>1. 1 \in 1 .. n /\ 1 - 1 = 0  BY <2>3, <2>15
    <3>2. SUFFICES ASSUME p[0].whole # begun PROVE FALSE  BY <2>13
    <3>3. IF 1 <= Len(rxRing) THEN NextWake < 0
          ELSE tick + ByteTime * (1 - (n - 1)) + KernelTick < 0
      BY <2>4, <2>6, <3>1, <3>2 DEF Timely
    <3>4. CASE Len(rxRing) >= 1  BY <2>3, <3>3, <3>4
    <3>5. CASE Len(rxRing) = 0
      <4>1. 1 - (n - 1) \in Int /\ 0 <= 1 - (n - 1) /\ 0 \in Int  BY <2>3, <3>5
      <4>2. 0 <= ByteTime * (1 - (n - 1)) /\ ByteTime * (1 - (n - 1)) \in Int
        BY <4>1, Times
      <4> QED  BY <2>3, <3>3, <3>5, <4>2, Constants
    <3> QED  BY <2>3, <3>4, <3>5
  <2> QED  BY <2>3, <2>14, <2>15
<1> QED  BY <1>1, WayHolds, PTL

\* The snapshot requests are answered from, once there is one, is one of the
\* last frames sent, with its checksum and payload; after a hand-back too, when
\* the verifier hunts for a header in the middle of a frame (frame_rx_byte,
\* answer_request).
THEOREM SnapshotIsFresh == BridgeSpec => []SnapshotFresh
<1>1. WayInv => SnapshotFresh
  <2> SUFFICES ASSUME WayInv, rx.snapshot # <<>>
               PROVE  /\ Answerable
                      /\ (counter - rx.snapshot[3]) % Bytes
                           <= 1 + (Len(rxRing) + Len(air) + Len(rx.buf)) \div Frame
    BY DEF SnapshotFresh, Bytes
  <2>1. SensorInv /\ BridgeInv /\ QueueInv  BY DEF WayInv, LineInv
  <2>2. PICK p : Flight(p)  BY DEF WayInv, FlightInv
  <2> DEFINE n == Len(Flying)
             x == p[n]
             o == p[0]
  <2>3. n \in Nat /\ n = Len(rxRing) + Len(air)
    <3>1. Flying \in Seq(ByteRange) /\ n = Len(rxRing) + Len(air)  BY <2>1, QueueFacts
    <3>2. n \in Nat  BY <3>1, LenProperties
    <3> QED  BY <3>1, <3>2
  <2>4. /\ x \in Places /\ o \in Places /\ OnFrame(rx, o) /\ Count(x.f) = counter
        /\ Far(o) <= Far(x) /\ Far(x) <= Far(o) + (n - 0)
    <3>1. 0 \in 0 .. n /\ n \in 0 .. n  BY <2>3
    <3>2. p \in [0 .. n -> Places]  BY <2>2 DEF Flight, Path
    <3>3. Far(p[0]) <= Far(p[n]) /\ Far(p[n]) <= Far(p[0]) + (n - 0)
      BY <2>2, <3>1 DEF Flight, Path
    <3>4. Tracks(rx, p[0])  BY <2>2 DEF Flight, Path, Heard
    <3>5. OnFrame(rx, p[0])  BY <3>4 DEF Tracks, Skips
    <3> QED  BY <2>2, <3>1, <3>2, <3>3, <3>5 DEF Flight, Sender
  <2> HIDE DEF x, o, n
  <2>5. /\ x.f \in Nat /\ o.f \in Nat /\ x.done \in 0 .. Frame - 1 /\ o.done \in 0 .. Frame - 1
        /\ CountBefore(o.f) \in ByteRange /\ Count(o.f) \in ByteRange
    BY <2>4, PlaceIs
  <2>6. o.f > 0 /\ rx.snapshot = FrameOf(CountBefore(o.f))
    BY <2>4, <2>5 DEF OnFrame
  <2>7. rx.snapshot[3] = CountBefore(o.f)  BY <2>5, <2>6, FrameIs
  <2>8. Answerable  BY <2>6, <2>7 DEF Answerable
  <2>9. Len(rx.buf) = o.done
    <3>1. rx.buf = SubSeq(FrameOf(Count(o.f)), 1, o.done)  BY <2>4 DEF OnFrame, InFrame
    <3>2. CASE o.done = 0
      <4>1. rx.buf = <<>>  BY <3>1, <3>2, SubSeqEmpty
      <4> QED  BY <3>2, <4>1
    <3>3. CASE o.done \in 1 .. Frame - 1
      BY <2>5, <3>1, <3>3, FrameGrows
    <3>4. o.done = 0 \/ o.done \in 1 .. Frame - 1  BY <2>5, Numbers
    <3> QED  BY <3>2, <3>3, <3>4
  <2> DEFINE t == n + o.done
             k == t \div Frame
             r == t % Frame
  <2>10. Frame \in Nat \ {0} /\ t \in Nat  BY <2>3, <2>5, Numbers
  <2>11. k \in Nat /\ r \in 0 .. Frame - 1 /\ t = Frame * k + r  BY <2>10, DivMod
  <2>12. Frame * o.f + o.done <= Frame * x.f + x.done
         /\ Frame * x.f + x.done <= Frame * o.f + t
    <3>1. Frame * o.f \in Int /\ Frame * x.f \in Int  BY <2>5, <2>10
    <3> QED  BY <2>3, <2>4, <2>5, <3>1 DEF Far
  <2>13. Len(rxRing) + Len(air) + Len(rx.buf) = t  BY <2>3, <2>9
  <2> HIDE DEF k, r, t
  <2>14. o.f <= x.f /\ x.f - o.f <= k
    <3>1. Frame * o.f + o.done <= Frame * x.f + x.done
          /\ Frame * x.f + x.done <= Frame * o.f + t
      BY <2>12
    <3> QED  BY <2>5, <2>10, <2>11, <3>1, FramesApart
  <2>15. (counter - CountBefore(o.f)) % Bytes <= (x.f - o.f) + 1
    BY <2>4, <2>5, <2>6, <2>14, CountsApart
  <2>16. (counter - CountBefore(o.f)) % Bytes <= 1 + k
    <3>1. counter - CountBefore(o.f) \in Int
      <4>1. counter \in ByteRange  BY <2>1 DEF QueueInv
      <4> QED  BY <2>5, <4>1, Numbers
    <3>2. (counter - CountBefore(o.f)) % Bytes \in Int  BY <3>1, Numbers
    <3> QED  BY <2>5, <2>11, <2>14, <2>15, <3>2
  <2>17. (Len(rxRing) + Len(air) + Len(rx.buf)) \div Frame = k  BY <2>13 DEF k
  <2> QED  BY <2>7, <2>8, <2>16, <2>17
<1> QED  BY <1>1, WayHolds, PTL


(***************************************************************************)
(* The verifier's buffer, whatever comes.                                  *)
(***************************************************************************)

\* What is in the buffer is what the state of the hunt says.
InShape(r) ==
  /\ {"state", "buf"} \subseteq DOMAIN r
  /\ r.buf \in Seq(ByteRange)
  /\ \/ r.state = "sync0" /\ Len(r.buf) = 0
     \/ r.state = "sync1" /\ r.buf = <<Sync0>>
     \/ r.state = "collect" /\ Len(r.buf) \in 2 .. FrameLen - 1

\* Counting a byte of a burst, or checking a frame, is not the hunt's business.
LEMMA BridgeByteKeeps ==
  ASSUME NEW r, NEW b, InShape(r)
  PROVE  InShape(BridgeByte(r, b))
<1> DEFINE s == BridgeByte(r, b)
<1>1. DOMAIN s = DOMAIN r /\ s.state = r.state /\ s.buf = r.buf  BY DEF BridgeByte, InShape
<1> HIDE DEF s
<1>2. InShape(s)  BY <1>1 DEF InShape
<1> QED  BY <1>2 DEF s

LEMMA CompleteFrameEnds ==
  ASSUME NEW r, {"state", "buf"} \subseteq DOMAIN r
  PROVE  /\ InShape(CompleteFrame(r))
         /\ CompleteFrame(r).state = "sync0" /\ CompleteFrame(r).buf = <<>>
<1> DEFINE t == [r EXCEPT !.isotp = @ \/ r.bridge # 0, !.bridge = 0]
           c == CheckFrame(t)
           e == [c EXCEPT !.state = "sync0", !.buf = <<>>]
<1>1. DOMAIN t = DOMAIN r  OBVIOUS
<1> HIDE DEF t
<1>2. DOMAIN c = DOMAIN t
  <2>1. DOMAIN TakeCounter(t, t.buf[3]) = DOMAIN t  BY DEF TakeCounter
  <2> QED  BY <2>1 DEF CheckFrame
<1> HIDE DEF c
<1>3. DOMAIN e = DOMAIN r /\ e.state = "sync0" /\ e.buf = <<>>  BY <1>1, <1>2
<1>4. CompleteFrame(r) = e  BY DEF CompleteFrame, e, c, t
<1> HIDE DEF e
<1>5. e.buf \in Seq(ByteRange) /\ Len(e.buf) = 0  BY <1>3
<1>6. InShape(e)  BY <1>3, <1>5 DEF InShape
<1> QED  BY <1>3, <1>4, <1>6

LEMMA ByteKeepsShape ==
  ASSUME NEW r, InShape(r), NEW b \in ByteRange
  PROVE  InShape(RxByte(r, b))
<1>1. CASE r.state = "sync0"
  <2>1. CASE b = Sync0
    <3> DEFINE t == [r EXCEPT !.state = "sync1", !.buf = <<b>>]
    <3>1. DOMAIN t = DOMAIN r /\ t.state = "sync1" /\ t.buf = <<b>>  BY DEF InShape
    <3>2. RxByte(r, b) = t  BY <1>1, <2>1 DEF RxByte
    <3> HIDE DEF t
    <3>3. t.buf \in Seq(ByteRange) /\ t.buf = <<Sync0>>  BY <2>1, <3>1
    <3> QED  BY <3>1, <3>2, <3>3 DEF InShape
  <2>2. CASE b # Sync0
    <3>1. RxByte(r, b) = BridgeByte(r, b)  BY <1>1, <2>2 DEF RxByte
    <3> QED  BY <3>1, BridgeByteKeeps
  <2> QED  BY <2>1, <2>2
<1>2. CASE r.state = "sync1"
  <2>1. CASE b = Sync1
    <3> DEFINE t == [r EXCEPT !.state = "collect", !.buf = Append(@, b)]
    <3>1. DOMAIN t = DOMAIN r /\ t.state = "collect" /\ t.buf = Append(r.buf, b)
      BY DEF InShape
    <3>2. RxByte(r, b) = t  BY <1>2, <2>1 DEF RxByte
    <3> HIDE DEF t
    <3>3. r.buf \in Seq(ByteRange) /\ Len(r.buf) = 1  BY <1>2 DEF InShape
    <3>4. t.buf \in Seq(ByteRange) /\ Len(t.buf) = 2  BY <3>1, <3>3, AppendProperties
    <3>5. 2 \in 2 .. FrameLen - 1  BY Numbers DEF FrameLen
    <3> QED  BY <3>1, <3>2, <3>4, <3>5 DEF InShape
  <2>2. CASE b # Sync1 /\ b = Sync0
    <3>1. RxByte(r, b) = r  BY <1>2, <2>2 DEF RxByte
    <3> QED  BY <3>1
  <2>3. CASE b # Sync1 /\ b # Sync0
    <3> DEFINE t == [r EXCEPT !.resyncs = TRUE, !.state = "sync0", !.buf = <<>>]
    <3>1. DOMAIN t = DOMAIN r /\ t.state = "sync0" /\ t.buf = <<>>  BY DEF InShape
    <3>2. RxByte(r, b) = BridgeByte(t, b)  BY <1>2, <2>3 DEF RxByte
    <3> HIDE DEF t
    <3>3. t.buf \in Seq(ByteRange) /\ Len(t.buf) = 0  BY <3>1
    <3>4. InShape(t)  BY <3>1, <3>3 DEF InShape
    <3> QED  BY <3>2, <3>4, BridgeByteKeeps
  <2> QED  BY <2>1, <2>2, <2>3
<1>3. CASE r.state = "collect"
  <2> DEFINE more == [r EXCEPT !.buf = Append(@, b)]
  <2>1. DOMAIN more = DOMAIN r /\ more.state = r.state /\ more.buf = Append(r.buf, b)
    BY DEF InShape
  <2>2. RxByte(r, b) = IF Len(more.buf) < FrameLen THEN more ELSE CompleteFrame(more)
    BY <1>3 DEF RxByte
  <2> HIDE DEF more
  <2>3. r.buf \in Seq(ByteRange) /\ Len(r.buf) \in 2 .. FrameLen - 1  BY <1>3 DEF InShape
  <2>4. more.buf \in Seq(ByteRange) /\ Len(more.buf) = Len(r.buf) + 1
    BY <2>1, <2>3, AppendProperties
  <2>5. CASE Len(more.buf) < FrameLen
    <3>1. FrameLen \in Nat  BY Numbers DEF FrameLen
    <3>2. Len(more.buf) \in 2 .. FrameLen - 1  BY <2>3, <2>4, <2>5, <3>1
    <3> QED  BY <1>3, <2>1, <2>2, <2>4, <2>5, <3>2 DEF InShape
  <2>6. CASE ~(Len(more.buf) < FrameLen)
    <3>1. {"state", "buf"} \subseteq DOMAIN more  BY <2>1 DEF InShape
    <3> QED  BY <2>2, <2>6, <3>1, CompleteFrameEnds
  <2> QED  BY <2>5, <2>6
<1> QED  BY <1>1, <1>2, <1>3 DEF InShape

LEMMA StartsInShape == InShape(RxInit)
BY DEF InShape, RxInit

\* The receive ring holds no more than it can, and the frame buffer never more
\* than a frame, wherever in a frame the sweep cleared the verifier: what comes
\* then is garbage to it, and the end of a buffer is all that stops it
\* (frame_rx_byte, engine_reset_counters).
ShapeInv == InShape(rx) /\ Len(rxRing) <= RxRingBytes

LEMMA ShapeNext == QueueInv /\ ShapeInv /\ [BridgeNext]_allVars => ShapeInv'
<1> SUFFICES ASSUME QueueInv, ShapeInv, [BridgeNext]_allVars PROVE ShapeInv'  OBVIOUS
<1>1. rxRing \in Seq(ByteRange) /\ air \in Seq(ByteRange)  BY DEF QueueInv
<1>2. CASE ProtoByte
  <2>1. /\ rxRing # <<>> /\ rx' = RxByte(rx, Head(rxRing)) /\ rxRing' = Tail(rxRing)
    BY <1>2 DEF ProtoByte
  <2>2. Head(rxRing) \in ByteRange /\ Len(Tail(rxRing)) = Len(rxRing) - 1
        /\ Len(rxRing) \in Nat
    BY <1>1, <2>1, HeadTailProperties, LenProperties
  <2>3. InShape(RxByte(rx, Head(rxRing)))  BY <2>2, ByteKeepsShape DEF ShapeInv
  <2>4. Len(Tail(rxRing)) <= RxRingBytes
    <3>1. RxRingBytes \in Nat  BY BridgeAssumption
    <3> QED  BY <2>2, <3>1 DEF ShapeInv
  <2> QED  BY <2>1, <2>3, <2>4 DEF ShapeInv
<1>3. CASE SweepHandsBack
  <2>1. rx' = RxInit /\ rxRing' = rxRing  BY <1>3 DEF SweepHandsBack
  <2> QED  BY <2>1, StartsInShape DEF ShapeInv
<1>4. CASE RxIsr
  <2>1. rx' = rx /\ air # <<>>
        /\ \/ rxRing' = rxRing
           \/ Len(rxRing) < RxRingBytes /\ rxRing' = Append(rxRing, Head(air))
    BY <1>4 DEF RxIsr
  <2>2. Head(air) \in ByteRange  BY <1>1, <2>1, HeadTailProperties
  <2>3. Len(Append(rxRing, Head(air))) = Len(rxRing) + 1 /\ Len(rxRing) \in Nat
    BY <1>1, <2>2, AppendProperties, LenProperties
  <2>4. Len(rxRing) < RxRingBytes => Len(Append(rxRing, Head(air))) <= RxRingBytes
    <3>1. RxRingBytes \in Nat  BY BridgeAssumption
    <3> QED  BY <2>3, <3>1
  <2> QED  BY <2>1, <2>4 DEF ShapeInv
<1>5. CASE Slot  BY <1>5 DEF Slot, uart, ShapeInv
<1>6. CASE Push  BY <1>6 DEF Push, uart, ShapeInv
<1>7. CASE Tick  BY <1>7 DEF Tick, ShapeInv
<1>8. CASE ProtoWakes  BY <1>8 DEF ProtoWakes, uart, ShapeInv
<1>9. CASE ProtoDrained  BY <1>9 DEF ProtoDrained, uart, ShapeInv
<1>10. CASE ProtoAnswers  BY <1>10 DEF ProtoAnswers, uart, ShapeInv
<1>11. CASE ProtoClears  BY <1>11 DEF ProtoClears, uart, ShapeInv
<1>12. CASE SensorWakes  BY <1>12 DEF SensorWakes, uart, ShapeInv
<1>13. CASE SensorFills  BY <1>13 DEF SensorFills, uart, ShapeInv
<1>14. CASE Time  BY <1>14 DEF Time, uart, ShapeInv
<1>15. CASE UNCHANGED allVars  BY <1>15 DEF allVars, uart, ShapeInv
<1> QED
  BY <1>2, <1>3, <1>4, <1>5, <1>6, <1>7, <1>8, <1>9, <1>10, <1>11, <1>12, <1>13, <1>14,
     <1>15
  DEF BridgeNext, Machine, Steps

\* The verifier's place in a burst is one.
Counts(r) == "bridge" \in DOMAIN r /\ r.bridge \in 0 .. BurstBytes - 1

LEMMA BridgeByteCounts ==
  ASSUME NEW r, Counts(r), NEW b \in Nat
  PROVE  Counts(BridgeByte(r, b))
<1> DEFINE s == BridgeByte(r, b)
<1>1. BurstBytes \in Nat \ {0}  BY ReceiverAssumption
<1>2. CASE b # BridgeByteAt(r.bridge)
  <2>1. s.bridge = (r.bridge \div Half) * Half + ((b + 1) % Half) /\ DOMAIN s = DOMAIN r
    BY <1>2 DEF BridgeByte, Counts
  <2> HIDE DEF s
  <2>2. r.bridge \in 0 .. BurstBytes - 1  BY DEF Counts
  <2>3. (r.bridge \div Half) * Half + ((b + 1) % Half) \in 0 .. BurstBytes - 1
    BY <2>2, RoundsFit
  <2>4. Counts(s)  BY <2>1, <2>3 DEF Counts
  <2> QED  BY <2>4 DEF s
<1>3. CASE ~(b # BridgeByteAt(r.bridge)) /\ r.bridge + 1 >= BurstBytes
  <2>1. s.bridge = 0 /\ DOMAIN s = DOMAIN r  BY <1>3 DEF BridgeByte, Counts
  <2> HIDE DEF s
  <2>2. Counts(s)  BY <1>1, <2>1 DEF Counts
  <2> QED  BY <2>2 DEF s
<1>4. CASE ~(b # BridgeByteAt(r.bridge)) /\ ~(r.bridge + 1 >= BurstBytes)
  <2>1. s.bridge = r.bridge + 1 /\ DOMAIN s = DOMAIN r  BY <1>4 DEF BridgeByte, Counts
  <2> HIDE DEF s
  <2>2. Counts(s)  BY <1>1, <1>4, <2>1 DEF Counts
  <2> QED  BY <2>2 DEF s
<1> QED  BY <1>2, <1>3, <1>4

LEMMA ByteKeepsCount ==
  ASSUME NEW r, Counts(r), {"state", "buf"} \subseteq DOMAIN r,
         r.state \in {"sync0", "sync1", "collect"}, NEW b \in Nat
  PROVE  Counts(RxByte(r, b))
<1>1. CASE r.state = "sync0"
  <2>1. CASE b = Sync0
    <3> DEFINE t == [r EXCEPT !.state = "sync1", !.buf = <<b>>]
    <3>1. DOMAIN t = DOMAIN r /\ t.bridge = r.bridge  BY DEF Counts
    <3>2. RxByte(r, b) = t  BY <1>1, <2>1 DEF RxByte
    <3> HIDE DEF t
    <3> QED  BY <3>1, <3>2 DEF Counts
  <2>2. CASE b # Sync0
    <3>1. RxByte(r, b) = BridgeByte(r, b)  BY <1>1, <2>2 DEF RxByte
    <3> QED  BY <3>1, BridgeByteCounts
  <2> QED  BY <2>1, <2>2
<1>2. CASE r.state = "sync1"
  <2>1. CASE b = Sync1
    <3> DEFINE t == [r EXCEPT !.state = "collect", !.buf = Append(@, b)]
    <3>1. DOMAIN t = DOMAIN r /\ t.bridge = r.bridge  BY DEF Counts
    <3>2. RxByte(r, b) = t  BY <1>2, <2>1 DEF RxByte
    <3> HIDE DEF t
    <3> QED  BY <3>1, <3>2 DEF Counts
  <2>2. CASE b # Sync1 /\ b = Sync0
    <3>1. RxByte(r, b) = r  BY <1>2, <2>2 DEF RxByte
    <3> QED  BY <3>1
  <2>3. CASE b # Sync1 /\ b # Sync0
    <3> DEFINE t == [r EXCEPT !.resyncs = TRUE, !.state = "sync0", !.buf = <<>>]
    <3>1. DOMAIN t = DOMAIN r /\ t.bridge = r.bridge  BY DEF Counts
    <3>2. RxByte(r, b) = BridgeByte(t, b)  BY <1>2, <2>3 DEF RxByte
    <3> HIDE DEF t
    <3>3. Counts(t)  BY <3>1 DEF Counts
    <3> QED  BY <3>2, <3>3, BridgeByteCounts
  <2> QED  BY <2>1, <2>2, <2>3
<1>3. CASE r.state = "collect"
  <2> DEFINE more == [r EXCEPT !.buf = Append(@, b)]
  <2>1. DOMAIN more = DOMAIN r /\ more.bridge = r.bridge  BY DEF Counts
  <2>2. RxByte(r, b) = IF Len(more.buf) < FrameLen THEN more ELSE CompleteFrame(more)
    BY <1>3 DEF RxByte
  <2> HIDE DEF more
  <2>3. Counts(CompleteFrame(more))
    <3> DEFINE t == [more EXCEPT !.isotp = @ \/ more.bridge # 0, !.bridge = 0]
               c == CheckFrame(t)
               e == [c EXCEPT !.state = "sync0", !.buf = <<>>]
    <3>1. DOMAIN t = DOMAIN more /\ t.bridge = 0  BY <2>1 DEF Counts
    <3> HIDE DEF t
    <3>2. DOMAIN c = DOMAIN t /\ c.bridge = t.bridge
      <4> DEFINE u == TakeCounter(t, t.buf[3])
      <4>1. DOMAIN u = DOMAIN t /\ u.bridge = t.bridge  BY <2>1, <3>1 DEF TakeCounter, Counts
      <4> HIDE DEF u
      <4>2. "bridge" \in DOMAIN t  BY <2>1, <3>1 DEF Counts
      <4> QED  BY <4>1, <4>2 DEF CheckFrame, u
    <3> HIDE DEF c
    <3>3. DOMAIN e = DOMAIN r /\ e.bridge = 0  BY <2>1, <3>1, <3>2 DEF Counts
    <3>4. CompleteFrame(more) = e  BY DEF CompleteFrame, e, c, t
    <3> HIDE DEF e
    <3>5. BurstBytes \in Nat \ {0}  BY ReceiverAssumption
    <3>6. 0 \in 0 .. BurstBytes - 1  BY <3>5
    <3> QED  BY <3>3, <3>4, <3>6 DEF Counts
  <2>4. Counts(more)  BY <2>1 DEF Counts
  <2> QED  BY <2>2, <2>3, <2>4
<1> QED  BY <1>1, <1>2, <1>3

LEMMA StartsCounting == Counts(RxInit)
<1>1. BurstBytes \in Nat \ {0}  BY ReceiverAssumption
<1>2. "bridge" \in DOMAIN RxInit /\ RxInit.bridge = 0  BY DEF RxInit
<1> QED  BY <1>1, <1>2 DEF Counts

LEMMA CountsNext ==
  QueueInv /\ ShapeInv /\ Counts(rx) /\ [BridgeNext]_allVars => Counts(rx)'
<1> SUFFICES ASSUME QueueInv, ShapeInv, Counts(rx), [BridgeNext]_allVars
             PROVE  Counts(rx')
  BY DEF Counts
<1>1. CASE rx' = rx  BY <1>1
<1>2. CASE ProtoByte
  <2>1. rxRing # <<>> /\ rx' = RxByte(rx, Head(rxRing)) /\ rxRing \in Seq(ByteRange)
    BY <1>2 DEF ProtoByte, QueueInv
  <2>2. Head(rxRing) \in ByteRange  BY <2>1, HeadTailProperties
  <2>3. Head(rxRing) \in Nat
    <3>1. ByteRange \subseteq Nat  BY Numbers
    <3> QED  BY <2>2, <3>1
  <2>4. {"state", "buf"} \subseteq DOMAIN rx /\ rx.state \in {"sync0", "sync1", "collect"}
    BY DEF ShapeInv, InShape
  <2>5. Counts(RxByte(rx, Head(rxRing)))  BY <2>3, <2>4, ByteKeepsCount
  <2> QED  BY <2>1, <2>5
<1>3. CASE SweepHandsBack
  <2>1. rx' = RxInit  BY <1>3 DEF SweepHandsBack
  <2> QED  BY <2>1, StartsCounting
<1>4. CASE OtherStep \/ UNCHANGED allVars \/ Slot \/ Push \/ Tick \/ RxIsr \/ ProtoDrained
             \/ Time
  <2>1. rx' = rx
    BY <1>4
    DEF OtherStep, allVars, Slot, Push, Tick, RxIsr, ProtoDrained, Time, ProtoWakes,
        ProtoAnswers, ProtoClears, SensorWakes, SensorFills
  <2> QED  BY <2>1
<1> QED  BY <1>2, <1>3, <1>4 DEF BridgeNext, Machine, Steps, OtherStep

LEMMA ShapeAndCount ==
  BridgeSpec => [](WayInv /\ ShapeInv /\ Counts(rx))
<1>1. BridgeInit => ShapeInv /\ Counts(rx)
  <2> SUFFICES ASSUME BridgeInit PROVE ShapeInv /\ Counts(rx)  OBVIOUS
  <2>1. rx = RxInit /\ rxRing = <<>>  BY DEF BridgeInit
  <2>2. Len(rxRing) = 0 /\ RxRingBytes \in Nat  BY <2>1, BridgeAssumption
  <2> QED  BY <2>1, <2>2, StartsInShape, StartsCounting DEF ShapeInv
<1>2. WayInv => QueueInv  BY DEF WayInv
<1> QED  BY <1>1, <1>2, ShapeNext, CountsNext, WayHolds, PTL DEF BridgeSpec

LEMMA ShapeIs ==
  ASSUME NEW r, InShape(r)
  PROVE  Len(r.buf) \in Nat /\ Len(r.buf) < FrameLen
<1>1. FrameLen \in Nat /\ FrameLen > 2  BY Numbers DEF FrameLen
<1>2. \A n : n = 0 \/ n = 1 \/ n \in 2 .. FrameLen - 1 => n \in Nat /\ n < FrameLen  BY <1>1
<1>3. Len(r.buf) = 0 \/ Len(r.buf) = 1 \/ Len(r.buf) \in 2 .. FrameLen - 1  BY DEF InShape
<1> QED  BY <1>2, <1>3, Zenon

\* Neither the receive ring nor the frame buffer is overrun, hand-backs
\* included, and the buffer holds what the state of the hunt says
\* (frame_rx_byte).
THEOREM BuffersHold ==
  BridgeSpec => [](Len(rx.buf) < FrameLen /\ Len(rxRing) <= RxRingBytes /\ InShape(rx))
<1>1. ShapeInv => Len(rx.buf) < FrameLen /\ Len(rxRing) <= RxRingBytes /\ InShape(rx)
  BY ShapeIs DEF ShapeInv
<1> QED  BY <1>1, ShapeAndCount, PTL

\* Every variable has its type, whatever is handed back: in particular the
\* verifier's place in a burst stays one, and the line holds two bytes.
THEOREM BridgeTypeCorrect == BridgeSpec => []BridgeTypeOK
<1>1. WayInv /\ ShapeInv /\ Counts(rx) => BridgeTypeOK
  <2> SUFFICES ASSUME LineInv, RequestInv, QueueInv, ShapeInv, Counts(rx) PROVE BridgeTypeOK
    BY DEF WayInv
  <2>1. TypeOK  BY TypesHold DEF LineInv
  <2>2. air \in BoundedSeq(ByteRange, 2)
    <3>1. air \in Seq(ByteRange) /\ Len(air) <= 2  BY DEF QueueInv
    <3>2. air \in [1 .. Len(air) -> ByteRange] /\ Len(air) \in Nat  BY <3>1, LenProperties
    <3>3. Len(air) \in 0 .. 2  BY <3>1, <3>2
    <3> QED  BY <3>2, <3>3 DEF BoundedSeq, SeqOf
  <2>3. /\ rxLost \in BOOLEAN /\ begun \in BOOLEAN /\ counter \in ByteRange
        /\ proto \in {"delayed", "drain", "answer", "clear", "ran"}
    BY DEF QueueInv
  <2>4. /\ Len(rxRing) <= RxRingBytes /\ rx.state \in {"sync0", "sync1", "collect"}
        /\ Len(rx.buf) < FrameLen
    BY ShapeIs DEF ShapeInv, InShape
  <2>5. rx.bridge \in 0 .. BurstBytes - 1  BY DEF Counts
  <2>6. pending \in BOOLEAN /\ failed \in BOOLEAN /\ waited \in Nat /\ handed \in 0 .. HandBacks
    BY DEF RequestInv
  <2>7. owed \in -1 .. 1
    <3>1. Open \in 0 .. 1  BY DEF Open
    <3>2. owed = Open \/ owed = Open - 1  BY DEF RequestInv
    <3> QED  BY <3>1, <3>2
  <2> QED  BY <2>1, <2>2, <2>3, <2>4, <2>5, <2>6, <2>7 DEF BridgeTypeOK
<1> QED  BY <1>1, ShapeAndCount, PTL

\* Whatever bytes were gathered for a frame, also the wrong ones that a
\* verifier cleared in the middle of one gathers, their checksum is the
\* remainder of the division by the polynomial (frame.c:18-40).
THEOREM TableStandsForDivision == BridgeSpec => []TableDivides
<1>1. ShapeInv => TableDivides
  <2> SUFFICES ASSUME InShape(rx), Len(rx.buf) = FrameLen - 1
               PROVE  LET s == SubSeq(rx.buf, 1, FrameLen - 2)
                          crc == Remainders(s)[Len(s)]
                      IN  Checksum(s) = <<crc % Bytes, crc \div Bytes>>
    BY DEF ShapeInv, TableDivides
  <2> DEFINE s == SubSeq(rx.buf, 1, FrameLen - 2)
  <2>1. rx.buf \in Seq(ByteRange)  BY DEF InShape
  <2>2. FrameLen \in Nat /\ FrameLen > 3  BY Numbers DEF FrameLen
  <2>3. 1 \in 1 .. Len(rx.buf) /\ FrameLen - 2 \in 1 .. Len(rx.buf)  BY <2>2
  <2>4. s \in Seq(ByteRange)  BY <2>1, <2>3, SubSeqProperties
  <2> HIDE DEF s
  <2>5. LET crc == Remainders(s)[Len(s)]
        IN  Checksum(s) = <<crc % Bytes, crc \div Bytes>>
    BY <2>4, ChecksumIs
  <2> QED  BY <2>5 DEF s
<1> QED  BY <1>1, ShapeAndCount, PTL


(***************************************************************************)
(* The verifier on a noisy line: it finds its way back.                    *)
(***************************************************************************)

LEMMA NoErrorsIs ==
  ASSUME NEW r \in RxTypes
  PROVE  /\ NoErrors(r) \in RxTypes /\ Clean(NoErrors(r))
         /\ NoErrors(r).state = r.state /\ NoErrors(r).buf = r.buf
         /\ NoErrors(r).have = r.have /\ NoErrors(r).last = r.last
         /\ NoErrors(r).bridge = r.bridge /\ NoErrors(r).whole = r.whole
         /\ NoErrors(r).snapshot = r.snapshot
<1> DEFINE t == NoErrors(r)
<1>1. /\ t.state = r.state /\ t.buf = r.buf /\ t.have = r.have /\ t.last = r.last
      /\ t.bridge = r.bridge /\ t.whole = r.whole /\ t.snapshot = r.snapshot
  BY DEF RxTypes, NoErrors
<1>2. t \in RxTypes  BY DEF RxTypes, NoErrors
<1>3. Clean(t)  BY DEF RxTypes, NoErrors, Clean
<1> QED  BY <1>1, <1>2, <1>3

\* A frame's worth of bytes, whatever they are, leaves the verifier one.
LEMMA CompleteFrameTypes ==
  ASSUME NEW r \in RxTypes, Len(r.buf) >= FrameLen
  PROVE  CompleteFrame(r) \in RxTypes
<1> DEFINE t == [r EXCEPT !.isotp = @ \/ r.bridge # 0, !.bridge = 0]
           c == t.buf[3]
           u == TakeCounter(t, c)
           wrong == \E i \in 1 .. PayloadBytes : t.buf[3 + i] # PayloadByte(c, i - 1)
           v == [u EXCEPT !.payload = @ \/ wrong, !.snapshot = t.buf]
           x == [t EXCEPT !.crc = TRUE, !.resyncs = TRUE]
           w == CheckFrame(t)
           e == [w EXCEPT !.state = "sync0", !.buf = <<>>]
<1>1. t \in RxTypes /\ t.buf = r.buf  BY DEF RxTypes
<1> HIDE DEF t
<1>2. t.buf \in Seq(ByteRange) /\ Len(t.buf) \in Nat  BY <1>1, RxIs, LenProperties
<1>3. c \in Nat
  <2>1. 3 \in 1 .. Len(t.buf)  BY <1>1, <1>2, Numbers DEF FrameLen
  <2>2. c \in ByteRange  BY <1>2, <2>1, ElementOfSeq
  <2> QED  BY <2>2, Numbers
<1>4. u \in RxTypes
  <2> HIDE DEF c
  <2> QED  BY <1>1, <1>3 DEF TakeCounter, RxTypes
<1>5. w = v \/ w = x
  <2> HIDE DEF u
  <2> QED  BY DEF CheckFrame, u
<1>6. x \in RxTypes  BY <1>1 DEF RxTypes
<1> HIDE DEF c, u, wrong, w, x
<1>7. v \in RxTypes
  <2>1. u.payload \in BOOLEAN /\ wrong \in BOOLEAN  BY <1>4 DEF RxTypes, wrong
  <2>2. (u.payload \/ wrong) \in BOOLEAN  BY <2>1
  <2> QED  BY <1>2, <1>4, <2>2 DEF RxTypes
<1> HIDE DEF v
<1>8. w \in RxTypes  BY <1>5, <1>6, <1>7
<1>9. <<>> \in Seq(ByteRange)  OBVIOUS
<1>10. e \in RxTypes  BY <1>8, <1>9 DEF RxTypes
<1>11. CompleteFrame(r) = e  BY DEF CompleteFrame, e, w, t
<1> QED  BY <1>10, <1>11

LEMMA ByteKeepsTypes ==
  ASSUME NEW r \in RxTypes, InShape(r), NEW b \in ByteRange
  PROVE  RxByte(r, b) \in RxTypes
<1>1. b \in Nat /\ r.buf \in Seq(ByteRange)  BY Numbers, RxIs
<1>2. Append(r.buf, b) \in Seq(ByteRange) /\ Len(Append(r.buf, b)) = Len(r.buf) + 1
  BY <1>1, AppendProperties
<1>3. CASE r.state = "sync0"
  <2>1. CASE b = Sync0
    <3>1. RxByte(r, b) = Hunting(r, "sync1", <<b>>)  BY <1>3, <2>1 DEF RxByte, Hunting
    <3>2. <<b>> \in Seq(ByteRange) /\ "sync1" \in {"sync0", "sync1", "collect"}  OBVIOUS
    <3>3. Keeps(Hunting(r, "sync1", <<b>>), r)  BY <3>2, HuntingKeeps
    <3> QED  BY <3>1, <3>3 DEF Keeps
  <2>2. CASE b # Sync0
    <3>1. RxByte(r, b) = BridgeByte(r, b)  BY <1>3, <2>2 DEF RxByte
    <3> QED  BY <1>1, <3>1, BridgeByteIs
  <2> QED  BY <2>1, <2>2
<1>4. CASE r.state = "sync1"
  <2>1. CASE b = Sync1
    <3> DEFINE s == Append(r.buf, b)
    <3>1. RxByte(r, b) = Hunting(r, "collect", s)  BY <1>4, <2>1 DEF RxByte, Hunting
    <3>2. s \in Seq(ByteRange) /\ "collect" \in {"sync0", "sync1", "collect"}  BY <1>2
    <3> HIDE DEF s
    <3>3. Keeps(Hunting(r, "collect", s), r)  BY <3>2, HuntingKeeps
    <3> QED  BY <3>1, <3>3 DEF Keeps
  <2>2. CASE b # Sync1 /\ b = Sync0
    <3>1. RxByte(r, b) = r  BY <1>4, <2>2 DEF RxByte
    <3> QED  BY <3>1
  <2>3. CASE b # Sync1 /\ b # Sync0
    <3> DEFINE u == [r EXCEPT !.resyncs = TRUE, !.state = "sync0", !.buf = <<>>]
    <3>1. RxByte(r, b) = BridgeByte(u, b)  BY <1>4, <2>3 DEF RxByte
    <3>2. <<>> \in Seq(ByteRange)  OBVIOUS
    <3>3. u \in RxTypes  BY <3>2 DEF RxTypes
    <3> HIDE DEF u
    <3> QED  BY <1>1, <3>1, <3>3, BridgeByteIs
  <2> QED  BY <2>1, <2>2, <2>3
<1>5. CASE r.state = "collect"
  <2> DEFINE more == [r EXCEPT !.buf = Append(@, b)]
  <2>1. more \in RxTypes /\ more.buf = Append(r.buf, b)  BY <1>2 DEF RxTypes
  <2>2. RxByte(r, b) = IF Len(more.buf) < FrameLen THEN more ELSE CompleteFrame(more)
    BY <1>5 DEF RxByte
  <2> HIDE DEF more
  <2>3. CASE Len(more.buf) < FrameLen  BY <2>1, <2>2, <2>3
  <2>4. CASE ~(Len(more.buf) < FrameLen)
    <3>1. Len(more.buf) \in Nat /\ FrameLen \in Nat
      BY <1>2, <2>1, LenProperties, Numbers DEF FrameLen
    <3>2. Len(more.buf) >= FrameLen  BY <2>4, <3>1
    <3> QED  BY <2>1, <2>2, <2>4, <3>2, CompleteFrameTypes
  <2> QED  BY <2>3, <2>4
<1> QED  BY <1>3, <1>4, <1>5, RxIs


\* The sender of the noisy line, s, is at place p.
StandsAt(p, s) ==
  /\ p \in Places /\ Count(p.f) = s.counter
  /\ p.done = (IF s.kind = "frame" THEN s.sent ELSE 0)
  /\ p.sent = (IF s.kind = "burst" THEN s.sent ELSE 0)

\* The verifier r, n bytes after a fault, is in one of four phases: it gathers
\* bytes behind a header that is none...
Astray(r, n) == r.state # "sync0" /\ n <= Len(r.buf) - 1

\* ... or hunts for a header, after a byte that may begin one or not...
Hunts(r, p) ==
  \/ r.state = "sync0" /\ r.buf = <<>>
  \/ /\ r.state = "sync1" /\ r.buf = <<Sync0>>
     /\ p.sent = 0 /\ p.done # 1 /\ (p.done # 0 => FrameOf(Count(p.f))[p.done] = Sync0)

HuntLimit(p, kind) ==
  IF kind = "burst" THEN 2 * Frame - 2 + p.sent
  ELSE IF p.done = 0 THEN 2 * Frame - 2 + Burst ELSE Frame - 1 + (p.done - 1)

\* ... or is on a frame...
Gathers(r, p, kind) == kind = "frame" /\ p.done # 0 /\ InFrame(r, p)

GatherLimit(p) == 2 * Frame - 2 + Burst + p.done

\* ... or is in step, but for the errors it may count for the byte that brought
\* it there.
Steady(r, p) == p.f > 0 /\ Follows(NoErrors(r), p)

Phase(r, p, kind, n) ==
  \/ Astray(r, n)
  \/ Hunts(r, p) /\ n <= HuntLimit(p, kind)
  \/ Gathers(r, p, kind) /\ n <= GatherLimit(p)
  \/ Steady(r, p) /\ (Clean(r) \/ n < HealWithin)

\* A byte of a burst ends the hunt for a header's second byte.
LEMMA HuntsBurst ==
  ASSUME NEW p \in Places, NEW q \in Places, NEW b, BurstByte(p, b, q), NEW r \in RxTypes,
         Hunts(r, p)
  PROVE  Hunts(RxByte(r, b), q)
<1>1. b \in Nat /\ b # Sync0 /\ (p.sent = 0 => b # Sync1)
  <2>1. p.sent \in 0 .. Burst - 1  BY PlaceIs
  <2> QED  BY <2>1, BridgeByteIsNone DEF BurstByte
<1>2. ASSUME NEW u \in RxTypes, u.state = "sync0", u.buf = <<>>
      PROVE  Hunts(BridgeByte(u, b), q)
  <2> DEFINE s == BridgeByte(u, b)
  <2>1. s.state = u.state /\ s.buf = u.buf  BY <1>1, BridgeByteIs
  <2> HIDE DEF s
  <2>2. Hunts(s, q)  BY <1>2, <2>1 DEF Hunts
  <2> QED  BY <2>2 DEF s
<1>3. CASE r.state = "sync0" /\ r.buf = <<>>
  <2>1. RxByte(r, b) = BridgeByte(r, b)  BY <1>1, <1>3 DEF RxByte
  <2> QED  BY <1>2, <1>3, <2>1
<1>4. CASE r.state = "sync1" /\ p.sent = 0
  <2> DEFINE u == [r EXCEPT !.resyncs = TRUE, !.state = "sync0", !.buf = <<>>]
  <2>1. RxByte(r, b) = BridgeByte(u, b)  BY <1>1, <1>4 DEF RxByte
  <2>2. <<>> \in Seq(ByteRange)  OBVIOUS
  <2>3. u \in RxTypes /\ u.state = "sync0" /\ u.buf = <<>>  BY <2>2 DEF RxTypes
  <2> HIDE DEF u
  <2> QED  BY <1>2, <2>1, <2>3
<1> QED  BY <1>3, <1>4 DEF Hunts

\* The first byte of a frame: the hunt is over.
LEMMA HuntsStart ==
  ASSUME NEW p \in Places, NEW q \in Places, NEW b, FrameByte(p, b, q), NEW r \in RxTypes,
         Hunts(r, p), p.done = 0
  PROVE  InFrame(RxByte(r, b), q) /\ q.done = 1
<1> DEFINE F == FrameOf(Count(p.f))
<1>1. q.f = p.f /\ q.done = 1  BY Numbers DEF FrameByte
<1>2. F[1] = Sync0 /\ SubSeq(F, 1, 1) = <<Sync0>>
  <2>1. Count(p.f) \in ByteRange  BY PlaceIs
  <2> QED  BY <2>1, FrameBegins
<1> HIDE DEF F
<1>3. CASE r.state = "sync0" /\ r.buf = <<>>
  <2>1. SubSeq(F, 1, p.done) = <<>>  BY SubSeqEmpty
  <2>2. InFrame(r, p)  BY <1>3, <2>1 DEF InFrame, F
  <2> QED  BY <1>1, <2>2, HuntFirst
<1>4. CASE r.state = "sync1" /\ r.buf = <<Sync0>>
  <2>1. b = Sync0  BY <1>2 DEF FrameByte, F
  <2>2. RxByte(r, b) = r  BY <1>4, <2>1, Numbers DEF RxByte
  <2>3. InFrame(r, q)  BY <1>1, <1>2, <1>4 DEF InFrame, F
  <2> QED  BY <1>1, <2>2, <2>3
<1> QED  BY <1>3, <1>4 DEF Hunts

\* Another byte of it is never taken for the second of a header.
LEMMA HuntsOn ==
  ASSUME NEW p \in Places, NEW q \in Places, NEW b, FrameByte(p, b, q), NEW r \in RxTypes,
         Hunts(r, p), p.done # 0
  PROVE  Hunts(RxByte(r, b), q)
<1> DEFINE c == Count(p.f)
           d == p.done
<1>1. c \in ByteRange /\ d \in 1 .. Frame - 1 /\ b = FrameOf(c)[d + 1]
  BY PlaceIs DEF FrameByte
<1>2. b \in ByteRange /\ b \in Nat
  <2>1. FrameOf(c) \in Seq(ByteRange) /\ Len(FrameOf(c)) = Frame  BY <1>1, FrameIs
  <2> HIDE DEF c, d
  <2>2. d + 1 \in 1 .. Frame  BY <1>1, Numbers
  <2>3. b \in ByteRange  BY <1>1, <2>1, <2>2, ElementOfSeq
  <2> QED  BY <2>3, Numbers
<1>3. q.sent = 0 /\ q.done # 1 /\ (q.done # 0 => q.f = p.f /\ q.done = d + 1)
  BY <1>1, Numbers DEF FrameByte
<1>4. q.done # 0 => b = FrameOf(Count(q.f))[q.done]  BY <1>1, <1>3
<1> HIDE DEF c, d
<1>5. ASSUME NEW u \in RxTypes, u.state = "sync0", u.buf = <<>>
      PROVE  Hunts(BridgeByte(u, b), q)
  <2> DEFINE s == BridgeByte(u, b)
  <2>1. s.state = u.state /\ s.buf = u.buf  BY <1>2, BridgeByteIs
  <2> HIDE DEF s
  <2>2. Hunts(s, q)  BY <1>5, <2>1 DEF Hunts
  <2> QED  BY <2>2 DEF s
<1>6. ASSUME b = Sync0, NEW u, u.state = "sync1", u.buf = <<Sync0>>
      PROVE  Hunts(u, q)
  BY <1>3, <1>4, <1>6 DEF Hunts
<1>7. CASE r.state = "sync0" /\ r.buf = <<>>
  <2>1. CASE b = Sync0
    <3> DEFINE u == Hunting(r, "sync1", <<b>>)
    <3>1. RxByte(r, b) = u  BY <1>7, <2>1 DEF RxByte, Hunting
    <3>2. <<b>> \in Seq(ByteRange) /\ "sync1" \in {"sync0", "sync1", "collect"}  BY <1>2
    <3>3. u.state = "sync1" /\ u.buf = <<b>>  BY <3>2, HuntingKeeps, Zenon
    <3> HIDE DEF u
    <3>4. u.buf = <<Sync0>>  BY <2>1, <3>3, Zenon
    <3>5. Hunts(u, q)  BY <1>6, <2>1, <3>3, <3>4
    <3> QED  BY <3>1, <3>5
  <2>2. CASE b # Sync0
    <3>1. RxByte(r, b) = BridgeByte(r, b)  BY <1>7, <2>2 DEF RxByte
    <3> QED  BY <1>5, <1>7, <3>1
  <2> QED  BY <2>1, <2>2
<1>8. CASE r.state = "sync1" /\ r.buf = <<Sync0>> /\ d # 1 /\ FrameOf(c)[d] = Sync0
  <2>1. b # Sync1
    <3>1. d \in 2 .. FrameLen - 1
      <4>1. FrameLen = Frame  BY BridgeAssumption
      <4> QED  BY <1>1, <1>8, <4>1
    <3>2. ~(FrameOf(c)[d] = Sync0 /\ FrameOf(c)[d + 1] = Sync1)
      BY <1>1, <3>1, NoisyAssumption DEF HeaderOnce
    <3> QED  BY <1>1, <1>8, <3>2
  <2>2. CASE b = Sync0
    <3>1. RxByte(r, b) = r  BY <1>8, <2>1, <2>2 DEF RxByte
    <3>2. Hunts(r, q)  BY <1>6, <1>8, <2>2
    <3> QED  BY <3>1, <3>2
  <2>3. CASE b # Sync0
    <3> DEFINE u == [r EXCEPT !.resyncs = TRUE, !.state = "sync0", !.buf = <<>>]
    <3>1. RxByte(r, b) = BridgeByte(u, b)  BY <1>8, <2>1, <2>3 DEF RxByte
    <3>2. <<>> \in Seq(ByteRange)  OBVIOUS
    <3>3. u \in RxTypes /\ u.state = "sync0" /\ u.buf = <<>>  BY <3>2 DEF RxTypes
    <3> HIDE DEF u
    <3> QED  BY <1>5, <3>1, <3>3
  <2> QED  BY <2>2, <2>3
<1> QED  BY <1>7, <1>8 DEF Hunts, c, d


LEMMA GoesByte ==
  ASSUME NEW p \in Places, NEW q \in Places, NEW b, Goes(p, b, q)
  PROVE  b \in ByteRange /\ b \in Nat
<1>1. CASE FrameByte(p, b, q)
  <2> DEFINE F == FrameOf(Count(p.f))
  <2>1. F \in Seq(ByteRange) /\ Len(F) = Frame  BY PlaceIs, FrameIs
  <2>2. b = F[p.done + 1]  BY <1>1 DEF FrameByte
  <2> HIDE DEF F
  <2>3. p.done + 1 \in 1 .. Frame
    <3>1. p.done \in 0 .. Frame - 1  BY PlaceIs
    <3> QED  BY <3>1, Numbers
  <2>4. b \in ByteRange  BY <2>1, <2>2, <2>3, ElementOfSeq
  <2> QED  BY <2>4, Numbers
<1>2. CASE BurstByte(p, b, q)
  <2>1. p.sent \in Nat  BY PlaceIs
  <2>2. p.sent % Half \in 0 .. Half - 1  BY <2>1, Numbers
  <2>3. b \in 0 .. Half - 1  BY <1>2, <2>2 DEF BurstByte, BridgeByteAt
  <2> QED  BY <2>3, Numbers
<1> QED  BY <1>1, <1>2 DEF Goes

\* Bytes behind a false header are soon a frame's worth of them.
LEMMA AstrayOn ==
  ASSUME NEW p \in Places, NEW q \in Places, NEW b, Goes(p, b, q),
         NEW r \in RxTypes, InShape(r), NEW n \in Nat, Astray(r, n)
  PROVE  /\ n + 1 <= Frame - 1
         /\ \/ Astray(RxByte(r, b), n + 1)
            \/ Hunts(RxByte(r, b), q)
            \/ FrameByte(p, b, q) /\ InFrame(RxByte(r, b), q) /\ q.done = 1
<1>1. b \in ByteRange /\ b \in Nat  BY GoesByte
<1>2. /\ Len(r.buf) \in Nat /\ Len(r.buf) < Frame /\ r.buf \in Seq(ByteRange)
      /\ n <= Len(r.buf) - 1
  BY ShapeIs, RxIs, BridgeAssumption DEF Astray
<1>3. n + 1 <= Frame - 1  BY <1>2, Numbers
<1>4. Append(r.buf, b) \in Seq(ByteRange) /\ Len(Append(r.buf, b)) = Len(r.buf) + 1
  BY <1>1, <1>2, AppendProperties
<1>5. CASE r.state = "sync1" /\ b = Sync1
  <2> DEFINE s == Append(r.buf, b)
             t == Hunting(r, "collect", s)
  <2>1. RxByte(r, b) = t  BY <1>5 DEF RxByte, Hunting
  <2>2. s \in Seq(ByteRange) /\ "collect" \in {"sync0", "sync1", "collect"}  BY <1>4
  <2>3. Len(s) = Len(r.buf) + 1  BY <1>4
  <2> HIDE DEF s
  <2>4. t.state = "collect" /\ t.buf = s  BY <2>2, HuntingKeeps
  <2> HIDE DEF t
  <2>5. Astray(t, n + 1)  BY <1>2, <2>3, <2>4 DEF Astray
  <2> QED  BY <1>3, <2>1, <2>5
<1>6. CASE r.state = "sync1" /\ b = Sync0
  <2>1. RxByte(r, b) = r  BY <1>6, Numbers DEF RxByte
  <2>2. r.buf = <<Sync0>>  BY <1>6 DEF InShape
  <2>3. ~BurstByte(p, b, q)
    <3>1. p.sent \in 0 .. Burst - 1  BY PlaceIs
    <3> QED  BY <1>6, <3>1, BridgeByteIsNone DEF BurstByte
  <2>4. FrameByte(p, b, q)  BY <2>3 DEF Goes
  <2>5. CASE p.done = 0
    <3>1. Hunts(r, p)
      <4>1. p.sent = 0 /\ p.done # 1  BY <2>4, <2>5 DEF FrameByte
      <4> QED  BY <1>6, <2>2, <2>5, <4>1 DEF Hunts
    <3> QED  BY <1>3, <2>4, <2>5, <3>1, HuntsStart
  <2>6. CASE p.done # 0
    <3>1. p.done \in 1 .. Frame - 1  BY <2>6, PlaceIs
    <3>2. q.sent = 0 /\ q.done # 1 /\ (q.done # 0 => q.f = p.f /\ q.done = p.done + 1)
      BY <2>4, <3>1, Numbers DEF FrameByte
    <3>3. b = FrameOf(Count(p.f))[p.done + 1]  BY <2>4 DEF FrameByte
    <3>4. q.done # 0 => FrameOf(Count(q.f))[q.done] = Sync0  BY <1>6, <3>2, <3>3
    <3>5. Hunts(r, q)  BY <1>6, <2>2, <3>2, <3>4 DEF Hunts
    <3> QED  BY <1>3, <2>1, <3>5
  <2> QED  BY <2>5, <2>6
<1>7. CASE r.state = "sync1" /\ b # Sync1 /\ b # Sync0
  <2> DEFINE u == [r EXCEPT !.resyncs = TRUE, !.state = "sync0", !.buf = <<>>]
             s == BridgeByte(u, b)
  <2>1. RxByte(r, b) = s  BY <1>7 DEF RxByte
  <2>2. <<>> \in Seq(ByteRange)  OBVIOUS
  <2>3. u \in RxTypes /\ u.state = "sync0" /\ u.buf = <<>>  BY <2>2 DEF RxTypes
  <2> HIDE DEF u
  <2>4. s.state = u.state /\ s.buf = u.buf  BY <1>1, <2>3, BridgeByteIs
  <2> HIDE DEF s
  <2>5. Hunts(s, q)  BY <2>3, <2>4 DEF Hunts
  <2> QED  BY <1>3, <2>1, <2>5
<1>8. CASE r.state = "collect"
  <2> DEFINE more == [r EXCEPT !.buf = Append(@, b)]
  <2>1. /\ more \in RxTypes /\ more.buf = Append(r.buf, b) /\ more.state = "collect"
        /\ {"state", "buf"} \subseteq DOMAIN more
    BY <1>4, <1>8 DEF RxTypes
  <2>2. RxByte(r, b) = IF Len(more.buf) < FrameLen THEN more ELSE CompleteFrame(more)
    BY <1>8 DEF RxByte
  <2> HIDE DEF more
  <2>3. CASE Len(more.buf) < FrameLen
    <3>1. Astray(more, n + 1)  BY <1>2, <1>4, <2>1 DEF Astray
    <3> QED  BY <1>3, <2>2, <2>3, <3>1
  <2>4. CASE ~(Len(more.buf) < FrameLen)
    <3>1. Hunts(CompleteFrame(more), q)  BY <2>1, CompleteFrameEnds DEF Hunts
    <3> QED  BY <1>3, <2>2, <2>4, <3>1
  <2> QED  BY <2>3, <2>4
<1> QED  BY <1>5, <1>6, <1>7, <1>8, RxIs DEF Astray

\* Byte b of a stream of kind k takes the sender from place p to place q, and to
\* kind l; one burst does not follow another.
Moves(p, b, q, k, l) ==
  /\ k \in {"frame", "burst"} /\ l \in {"frame", "burst"}
  /\ k = "frame" => FrameByte(p, b, q)
  /\ k = "burst" => BurstByte(p, b, q)
  /\ q.done # 0 => l = "frame"
  /\ l = "frame" => q.sent = 0
  /\ k = "burst" /\ l = "burst" => q.sent # 0

LEMMA LimitsAre ==
  ASSUME NEW q \in Places, NEW l \in {"frame", "burst"}
  PROVE  /\ HuntLimit(q, l) \in Nat /\ Frame - 1 <= HuntLimit(q, l)
         /\ HuntLimit(q, l) < HealWithin
         /\ q.done = 0 => HuntLimit(q, l) <= 2 * Frame - 2 + Burst
         /\ GatherLimit(q) \in Nat /\ GatherLimit(q) + 1 < HealWithin
<1>1. /\ q.done \in 0 .. Frame - 1 /\ q.sent \in 0 .. Burst - 1 /\ Burst \in Nat
      /\ HealWithin = Burst + 3 * Frame /\ Frame \in Nat /\ Frame > 5
  BY PlaceIs, Numbers, BridgeAssumption, ReceiverAssumption DEF HealWithin
<1> QED  BY <1>1 DEF HuntLimit, GatherLimit

\* The hunt has as many bytes more to go as the sender to the next frame.
LEMMA LimitOn ==
  ASSUME NEW p \in Places, NEW q \in Places, NEW b, NEW k, NEW l, Moves(p, b, q, k, l),
         NEW n \in Nat, n <= HuntLimit(p, k), k = "burst" \/ p.done # 0
  PROVE  n + 1 <= HuntLimit(q, l)
<1>1. /\ p.done \in 0 .. Frame - 1 /\ p.sent \in 0 .. Burst - 1 /\ Burst \in Nat
      /\ q.done \in 0 .. Frame - 1 /\ q.sent \in 0 .. Burst - 1
      /\ Frame \in Nat /\ Frame > 5
  BY PlaceIs, Numbers, BridgeAssumption, ReceiverAssumption
<1>2. CASE k = "burst"
  <2>1. n <= 2 * Frame - 2 + p.sent  BY <1>2 DEF HuntLimit
  <2>2. \/ p.sent + 1 < Burst /\ q.sent = p.sent + 1
        \/ p.sent + 1 = Burst /\ q.sent = 0
    BY <1>2 DEF Moves, BurstByte
  <2>3. q.done = 0  BY <1>2 DEF Moves, BurstByte
  <2>4. CASE l = "burst"
    <3>1. q.sent # 0  BY <1>2, <2>4 DEF Moves
    <3>2. HuntLimit(q, l) = 2 * Frame - 2 + q.sent  BY <2>4 DEF HuntLimit
    <3> QED  BY <1>1, <2>1, <2>2, <3>1, <3>2
  <2>5. CASE l = "frame"
    <3>1. HuntLimit(q, l) = 2 * Frame - 2 + Burst  BY <2>3, <2>5 DEF HuntLimit
    <3> QED  BY <1>1, <2>1, <2>2, <3>1
  <2> QED  BY <2>4, <2>5 DEF Moves
<1>3. CASE k = "frame" /\ p.done # 0
  <2>1. n <= Frame - 1 + (p.done - 1)  BY <1>3 DEF HuntLimit
  <2>2. \/ p.done + 1 < Frame /\ q.done = p.done + 1
        \/ p.done + 1 = Frame /\ q.done = 0
    BY <1>3 DEF Moves, FrameByte
  <2>3. q.done # 0 => l = "frame"  BY DEF Moves
  <2>4. CASE q.done # 0
    <3>1. HuntLimit(q, l) = Frame - 1 + (q.done - 1)  BY <2>3, <2>4 DEF HuntLimit
    <3> QED  BY <1>1, <2>1, <2>2, <2>4, <3>1
  <2>5. CASE q.done = 0
    <3>1. HuntLimit(q, l) >= 2 * Frame - 2  BY <1>1, <2>5 DEF HuntLimit
    <3>2. n + 1 <= 2 * Frame - 2  BY <1>1, <1>3, <2>1, <2>2
    <3>3. HuntLimit(q, l) \in Int  BY <1>1, <2>5 DEF HuntLimit
    <3> QED  BY <1>1, <3>1, <3>2, <3>3
  <2> QED  BY <2>4, <2>5
<1> QED  BY <1>2, <1>3 DEF Moves


\* From a frame that arrived whole on the verifier is in step.
LEMMA GathersOn ==
  ASSUME NEW p \in Places, NEW q \in Places, NEW b, FrameByte(p, b, q), NEW r \in RxTypes,
         InFrame(r, p), p.done + 1 = Frame
  PROVE  \E e \in Places : /\ e.f = q.f /\ e.done = q.done /\ e.sent = q.sent
                           /\ Steady(RxByte(r, b), e)
<1> DEFINE t == RxByte(r, b)
           u == NoErrors(t)
           e == [q EXCEPT !.whole = t.whole]
<1>1. InFrame(t, q) /\ Takes(t, r, p, q)  BY HuntEnds
<1> HIDE DEF t
<1>2. /\ t \in RxTypes /\ q.f = p.f + 1 /\ q.done = 0 /\ t.have = TRUE /\ t.last = Count(p.f)
      /\ t.snapshot = FrameOf(Count(p.f)) /\ t.bridge = 0 /\ q.sent = 0 /\ t.whole \in BOOLEAN
  BY <1>1, RxIs DEF Takes, FrameByte
<1>3. e \in Places /\ e.f = q.f /\ e.done = q.done /\ e.sent = q.sent /\ e.whole = t.whole
  BY <1>2 DEF Places
<1> HIDE DEF e
<1>4. e.f > 0 /\ e.f # 0 /\ CountBefore(e.f) = Count(p.f)
  <2>1. e.f > 0 /\ e.f # 0 /\ e.f - 1 = p.f  BY <1>2, <1>3, PlaceIs
  <2> QED  BY <2>1 DEF CountBefore, Count
<1>5. /\ u \in RxTypes /\ Clean(u) /\ u.state = t.state /\ u.buf = t.buf /\ u.have = t.have
      /\ u.last = t.last /\ u.bridge = t.bridge /\ u.whole = t.whole
      /\ u.snapshot = t.snapshot
  BY <1>2, NoErrorsIs
<1> HIDE DEF u
<1>6. InFrame(u, e)  BY <1>1, <1>3, <1>5 DEF InFrame
<1>7. u.have = (e.f > 0)
  <2>1. (e.f > 0) = TRUE  BY <1>4
  <2> QED  BY <1>2, <1>5, <2>1, Zenon
<1>8. Follows(u, e)  BY <1>2, <1>3, <1>4, <1>5, <1>6, <1>7 DEF Follows
<1>9. Steady(t, e)  BY <1>4, <1>8 DEF Steady, u
<1> QED  BY <1>3, <1>9 DEF t

LEMMA SteadyOn ==
  ASSUME NEW p \in Places, NEW q \in Places, NEW b, Goes(p, b, q), NEW r \in RxTypes,
         Steady(r, p)
  PROVE  Steady(RxByte(NoErrors(r), b), q) /\ Clean(RxByte(NoErrors(r), b))
<1> DEFINE t == RxByte(NoErrors(r), b)
           u == NoErrors(t)
<1>1. Follows(t, q)  BY Hears DEF Steady
<1> HIDE DEF t
<1>2. /\ t \in RxTypes /\ InFrame(t, q) /\ t.have = (q.f > 0) /\ t.last = CountBefore(q.f)
      /\ t.bridge = q.sent /\ t.whole = q.whole /\ Clean(t)
      /\ t.snapshot = IF q.f = 0 THEN <<>> ELSE FrameOf(CountBefore(q.f))
  BY <1>1 DEF Follows
<1>3. /\ u \in RxTypes /\ Clean(u) /\ u.state = t.state /\ u.buf = t.buf /\ u.have = t.have
      /\ u.last = t.last /\ u.bridge = t.bridge /\ u.whole = t.whole
      /\ u.snapshot = t.snapshot
  BY <1>2, NoErrorsIs
<1> HIDE DEF u
<1>4. InFrame(u, q)  BY <1>2, <1>3 DEF InFrame
<1>5. u.have = (q.f > 0)  BY <1>2, <1>3, Zenon
<1>6. Follows(u, q)  BY <1>2, <1>3, <1>4, <1>5 DEF Follows
<1>7. q.f > 0
  <2>1. p.f \in Nat /\ p.f > 0  BY PlaceIs DEF Steady
  <2> QED  BY <2>1 DEF Goes, FrameByte, BurstByte
<1>8. Steady(t, q)  BY <1>6, <1>7 DEF Steady, u
<1> QED  BY <1>2, <1>8 DEF t

\* A byte that is neither lost nor changed: the phases follow one another.
LEMMA PhaseOn ==
  ASSUME NEW p \in Places, NEW q \in Places, NEW b, NEW k, NEW l, Moves(p, b, q, k, l),
         NEW r \in RxTypes, InShape(r), NEW n \in Nat, Phase(r, p, k, n),
         NEW m, m = IF n < HealWithin THEN n + 1 ELSE n
  PROVE  \E e \in Places : /\ e.f = q.f /\ e.done = q.done /\ e.sent = q.sent
                           /\ Phase(RxByte(NoErrors(r), b), e, l, m)
<1> DEFINE u == NoErrors(r)
           t == RxByte(u, b)
<1>1. u \in RxTypes /\ u.state = r.state /\ u.buf = r.buf  BY NoErrorsIs
<1>2. InShape(u)
  <2>1. {"state", "buf"} \subseteq DOMAIN u  BY <1>1 DEF RxTypes
  <2> QED  BY <1>1, <2>1 DEF InShape
<1>3. /\ Goes(p, b, q) /\ l \in {"frame", "burst"} /\ k \in {"frame", "burst"}
      /\ k = "frame" => FrameByte(p, b, q)
      /\ k = "burst" => BurstByte(p, b, q)
      /\ q.done # 0 => l = "frame"
  BY DEF Goes, Moves
<1>4. /\ HuntLimit(q, l) \in Nat /\ Frame - 1 <= HuntLimit(q, l) /\ HuntLimit(q, l) < HealWithin
      /\ GatherLimit(q) \in Nat /\ GatherLimit(q) < HealWithin
      /\ HealWithin \in Nat /\ Frame \in Nat /\ n \in Nat
  <2>1. HealWithin \in Nat  BY Numbers, ReceiverAssumption DEF HealWithin, FrameLen
  <2> QED  BY <1>3, <2>1, LimitsAre, Numbers
<1>5. \A h \in Nat : n + 1 <= h /\ h < HealWithin => m <= h /\ m = n + 1
  BY <1>4
<1> HIDE DEF u, t
<1>6. CASE Astray(r, n)
  <2>1. Astray(u, n)  BY <1>1, <1>6 DEF Astray
  <2>2. /\ n + 1 <= Frame - 1
        /\ Astray(t, n + 1) \/ Hunts(t, q) \/ (FrameByte(p, b, q) /\ InFrame(t, q) /\ q.done = 1)
    BY <1>1, <1>2, <1>3, <2>1, AstrayOn DEF t
  <2>3. m = n + 1 /\ m <= HuntLimit(q, l)
    <3>1. n + 1 <= HuntLimit(q, l)  BY <1>4, <2>2
    <3> QED  BY <1>4, <1>5, <3>1
  <2>4. CASE Astray(t, n + 1)  BY <2>3, <2>4 DEF Phase, t, u
  <2>5. CASE Hunts(t, q)  BY <2>3, <2>5 DEF Phase, t, u
  <2>6. CASE InFrame(t, q) /\ q.done = 1
    <3>1. n + 1 <= GatherLimit(q)
      <4>1. Burst \in Nat  BY BridgeAssumption, ReceiverAssumption
      <4> QED  BY <1>4, <2>2, <2>6, <4>1, Numbers DEF GatherLimit
    <3>2. m <= GatherLimit(q)  BY <1>4, <1>5, <3>1
    <3>3. Gathers(t, q, l)
      <4>1. q.done # 0  BY <2>6
      <4> QED  BY <1>3, <2>6, <4>1 DEF Gathers
    <3> QED  BY <3>2, <3>3 DEF Phase, t, u
  <2> QED  BY <2>2, <2>4, <2>5, <2>6
<1>7. CASE Hunts(r, p) /\ n <= HuntLimit(p, k)
  <2>1. Hunts(u, p)  BY <1>1, <1>7 DEF Hunts
  <2>2. CASE k = "burst" \/ p.done # 0
    <3>1. n + 1 <= HuntLimit(q, l)  BY <1>7, <2>2, LimitOn
    <3>2. m <= HuntLimit(q, l)  BY <1>4, <1>5, <3>1
    <3>3. Hunts(t, q)
      <4>1. CASE k = "burst"  BY <1>1, <1>3, <2>1, <4>1, HuntsBurst DEF t
      <4>2. CASE k = "frame" /\ p.done # 0  BY <1>1, <1>3, <2>1, <4>2, HuntsOn DEF t
      <4> QED  BY <1>3, <2>2, <4>1, <4>2
    <3> QED  BY <3>2, <3>3 DEF Phase, t, u
  <2>3. CASE k = "frame" /\ p.done = 0
    <3>1. InFrame(t, q) /\ q.done = 1  BY <1>1, <1>3, <2>1, <2>3, HuntsStart DEF t
    <3>2. n + 1 <= GatherLimit(q)
      <4>1. HuntLimit(p, k) = 2 * Frame - 2 + Burst  BY <2>3 DEF HuntLimit
      <4>2. Burst \in Nat  BY BridgeAssumption, ReceiverAssumption
      <4> QED  BY <1>4, <1>7, <3>1, <4>1, <4>2 DEF GatherLimit
    <3>3. m <= GatherLimit(q)  BY <1>4, <1>5, <3>2
    <3>4. Gathers(t, q, l)
      <4>1. q.done # 0  BY <3>1
      <4> QED  BY <1>3, <3>1, <4>1 DEF Gathers
    <3> QED  BY <3>3, <3>4 DEF Phase, t, u
  <2> QED  BY <1>3, <2>2, <2>3
<1>8. CASE Gathers(r, p, k) /\ n <= GatherLimit(p)
  <2>1. k = "frame" /\ p.done # 0 /\ InFrame(u, p) /\ FrameByte(p, b, q)
    BY <1>1, <1>3, <1>8 DEF Gathers, InFrame
  <2>2. /\ p.done \in 0 .. Frame - 1 /\ Burst \in Nat
        /\ GatherLimit(p) \in Nat /\ GatherLimit(p) + 1 < HealWithin
    BY PlaceIs, LimitsAre, BridgeAssumption, ReceiverAssumption
  <2>3. CASE p.done + 1 < Frame
    <3>1. InFrame(t, q)  BY <1>1, <2>1, <2>3, HuntGoesOn DEF t
    <3>2. q.done = p.done + 1 /\ q.done # 0  BY <1>4, <2>1, <2>2, <2>3 DEF FrameByte
    <3>3. Gathers(t, q, l)  BY <1>3, <3>1, <3>2 DEF Gathers
    <3>4. n + 1 <= GatherLimit(q)  BY <1>4, <1>8, <2>2, <3>2 DEF GatherLimit
    <3>5. m <= GatherLimit(q)  BY <1>4, <1>5, <3>4
    <3> QED  BY <3>3, <3>5 DEF Phase, t, u
  <2>4. CASE p.done + 1 = Frame
    <3>1. PICK e \in Places : /\ e.f = q.f /\ e.done = q.done /\ e.sent = q.sent
                              /\ Steady(t, e)
      BY <1>1, <2>1, <2>4, GathersOn DEF t
    <3>2. m < HealWithin
      <4>1. n + 1 < HealWithin  BY <1>4, <1>8, <2>2
      <4> QED  BY <1>4, <4>1
    <3> QED  BY <3>1, <3>2 DEF Phase, t, u
  <2> QED  BY <2>1, <2>3, <2>4 DEF FrameByte
<1>9. CASE Steady(r, p)
  <2>1. Steady(t, q) /\ Clean(t)  BY <1>3, <1>9, SteadyOn DEF t, u
  <2> QED  BY <2>1 DEF Phase, t, u
<1> QED  BY <1>6, <1>7, <1>8, <1>9 DEF Phase


Sources == [kind : {"frame", "burst"}, sent : Nat, counter : ByteRange]

SourceIs(s) == s \in Sources /\ s.sent < (IF s.kind = "frame" THEN Frame ELSE Burst)

\* Byte b takes the sender from s to t, as Sent does.
SourceByte(s) ==
  IF s.kind = "frame" THEN FrameOf(s.counter)[s.sent + 1] ELSE BridgeByteAt(s.sent)

SourceMoves(s, t) ==
  \/ /\ s.sent + 1 < (IF s.kind = "frame" THEN Frame ELSE Burst)
     /\ t.kind = s.kind /\ t.sent = s.sent + 1 /\ t.counter = s.counter
  \/ /\ s.kind = "burst" /\ s.sent + 1 = Burst
     /\ t.kind = "frame" /\ t.sent = 0 /\ t.counter = s.counter
  \/ /\ s.kind = "frame" /\ s.sent + 1 = Frame
     /\ t.sent = 0 /\ t.counter = (s.counter + 1) % Bytes

LEMMA SentMoves ==
  ASSUME SourceIs(source), Sent
  PROVE  SourceIs(source') /\ SourceMoves(source, source') /\ Byte = SourceByte(source)
<1>1. /\ source \in Sources /\ source.kind \in {"frame", "burst"} /\ source.sent \in Nat
      /\ source.counter \in ByteRange
      /\ source.sent < (IF source.kind = "frame" THEN Frame ELSE Burst)
  BY DEF SourceIs, Sources
<1>2. /\ Length(source.kind) = (IF source.kind = "frame" THEN Frame ELSE Burst)
      /\ Frame \in Nat /\ Burst \in Nat /\ Frame > 0 /\ Burst > 0
  BY Numbers, BridgeAssumption, ReceiverAssumption DEF Length
<1>3. Byte = SourceByte(source)  BY DEF Byte, SourceByte
<1>4. (source.counter + 1) % Bytes \in ByteRange  BY <1>1, Numbers
<1>5. CASE source.sent + 1 < Length(source.kind)
  <2>1. source' = [source EXCEPT !.sent = source.sent + 1]  BY <1>5 DEF Sent
  <2>2. /\ source' \in Sources /\ source'.kind = source.kind
        /\ source'.sent = source.sent + 1 /\ source'.counter = source.counter
    BY <1>1, <2>1 DEF Sources
  <2> QED  BY <1>2, <1>3, <1>5, <2>2 DEF SourceIs, SourceMoves
<1>6. CASE ~(source.sent + 1 < Length(source.kind)) /\ source.kind = "burst"
  <2>1. source' = [source EXCEPT !.kind = "frame", !.sent = 0]  BY <1>6 DEF Sent
  <2>2. /\ source' \in Sources /\ source'.kind = "frame"
        /\ source'.sent = 0 /\ source'.counter = source.counter
    BY <1>1, <2>1 DEF Sources
  <2>3. source.sent + 1 = Burst  BY <1>1, <1>2, <1>6
  <2> QED  BY <1>2, <1>3, <1>6, <2>2, <2>3 DEF SourceIs, SourceMoves
<1>7. CASE ~(source.sent + 1 < Length(source.kind)) /\ source.kind # "burst"
  <2>1. PICK kind \in {"frame", "burst"} :
          source' = [kind |-> kind, sent |-> 0, counter |-> (source.counter + 1) % Bytes]
    BY <1>7 DEF Sent
  <2>2. /\ source' \in Sources /\ source'.sent = 0
        /\ source'.counter = (source.counter + 1) % Bytes
    BY <1>4, <2>1 DEF Sources
  <2>3. source.kind = "frame" /\ source.sent + 1 = Frame  BY <1>1, <1>2, <1>7
  <2> QED  BY <1>2, <1>3, <2>2, <2>3 DEF SourceIs, SourceMoves
<1> QED  BY <1>5, <1>6, <1>7

LEMMA AnyPlace ==
  ASSUME NEW s, SourceIs(s)
  PROVE  \E p \in Places : StandsAt(p, s)
<1> DEFINE d == IF s.kind = "frame" THEN s.sent ELSE 0
           e == IF s.kind = "burst" THEN s.sent ELSE 0
           p == [f |-> s.counter, done |-> d, sent |-> e, whole |-> TRUE]
<1>1. /\ s.kind \in {"frame", "burst"} /\ s.sent \in Nat /\ s.counter \in ByteRange
      /\ s.sent < (IF s.kind = "frame" THEN Frame ELSE Burst)
      /\ Frame \in Nat /\ Burst \in Nat /\ Frame > 0 /\ Burst > 0
  BY Numbers, BridgeAssumption, ReceiverAssumption DEF SourceIs, Sources
<1>2. s.counter \in Nat /\ Count(s.counter) = s.counter
  <2>1. \A B \in Nat \ {0} : \A n \in 0 .. B - 1 : n \in Nat /\ n % B = n  OBVIOUS
  <2> QED  BY <1>1, <2>1, Numbers DEF Count
<1>3. d \in 0 .. Frame - 1 /\ e \in 0 .. Burst - 1  BY <1>1
<1>4. p.f = s.counter /\ p.done = d /\ p.sent = e /\ p \in Places
  <2> HIDE DEF d, e
  <2> QED  BY <1>2, <1>3 DEF Places
<1> HIDE DEF p
<1>5. StandsAt(p, s)  BY <1>2, <1>4 DEF StandsAt
<1> QED  BY <1>4, <1>5

LEMMA PlaceMoves ==
  ASSUME NEW s, NEW t, SourceIs(s), SourceIs(t), SourceMoves(s, t), NEW p, StandsAt(p, s)
  PROVE  \E q \in Places : StandsAt(q, t) /\ Moves(p, SourceByte(s), q, s.kind, t.kind)
<1>1. /\ s.kind \in {"frame", "burst"} /\ t.kind \in {"frame", "burst"}
      /\ s.sent \in Nat /\ s.sent < (IF s.kind = "frame" THEN Frame ELSE Burst)
      /\ Frame \in Nat /\ Burst \in Nat /\ Frame > 0 /\ Burst > 0
  BY Numbers, BridgeAssumption, ReceiverAssumption DEF SourceIs, Sources
<1>2. /\ p \in Places /\ Count(p.f) = s.counter
      /\ p.done = (IF s.kind = "frame" THEN s.sent ELSE 0)
      /\ p.sent = (IF s.kind = "burst" THEN s.sent ELSE 0)
  BY DEF StandsAt
<1>3. /\ p.f \in Nat /\ p.done \in 0 .. Frame - 1 /\ p.sent \in 0 .. Burst - 1
      /\ p.whole \in BOOLEAN
  BY <1>2, PlaceIs
<1>4. ASSUME NEW q \in Places, Count(q.f) = t.counter,
             q.done = (IF t.kind = "frame" THEN t.sent ELSE 0),
             q.sent = (IF t.kind = "burst" THEN t.sent ELSE 0),
             s.kind = "frame" => FrameByte(p, SourceByte(s), q),
             s.kind = "burst" => BurstByte(p, SourceByte(s), q),
             s.kind = "burst" /\ t.kind = "burst" => t.sent # 0
      PROVE  \E x \in Places : StandsAt(x, t) /\ Moves(p, SourceByte(s), x, s.kind, t.kind)
  <2>1. StandsAt(q, t)  BY <1>4 DEF StandsAt
  <2>2. Moves(p, SourceByte(s), q, s.kind, t.kind)  BY <1>1, <1>4 DEF Moves
  <2> QED  BY <2>1, <2>2
<1>5. CASE s.kind = "frame" /\ s.sent + 1 < Frame
  <2> DEFINE q == [p EXCEPT !.done = @ + 1]
  <2>1. t.kind = "frame" /\ t.sent = s.sent + 1 /\ t.counter = s.counter
    BY <1>1, <1>5 DEF SourceMoves
  <2>2. /\ q \in Places /\ q.f = p.f /\ q.done = p.done + 1 /\ q.sent = p.sent
        /\ q.whole = p.whole
    BY <1>1, <1>2, <1>3, <1>5 DEF Places
  <2> HIDE DEF q
  <2>3. FrameByte(p, SourceByte(s), q)  BY <1>2, <1>5, <2>2 DEF FrameByte, SourceByte
  <2> QED  BY <1>2, <1>4, <1>5, <2>1, <2>2, <2>3
<1>6. CASE s.kind = "frame" /\ s.sent + 1 = Frame
  <2> DEFINE q == [f |-> p.f + 1, done |-> 0, sent |-> p.sent, whole |-> p.whole]
  <2>1. t.sent = 0 /\ t.counter = (s.counter + 1) % Bytes
    BY <1>1, <1>6 DEF SourceMoves
  <2>2. /\ q \in Places /\ q.f = p.f + 1 /\ q.done = 0 /\ q.sent = p.sent
        /\ q.whole = p.whole
    <3>1. p.f + 1 \in Nat /\ 0 \in 0 .. Frame - 1  BY <1>1, <1>3
    <3> QED  BY <1>3, <3>1 DEF Places
  <2> HIDE DEF q
  <2>3. FrameByte(p, SourceByte(s), q)  BY <1>2, <1>6, <2>2 DEF FrameByte, SourceByte
  <2>4. Count(q.f) = t.counter
    <3>1. q.f \in Nat /\ q.f > 0 /\ q.f # 0 /\ q.f - 1 = p.f  BY <1>3, <2>2
    <3>2. Count(q.f) = (CountBefore(q.f) + 1) % Bytes  BY <3>1, CountsOn
    <3>3. CountBefore(q.f) = Count(p.f)  BY <3>1 DEF CountBefore, Count
    <3> QED  BY <1>2, <2>1, <3>2, <3>3
  <2> QED  BY <1>1, <1>2, <1>4, <1>6, <2>1, <2>2, <2>3, <2>4
<1>7. CASE s.kind = "burst" /\ s.sent + 1 < Burst
  <2> DEFINE q == [p EXCEPT !.sent = @ + 1]
  <2>1. t.kind = "burst" /\ t.sent = s.sent + 1 /\ t.counter = s.counter
    BY <1>1, <1>7 DEF SourceMoves
  <2>2. /\ q \in Places /\ q.f = p.f /\ q.done = p.done /\ q.sent = p.sent + 1
        /\ q.whole = p.whole
    BY <1>1, <1>2, <1>3, <1>7 DEF Places
  <2> HIDE DEF q
  <2>3. BurstByte(p, SourceByte(s), q)  BY <1>2, <1>7, <2>2 DEF BurstByte, SourceByte
  <2> QED  BY <1>1, <1>2, <1>4, <1>7, <2>1, <2>2, <2>3
<1>8. CASE s.kind = "burst" /\ s.sent + 1 = Burst
  <2> DEFINE w == ~p.whole
             q == [f |-> p.f, done |-> p.done, sent |-> 0, whole |-> w]
  <2>1. t.kind = "frame" /\ t.sent = 0 /\ t.counter = s.counter
    BY <1>1, <1>8 DEF SourceMoves
  <2>2. /\ q \in Places /\ q.f = p.f /\ q.done = p.done /\ q.sent = 0
        /\ q.whole = w
    <3>1. 0 \in 0 .. Burst - 1 /\ w \in BOOLEAN  BY <1>1, <1>3
    <3> HIDE DEF w
    <3> QED  BY <1>3, <3>1 DEF Places
  <2> HIDE DEF q
  <2>3. BurstByte(p, SourceByte(s), q)  BY <1>2, <1>8, <2>2 DEF BurstByte, SourceByte
  <2> QED  BY <1>2, <1>4, <1>8, <2>1, <2>2, <2>3
<1> QED  BY <1>1, <1>5, <1>6, <1>7, <1>8


\* A fault: whatever the verifier was in, it is astray or hunts.
LEMMA PhaseAnew ==
  ASSUME NEW r \in RxTypes, InShape(r), NEW p \in Places, NEW k \in {"frame", "burst"}
  PROVE  Phase(r, p, k, 0)
<1>1. CASE r.state = "sync0"
  <2>1. r.buf \in Seq(ByteRange) /\ Len(r.buf) = 0  BY <1>1 DEF InShape
  <2>2. r.buf = <<>>  BY <2>1
  <2>3. 0 <= HuntLimit(p, k)
    <3>1. HuntLimit(p, k) \in Nat  BY LimitsAre
    <3> QED  BY <3>1
  <2> QED  BY <1>1, <2>2, <2>3 DEF Phase, Hunts
<1>2. CASE r.state # "sync0"
  <2>1. Len(r.buf) = 1 \/ Len(r.buf) \in 2 .. FrameLen - 1  BY <1>2 DEF InShape
  <2>2. \A n : n = 1 \/ n \in 2 .. FrameLen - 1 => 0 <= n - 1
    BY Numbers DEF FrameLen
  <2> QED  BY <1>2, <2>1, <2>2 DEF Phase, Astray
<1> QED  BY <1>1, <1>2

PhaseIs(r, s, n) == \E p : StandsAt(p, s) /\ Phase(r, p, s.kind, n)

NoisyInv ==
  /\ SourceIs(source) /\ verifier \in RxTypes /\ InShape(verifier) /\ since \in Nat
  /\ PhaseIs(verifier, source, since)

LEMMA NoisyStarts == NoisyInit => NoisyInv
<1> SUFFICES ASSUME NoisyInit PROVE NoisyInv  OBVIOUS
<1>1. verifier = RxInit /\ since = 0 /\ source = [kind |-> "frame", sent |-> 0, counter |-> 0]
  BY DEF NoisyInit
<1>2. SourceIs(source)
  <2>1. 0 \in ByteRange /\ 0 < Frame  BY Numbers
  <2> QED  BY <1>1, <2>1 DEF SourceIs, Sources
<1>3. RxInit \in RxTypes
  <2>1. <<>> \in Seq(ByteRange)  OBVIOUS
  <2> QED  BY <2>1 DEF RxTypes, RxInit
<1>4. PICK p \in Places : StandsAt(p, source)  BY <1>2, AnyPlace
<1>5. source.kind \in {"frame", "burst"}  BY <1>1
<1>6. Phase(verifier, p, source.kind, since)  BY <1>1, <1>3, <1>5, StartsInShape, PhaseAnew
<1> QED  BY <1>1, <1>2, <1>3, <1>4, <1>6, StartsInShape DEF NoisyInv, PhaseIs

\* What is left after a fault, if the sender is anywhere.
LEMMA FaultLeaves ==
  ASSUME NEW r \in RxTypes, InShape(r), NEW s, SourceIs(s)
  PROVE  PhaseIs(r, s, 0)
<1>1. PICK p \in Places : StandsAt(p, s)  BY AnyPlace
<1>2. s.kind \in {"frame", "burst"}  BY DEF SourceIs, Sources
<1>3. Phase(r, p, s.kind, 0)  BY <1>2, PhaseAnew
<1> QED  BY <1>1, <1>3 DEF PhaseIs

LEMMA HearsBytes ==
  ASSUME NEW r \in RxTypes, InShape(r), NEW b \in ByteRange
  PROVE  RxByte(NoErrors(r), b) \in RxTypes /\ InShape(RxByte(NoErrors(r), b))
<1> DEFINE u == NoErrors(r)
<1>1. u \in RxTypes /\ u.state = r.state /\ u.buf = r.buf  BY NoErrorsIs
<1> HIDE DEF u
<1>2. {"state", "buf"} \subseteq DOMAIN u  BY <1>1 DEF RxTypes
<1>3. InShape(u)  BY <1>1, <1>2 DEF InShape
<1> QED  BY <1>1, <1>3, ByteKeepsTypes, ByteKeepsShape DEF u

LEMMA NoisyGood == NoisyInv /\ Good => NoisyInv'
<1> SUFFICES ASSUME NoisyInv, Good PROVE NoisyInv'  OBVIOUS
<1>1. /\ Sent /\ verifier' = RxByte(NoErrors(verifier), Byte)
      /\ since' = IF since < HealWithin THEN since + 1 ELSE since
  BY DEF Good, Hear
<1>2. SourceIs(source) /\ verifier \in RxTypes /\ InShape(verifier) /\ since \in Nat
  BY DEF NoisyInv
<1>3. PICK p : StandsAt(p, source) /\ Phase(verifier, p, source.kind, since)
  BY DEF NoisyInv, PhaseIs
<1>4. /\ SourceIs(source') /\ SourceMoves(source, source') /\ Byte = SourceByte(source)
  BY <1>1, <1>2, SentMoves
<1>5. p \in Places  BY <1>3 DEF StandsAt
<1>6. PICK q \in Places : /\ StandsAt(q, source')
                          /\ Moves(p, SourceByte(source), q, source.kind, source'.kind)
  BY <1>2, <1>3, <1>4, PlaceMoves
<1>7. PICK e \in Places : /\ e.f = q.f /\ e.done = q.done /\ e.sent = q.sent
                          /\ Phase(verifier', e, source'.kind, since')
  <2>1. Moves(p, Byte, q, source.kind, source'.kind)  BY <1>4, <1>6
  <2>2. \E e \in Places : /\ e.f = q.f /\ e.done = q.done /\ e.sent = q.sent
                          /\ Phase(RxByte(NoErrors(verifier), Byte), e, source'.kind, since')
    BY <1>1, <1>2, <1>3, <1>5, <2>1, PhaseOn
  <2> QED  BY <1>1, <2>2
<1>8. StandsAt(e, source')  BY <1>6, <1>7 DEF StandsAt
<1>9. PhaseIs(verifier', source', since')  BY <1>7, <1>8 DEF PhaseIs
<1>10. Byte \in ByteRange
  <2>1. Goes(p, SourceByte(source), q)
    BY <1>6 DEF Moves, Goes
  <2> QED  BY <1>4, <1>5, <2>1, GoesByte
<1>11. verifier' \in RxTypes /\ InShape(verifier')  BY <1>1, <1>2, <1>10, HearsBytes
<1>12. since' \in Nat  BY <1>1, <1>2
<1> QED  BY <1>4, <1>9, <1>11, <1>12 DEF NoisyInv

LEMMA NoisyFault == NoisyInv /\ (Lose \/ Outage \/ Change) => NoisyInv'
<1> SUFFICES ASSUME NoisyInv, Lose \/ Outage \/ Change PROVE NoisyInv'  OBVIOUS
<1>1. SourceIs(source) /\ verifier \in RxTypes /\ InShape(verifier)  BY DEF NoisyInv
<1>2. since' = 0  BY DEF Lose, Outage, Change, Fault
<1>3. SourceIs(source')
  <2>1. CASE Lose \/ Change  BY <1>1, <2>1, SentMoves DEF Lose, Change
  <2>2. CASE Outage
    <3>1. PICK kind \in {"frame", "burst"}, counter0 \in ByteRange :
            \E sent0 \in 0 .. Length(kind) - 1 :
              source' = [kind |-> kind, sent |-> sent0, counter |-> counter0]
      BY <2>2 DEF Outage
    <3>2. PICK sent0 \in 0 .. Length(kind) - 1 :
            source' = [kind |-> kind, sent |-> sent0, counter |-> counter0]
      BY <3>1
    <3>3. /\ Length(kind) = (IF kind = "frame" THEN Frame ELSE Burst)
          /\ Frame \in Nat /\ Burst \in Nat
      BY Numbers, BridgeAssumption, ReceiverAssumption DEF Length
    <3>4. sent0 \in Nat /\ sent0 < (IF kind = "frame" THEN Frame ELSE Burst)  BY <3>3
    <3>5. source' \in Sources /\ source'.kind = kind /\ source'.sent = sent0
      BY <3>2, <3>4 DEF Sources
    <3> QED  BY <3>4, <3>5 DEF SourceIs
  <2> QED  BY <2>1, <2>2
<1>4. verifier' \in RxTypes /\ InShape(verifier')
  <2>1. CASE Lose \/ Outage
    <3>1. verifier' = verifier  BY <2>1 DEF Lose, Outage
    <3> QED  BY <1>1, <3>1
  <2>2. CASE Change
    <3>1. PICK b \in ByteRange : verifier' = RxByte(NoErrors(verifier), b)
      BY <2>2 DEF Change, Hear
    <3> QED  BY <1>1, <3>1, HearsBytes
  <2> QED  BY <2>1, <2>2
<1>5. PhaseIs(verifier', source', since')  BY <1>2, <1>3, <1>4, FaultLeaves
<1> QED  BY <1>2, <1>3, <1>4, <1>5 DEF NoisyInv

LEMMA NoisyHolds == NoisySpec => []NoisyInv
<1>1. NoisyInv /\ UNCHANGED noisyVars => NoisyInv'
  BY DEF NoisyInv, noisyVars
<1>2. NoisyInv /\ [NoisyNext]_noisyVars => NoisyInv'
  BY <1>1, NoisyGood, NoisyFault DEF NoisyNext
<1> QED  BY <1>2, NoisyStarts, PTL DEF NoisySpec

LEMMA CountBack ==
  ASSUME NEW f \in Nat, f > 0
  PROVE  CountBefore(f) = (Count(f) - 1) % Bytes
<1> DEFINE d == CountBefore(f)
<1>1. Count(f) = (d + 1) % Bytes  BY CountsOn
<1>2. d \in 0 .. Bytes - 1 /\ Bytes \in Nat \ {0}
  <2>1. f - 1 \in Nat /\ f # 0  OBVIOUS
  <2> QED  BY <2>1, Numbers DEF CountBefore
<1> HIDE DEF d
<1>3. CASE d + 1 < Bytes
  <2>1. (d + 1) % Bytes = d + 1 /\ d % Bytes = d  BY <1>2, <1>3
  <2>2. (d + 1) - 1 = d  BY <1>2
  <2> QED  BY <1>1, <2>1, <2>2 DEF d
<1>4. CASE d + 1 = Bytes
  <2>1. (d + 1) % Bytes = 0  BY <1>2, <1>4
  <2>2. (0 - 1) % Bytes = Bytes - 1  BY <1>2
  <2> QED  BY <1>1, <1>2, <1>4, <2>1, <2>2 DEF d
<1> QED  BY <1>2, <1>3, <1>4

\* The verifier finds its way back: whatever bytes are lost or changed, and
\* wherever the sender goes on, after a burst and three frames without a fault
\* it is in step with it (frame_rx_byte, bridge_byte, check_frame).
THEOREM VerifierHeals == NoisySpec => []Heals
<1>1. NoisyInv => Heals
  <2> SUFFICES ASSUME NoisyInv, since >= HealWithin PROVE InStep
    BY DEF Heals
  <2>1. SourceIs(source) /\ verifier \in RxTypes /\ InShape(verifier) /\ since \in Nat
    BY DEF NoisyInv
  <2>2. PICK p : StandsAt(p, source) /\ Phase(verifier, p, source.kind, since)
    BY DEF NoisyInv, PhaseIs
  <2>3. /\ p \in Places /\ Count(p.f) = source.counter
        /\ source.kind = "burst" => p.sent = source.sent /\ p.done = 0
    BY <2>2 DEF StandsAt
  <2>4. source.kind \in {"frame", "burst"}  BY <2>1 DEF SourceIs, Sources
  <2>5. /\ HealWithin \in Nat /\ Frame \in Nat /\ Frame - 1 < HealWithin
        /\ HuntLimit(p, source.kind) \in Nat /\ HuntLimit(p, source.kind) < HealWithin
        /\ GatherLimit(p) \in Nat /\ GatherLimit(p) < HealWithin
    <3>1. HealWithin \in Nat  BY Numbers, ReceiverAssumption DEF HealWithin, FrameLen
    <3> QED  BY <2>3, <2>4, <3>1, LimitsAre, Numbers
  <2>6. ~Astray(verifier, since)
    <3>1. Len(verifier.buf) \in Nat /\ Len(verifier.buf) < Frame
      BY <2>1, ShapeIs, BridgeAssumption
    <3> QED  BY <2>1, <2>5, <3>1 DEF Astray
  <2>7. ~(since <= HuntLimit(p, source.kind)) /\ ~(since <= GatherLimit(p)) /\ ~(since < HealWithin)
    BY <2>1, <2>5
  <2>8. Steady(verifier, p) /\ Clean(verifier)  BY <2>2, <2>6, <2>7 DEF Phase
  <2> DEFINE u == NoErrors(verifier)
  <2>9. /\ u.state = verifier.state /\ u.have = verifier.have /\ u.last = verifier.last
        /\ u.bridge = verifier.bridge
    BY <2>1, NoErrorsIs
  <2>10. /\ p.f > 0 /\ u.have = (p.f > 0) /\ u.last = CountBefore(p.f) /\ u.bridge = p.sent
         /\ InFrame(u, p)
    BY <2>8 DEF Steady, Follows
  <2> HIDE DEF u
  <2>11. verifier.have  BY <2>9, <2>10
  <2>12. verifier.last = (source.counter - 1) % Bytes
    <3>1. p.f \in Nat  BY <2>3, PlaceIs
    <3> QED  BY <2>3, <2>9, <2>10, <3>1, CountBack
  <2>13. source.kind = "burst" => verifier.bridge = source.sent /\ verifier.state = "sync0"
    BY <2>3, <2>9, <2>10 DEF InFrame
  <2> QED  BY <2>8, <2>11, <2>12, <2>13 DEF InStep
<1> QED  BY <1>1, NoisyHolds, PTL

================================================================================
