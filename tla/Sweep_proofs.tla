----------------------------- MODULE Sweep_proofs ------------------------------
(***************************************************************************)
(* The sweep gives back what it took, ends a point on its budget, stops    *)
(* when told to, keeps the worst case telemetry has not seen and reports   *)
(* each point once, for any number of points and any budgets.              *)
(*                                                                         *)
(* What the port has set up depends on the delay the sweep task is in:     *)
(* Normal before and after, Quiet while nothing drives the line, Listening *)
(* at a UART point and Driven at a synthetic one.  Each operation of the   *)
(* port takes one of these to another, which is a lemma each; the steps    *)
(* follow from the lemmas.  That no row is dropped rests on how long       *)
(* points last (PaceAssumption).                                           *)
(***************************************************************************)
EXTENDS Sweep, SequenceTheorems, TLAPS

Still(h) ==
  /\ h \in Hw
  /\ ~h.ticks
  /\ ~h.synth /\ ~h.slice /\ h.firings = 0 /\ h.wrap0 = "byteTick"

Quiet(h) == Still(h) /\ ~h.tx /\ ~h.limited /\ h.budget = 0

Listening(h) ==
  /\ Still(h)
  /\ h.limited => h.budget > 0
  /\ h.tx /\ h.irq => h.limited

Driven(h) ==
  /\ h \in Hw
  /\ ~h.ticks /\ ~h.tx /\ ~h.limited /\ h.budget = 0
  /\ h.synth /\ h.wrap0 = "synth"
  /\ h.slice => h.firings > 0

HwInv ==
  /\ pc \in {"idle", "calm"} => hw = Normal
  /\ pc \in {"settle", "base"} => Quiet(hw)
  /\ pc = "uart" => Listening(hw)
  /\ pc = "synth" => Driven(hw)

IInv == TypeOK /\ HwInv

(***************************************************************************)
(* The points.                                                             *)
(***************************************************************************)
\* Counting through the baud rates once per mode.
LEMMA DivMod ==
  ASSUME NEW i \in Nat, NEW b \in Nat \ {0}, i < 3 * b
  PROVE  i \div b \in {0, 1, 2} /\ i % b \in 0 .. b - 1
<1>1. i % b \in 0 .. b - 1  BY SMT
<1>2. i \div b \in Int /\ i = b * (i \div b) + (i % b)  BY SMT
<1>3. i \div b >= 0  BY <1>1, <1>2, SMT
<1>4. i \div b < 3  BY <1>1, <1>2, SMT
<1> QED  BY <1>1, <1>2, <1>3, <1>4

\* The three receive modes.
LEMMA ModesAre == ToSet(Modes) = {"byte", "fifo", "dma"} /\ Len(Modes) = 3
BY DEF Modes, ToSet

\* Every point is one the port can be set up for.
LEMMA PointType ==
  ASSUME NEW k \in Kinds, NEW i \in 0 .. Total[k] - 1
  PROVE  /\ PointOf(k, i).source \in {"uart", "base", "synth"}
         /\ PointOf(k, i).source = "uart" =>
              /\ PointOf(k, i).mode \in ToSet(Modes)
              /\ PointOf(k, i).rate \in 0 .. Bauds
<1>1. CASE k # "handler" /\ i < UartPoints
  <2>1. PointOf(k, i) = UartPoint(i)  BY <1>1 DEF PointOf
  <2>2. i \in Nat /\ i < 3 * Bauds /\ Bauds \in Nat \ {0}
    BY <1>1, ModesAre, SweepAssumption DEF UartPoints
  <2>3. i \div Bauds \in {0, 1, 2} /\ i % Bauds \in 0 .. Bauds - 1
    BY <2>2, DivMod
  <2>4. Modes[(i \div Bauds) + 1] \in ToSet(Modes)  BY <2>3, ModesAre DEF Modes
  <2>5. (i % Bauds) + 1 \in 0 .. Bauds  BY <2>2, <2>3
  <2> QED  BY <2>1, <2>4, <2>5 DEF UartPoint
<1>2. CASE ~(k # "handler" /\ i < UartPoints)
  <2>1. \E n : PointOf(k, i) = HandlerPoint(n)  BY <1>2 DEF PointOf
  <2> QED  BY <2>1 DEF HandlerPoint
<1> QED  BY <1>1, <1>2

\* A sweep has at least one point.
LEMMA TotalType == ASSUME NEW k \in Kinds PROVE Total[k] \in Nat \ {0}
BY SweepAssumption, ModesAre DEF Total, Kinds, UartPoints
(***************************************************************************)
(* The operations of the port.                                             *)
(***************************************************************************)
\* The three states of the port, and what leads from one to the other.
LEMMA NormalType == Normal \in Hw
BY ModesAre, SweepAssumption DEF Normal, Hw

\* Pausing the engine leaves nothing on the line.
LEMMA PauseQuiet == Quiet(Pause(Normal))
BY NormalType DEF Quiet, Still, Pause, Normal, Hw

\* Operations that keep a quiet port quiet.
LEMMA TxStopQuiet == ASSUME NEW h, Quiet(h) PROVE Quiet(TxStop(h))
BY DEF Quiet, Still, TxStop, Hw

LEMMA RxModeQuiet ==
  ASSUME NEW h, Quiet(h), NEW m \in ToSet(Modes)
  PROVE  Quiet(SetRxMode(h, m))
BY DEF Quiet, Still, SetRxMode, Hw

LEMMA BaudQuiet ==
  ASSUME NEW h, Quiet(h), NEW b \in 0 .. Bauds
  PROVE  Quiet(SetBaud(h, b))
<1>1. Quiet([h EXCEPT !.baud = b]) /\ h.mode \in ToSet(Modes)
  BY DEF Quiet, Still, Hw
<1> QED  BY <1>1, RxModeQuiet DEF SetBaud

LEMMA NoBudgetQuiet == ASSUME NEW h, Quiet(h) PROVE Quiet(RxBudget(h, 0))
BY DEF Quiet, Still, RxBudget, Hw

\* The start of a UART point: nothing is sent yet.
LEMMA PrepareQuiet ==
  ASSUME NEW h, Quiet(h), NEW p, p.mode \in ToSet(Modes), p.rate \in 0 .. Bauds
  PROVE  Quiet(Prepare(h, p))
BY TxStopQuiet, BaudQuiet, RxModeQuiet, NoBudgetQuiet DEF Prepare

\* The end of a UART point.
LEMMA CloseQuiet ==
  ASSUME NEW h, Listening(h)
  PROVE  Quiet(SetRxMode(RxBudget(TxStop(h), 0), h.mode))
<1>1. Quiet(RxBudget(TxStop(h), 0)) /\ h.mode \in ToSet(Modes)
  BY DEF Quiet, Listening, Still, RxBudget, TxStop, Hw
<1> QED  BY <1>1, RxModeQuiet

\* The start of one.
LEMMA OpenListening ==
  ASSUME NEW h, Quiet(h)
  PROVE  Listening(TxStart(RxBudget(h, ByteBudget)))
<1>1. ByteBudget \in Nat /\ ByteBudget # 0 /\ ByteBudget > 0
  BY SweepAssumption
<1>2. RxBudget(h, ByteBudget) \in Hw
  BY <1>1 DEF Quiet, Still, RxBudget, Hw
<1>3. TxStart(RxBudget(h, ByteBudget)) \in Hw
  BY <1>2 DEF TxStart, Hw
<1> QED  BY <1>1, <1>3 DEF Quiet, Listening, Still, RxBudget, TxStart, Hw

\* The synthetic load gives the interrupt back.
LEMMA SynthStopQuiet ==
  ASSUME NEW h, Driven(h) PROVE Quiet(SynthStop(h))
BY DEF Driven, Quiet, Still, SynthStop, SetHandler, RemoveHandler, Hw

\* Stopping it twice does nothing.
LEMMA SynthStopIdle ==
  ASSUME NEW h, Quiet(h) PROVE SynthStop(h) = h
BY DEF Quiet, Still, SynthStop

\* It takes the interrupt from the byte tick.
LEMMA SynthStartDriven ==
  ASSUME NEW h, Quiet(h) PROVE Driven(SynthStart(h, SynthBudget))
<1>1. SynthBudget \in Nat /\ SynthBudget > 0  BY SweepAssumption
<1>2. SynthStart(h, SynthBudget) =
        [h EXCEPT !.firings = SynthBudget, !.slice = TRUE, !.synth = TRUE,
                  !.wrap0 = "synth"]
  BY SynthStopIdle
  DEF Quiet, Still, SynthStart, SetHandler, RemoveHandler, Hw
<1> QED  BY <1>1, <1>2 DEF Driven, Quiet, Still, Hw

\* However the port was left, as long as nothing drives the line, handing it
\* back makes it what it was before the sweep.
LEMMA HandBackNormal ==
  ASSUME NEW h, Quiet(h) PROVE HandBack(h) = Normal
<1>1. Quiet(SetBaud(TxStop(SynthStop(h)), 0))
  BY SynthStopIdle, TxStopQuiet, BaudQuiet, SweepAssumption
<1>2. SetBaud(TxStop(SynthStop(h)), 0).baud = 0
  BY SynthStopIdle DEF SetBaud, SetRxMode, TxStop, Quiet, Still, Hw
<1> DEFINE g == SetBaud(TxStop(SynthStop(h)), 0)
<1>3. \A x : Quiet(x) /\ x.baud = 0 => Resume(SetRxMode(x, "byte")) = Normal
  <2> SUFFICES ASSUME NEW x, Quiet(x), x.baud = 0
               PROVE  Resume(SetRxMode(x, "byte")) = Normal
    OBVIOUS
  <2> DEFINE y == Resume(SetRxMode(x, "byte"))
  <2>1. y \in Hw  BY ModesAre DEF Quiet, Still, Resume, SetRxMode, Hw
  <2>2. /\ y.ticks /\ ~y.paused /\ y.baud = 0 /\ y.mode = "byte" /\ y.irq
        /\ ~y.limited /\ y.budget = 0 /\ ~y.tx /\ y.wrap0 = "byteTick"
        /\ ~y.slice /\ ~y.synth /\ y.firings = 0
    BY DEF Quiet, Still, Resume, SetRxMode, Hw
  <2> HIDE DEF y
  <2>3. y = Normal  BY <2>1, <2>2 DEF Normal, Hw
  <2> QED  BY <2>3 DEF y
<1> QED  BY <1>1, <1>2, <1>3 DEF HandBack

\* The interrupt leaves no stimulus without a limit when it counts down,
LEMMA CountDownListening ==
  ASSUME NEW h, Listening(h) PROVE Listening(CountDown(h))
<1>1. CASE ~h.limited  BY <1>1 DEF CountDown
<1>2. CASE h.limited /\ Spent(h)
  BY <1>2 DEF Listening, Still, CountDown, Hw
<1>3. CASE h.limited /\ ~Spent(h)
  <2>1. CountDown(h) = [h EXCEPT !.budget = h.budget - 1]
    BY <1>3 DEF CountDown
  <2>2. h \in Hw  BY DEF Listening, Still
  <2>3. h.budget \in Nat  BY <2>2 DEF Hw
  <2>4. h.budget - 1 \in Nat /\ h.budget - 1 > 0
    BY <1>3, <2>3 DEF Spent
  <2> DEFINE n == h.budget - 1
  <2> HIDE DEF n
  <2>5. n \in Nat /\ n > 0 => Listening([h EXCEPT !.budget = n])
    BY <1>3 DEF Listening, Still, Hw
  <2> QED  BY <2>1, <2>4, <2>5 DEF n
<1> QED  BY <1>1, <1>2, <1>3

\* and does not touch the normal set-up.
LEMMA CountDownNormal == CountDown(Normal) = Normal
BY DEF CountDown, Normal

(***************************************************************************)
(* The sweep task.                                                         *)
(***************************************************************************)
\* Each of the three is a state of the port.
LEMMA QuietType ==
  ASSUME NEW h
  PROVE  /\ Quiet(h) => h \in Hw
         /\ Listening(h) => h \in Hw
         /\ Driven(h) => h \in Hw
BY DEF Quiet, Listening, Driven, Still

\* The part of TypeOK that StartPoint and Proceed decide.
PointTyped ==
  /\ hw \in Hw
  /\ kind \in Kinds /\ point \in 0 .. Total[kind] - 1
  /\ pc \in {"idle", "settle", "uart", "base", "synth", "calm"}
  /\ left \in Nat
  /\ hist \in Nat \cup {-1}
  /\ heard \in 0 .. ByteBudget /\ reached \in BOOLEAN

\* Starting a point from a quiet port.
LEMMA StartPointInv ==
  ASSUME TypeOK, NEW h, Quiet(h), NEW k \in Kinds, NEW i \in 0 .. Total[k] - 1,
         StartPoint(h, k, i)
  PROVE  PointTyped' /\ HwInv'
<1> DEFINE p == PointOf(k, i)
<1>1. p.source \in {"uart", "base", "synth"}  BY PointType
<1>2. i \in Nat  BY TotalType
<1>3. /\ kind' = k /\ point' = i /\ heard' = 0 /\ reached' = FALSE
      /\ heard' \in 0 .. ByteBudget
      /\ left' \in Nat /\ hist' \in Nat \cup {-1}
  BY <1>2, SweepAssumption DEF StartPoint, TypeOK
<1>4. CASE p.source = "uart"
  <2>1. p.mode \in ToSet(Modes) /\ p.rate \in 0 .. Bauds  BY <1>4, PointType
  <2>2. hw' = Prepare(h, p) /\ pc' = "settle"  BY <1>4 DEF StartPoint
  <2>3. Quiet(hw')  BY <2>1, <2>2, PrepareQuiet
  <2> QED  BY <1>3, <2>2, <2>3, QuietType DEF PointTyped, HwInv
<1>5. CASE p.source = "base"
  <2>1. hw' = TxStop(h) /\ pc' = "base"  BY <1>5 DEF StartPoint
  <2>2. Quiet(hw')  BY <2>1, TxStopQuiet
  <2> QED  BY <1>3, <2>1, <2>2, QuietType DEF PointTyped, HwInv
<1>6. CASE p.source = "synth"
  <2>1. hw' = SynthStart(h, SynthBudget) /\ pc' = "synth"
    BY <1>6 DEF StartPoint
  <2>2. Driven(hw')  BY <2>1, SynthStartDriven
  <2> QED  BY <1>3, <2>1, <2>2, QuietType DEF PointTyped, HwInv
<1> QED  BY <1>1, <1>4, <1>5, <1>6

\* Going on, or giving the line back.
LEMMA ProceedInv ==
  ASSUME TypeOK, NEW h, Quiet(h), Proceed(h)
  PROVE  PointTyped' /\ HwInv'
<1>1. CASE ~abort /\ point + 1 < Total[kind]
  <2>1. StartPoint(h, kind, point + 1)  BY <1>1 DEF Proceed
  <2>2. kind \in Kinds /\ Total[kind] \in Nat /\ point \in 0 .. Total[kind] - 1
    BY TotalType DEF TypeOK
  <2>3. point + 1 \in 0 .. Total[kind] - 1  BY <1>1, <2>2
  <2> QED  BY <2>1, <2>2, <2>3, StartPointInv
<1>2. CASE ~(~abort /\ point + 1 < Total[kind])
  <2>1. /\ hw' = HandBack(h) /\ pc' = "calm" /\ left' = CalmPackets
        /\ UNCHANGED <<kind, point, hist, heard, reached>>
    BY <1>2 DEF Proceed
  <2>2. hw' = Normal  BY <2>1, HandBackNormal
  <2> QED  BY <2>1, <2>2, NormalType, SweepAssumption
    DEF PointTyped, HwInv, TypeOK
<1> QED  BY <1>1, <1>2

\* The queue holds rows, and no more than it can.
LEMMA PublishTyped ==
  ASSUME TypeOK, Publish
  PROVE  rows' \in Seq([index : Nat, peak : BOOLEAN]) /\ Len(rows') <= RowQueue
<1>1. rows \in Seq([index : Nat, peak : BOOLEAN]) /\ Len(rows) <= RowQueue
      /\ point \in Nat /\ peak \in BOOLEAN /\ RowQueue \in Nat
  BY TotalType, SweepAssumption DEF TypeOK
<1> DEFINE row == [index |-> point, peak |-> peak]
<1>2. row \in [index : Nat, peak : BOOLEAN]  BY <1>1
<1>3. CASE Len(rows) >= RowQueue  BY <1>1, <1>3 DEF Publish
<1>4. CASE ~(Len(rows) >= RowQueue)
  <2>1. rows' = Append(rows, row)  BY <1>4 DEF Publish
  <2> HIDE DEF row
  <2> QED  BY <1>1, <1>2, <1>4, <2>1
<1> QED  BY <1>3, <1>4

(***************************************************************************)
(* The steps.                                                              *)
(***************************************************************************)
\* The invariant holds at the start,
LEMMA InitInv == Init => IInv
<1> SUFFICES ASSUME Init PROVE TypeOK /\ HwInv  BY DEF IInv
<1>1. "uart" \in Kinds /\ Total["uart"] \in Nat \ {0}
  BY TotalType DEF Kinds
<1>2. hw \in Hw  BY NormalType DEF Init
<1>3. kind \in Kinds /\ point \in 0 .. Total[kind] - 1  BY <1>1 DEF Init
<1>4. heard \in 0 .. ByteBudget  BY SweepAssumption DEF Init
<1>5. rows \in Seq([index : Nat, peak : BOOLEAN]) /\ Len(rows) <= RowQueue
  BY SweepAssumption DEF Init
<1>6. tele \in TeleType  BY DEF Init, Resting, NoRow, TeleType
<1>7. TypeOK
  BY <1>2, <1>3, <1>4, <1>5, <1>6 DEF Init, TypeOK, TeleType
<1> QED  BY <1>7 DEF Init, HwInv

\* Bytes are counted up to the budget.
LEMMA HeardTyped ==
  ASSUME TypeOK, NEW n \in Nat, Heard(n) PROVE heard' \in 0 .. ByteBudget
<1>1. heard \in 0 .. ByteBudget /\ ByteBudget \in Nat
  BY SweepAssumption DEF TypeOK
<1> QED  BY <1>1 DEF Heard

\* Who drives the line, and when.
LEMMA Drivers ==
  ASSUME IInv
  PROVE  (hw.slice => pc = "synth") /\ (hw.tx => pc = "uart")
<1>1. Quiet(hw) => ~hw.slice /\ ~hw.tx  BY DEF Quiet, Still
<1>2. Listening(hw) => ~hw.slice  BY DEF Listening, Still
<1>3. Driven(hw) => ~hw.tx  BY DEF Driven
<1>4. hw = Normal => ~hw.slice /\ ~hw.tx
  <2>1. Normal.slice = FALSE /\ Normal.tx = FALSE  BY DEF Normal
  <2> QED  BY <2>1
<1>5. pc \in {"idle", "settle", "uart", "base", "synth", "calm"}
  BY DEF IInv, TypeOK
<1> QED  BY <1>1, <1>2, <1>3, <1>4, <1>5 DEF IInv, HwInv

\* and is kept by the interrupts, the transmitter and the clock,
LEMMA InterruptInv ==
  ASSUME IInv, OnUartRx \/ OnRxDma \/ OnSynth \/ TxEnds \/ DeadlinePasses
  PROVE  IInv'
<1> USE DEF IInv
<1>1. CASE OnUartRx
  <2>1. /\ hw' = CountDown(hw)
        /\ UNCHANGED <<late, cmds, status, pc, left, rows, tele, hist>>
    BY <1>1 DEF OnUartRx
  <2>2. /\ heard' \in 0 .. ByteBudget
        /\ peak' \in BOOLEAN /\ reached' \in BOOLEAN
    <3>1. CASE hw.tx
      <4>1. Fills /\ \E n \in Nat : Heard(n)
        BY <1>1, <3>1, SweepAssumption DEF OnUartRx
      <4> QED  BY <4>1, HeardTyped DEF Fills, TypeOK
    <3>2. CASE ~hw.tx  BY <1>1, <3>2 DEF OnUartRx, TypeOK
    <3> QED  BY <3>1, <3>2
  <2>3. HwInv' /\ hw' \in Hw
    <3>1. CASE pc \in {"idle", "calm"}
      BY <2>1, <3>1, CountDownNormal, NormalType DEF HwInv
    <3>2. CASE pc \in {"settle", "base"}
      BY <2>1, <3>2, QuietType DEF HwInv, Quiet, CountDown
    <3>3. CASE pc = "uart"
      BY <2>1, <3>3, CountDownListening, QuietType DEF HwInv
    <3>4. CASE pc = "synth"
      BY <2>1, <3>4, QuietType DEF HwInv, Driven, CountDown
    <3> QED  BY <3>1, <3>2, <3>3, <3>4 DEF TypeOK
  <2> QED  BY <2>1, <2>2, <2>3 DEF TypeOK, cmds, status
<1>2. CASE OnRxDma
  <2>1. /\ UNCHANGED <<hw, late, cmds, status, pc, left, rows, tele>>
        /\ UNCHANGED <<hist, peak, reached>>
    BY <1>2 DEF OnRxDma
  <2>2. heard' \in 0 .. ByteBudget
    BY <1>2, HeardTyped, SweepAssumption DEF OnRxDma
  <2> QED  BY <2>1, <2>2 DEF TypeOK, HwInv, cmds, status
<1>3. CASE OnSynth
  <2>1. UNCHANGED <<late, cmds, status, pc, left, rows, tele, hist, heard>>
    BY <1>3 DEF OnSynth
  <2>2. peak' \in BOOLEAN /\ reached' \in BOOLEAN
    BY <1>3 DEF OnSynth, Fills, TypeOK
  <2>3. hw.slice /\ hw' = [hw EXCEPT !.firings = hw.firings - 1,
                                    !.slice = hw.firings # 1]
    BY <1>3 DEF OnSynth
  <2>4. pc = "synth"
    BY <2>3, Drivers
  <2>5. Driven(hw) /\ hw.firings \in Nat /\ hw.firings > 0
    BY <2>3, <2>4 DEF HwInv, Driven, Hw
  <2>6. Driven(hw')
    <3> DEFINE n == hw.firings - 1
    <3>1. n \in Nat /\ (hw.firings # 1 => n > 0)  BY <2>5
    <3>2. hw' = [hw EXCEPT !.firings = n, !.slice = hw.firings # 1]  BY <2>3
    <3> HIDE DEF n
    <3> QED  BY <2>5, <3>1, <3>2 DEF Driven, Hw
  <2> QED  BY <2>1, <2>2, <2>4, <2>6, QuietType
    DEF TypeOK, HwInv, cmds, status
<1>4. CASE TxEnds
  <2>1. UNCHANGED <<late, cmds, status, pc, left, rows, tele, window>>
        /\ hw.tx /\ hw' = TxStop(hw)
    BY <1>4 DEF TxEnds
  <2>2. pc = "uart"
    BY <2>1, Drivers
  <2>3. Listening(hw')
    BY <2>1, <2>2 DEF HwInv, Listening, Still, TxStop, Hw
  <2> QED  BY <2>1, <2>2, <2>3, QuietType
    DEF TypeOK, HwInv, cmds, status, window
<1>5. CASE DeadlinePasses
  BY <1>5 DEF DeadlinePasses, TypeOK, HwInv, cmds, status, window
<1> QED  BY <1>1, <1>2, <1>3, <1>4, <1>5

\* by the sweep task,
LEMMA SweepTaskInv == ASSUME IInv, SweepTask PROVE IInv'
<1> USE DEF IInv
<1>1. CASE Begin
  <2>1. pc = "idle" /\ hw = Normal  BY <1>1 DEF Begin, HwInv
  <2>2. request \in Kinds  BY <1>1 DEF Begin, TypeOK
  <2>3. Quiet(Pause(hw))  BY <2>1, PauseQuiet
  <2>4. 0 \in 0 .. Total[request] - 1  BY <2>2, TotalType
  <2>5. StartPoint(Pause(hw), request, 0)  BY <1>1 DEF Begin
  <2>6. PointTyped' /\ HwInv'  BY <2>2, <2>3, <2>4, <2>5, StartPointInv
  <2> QED  BY <1>1, <2>6 DEF Begin, TypeOK, PointTyped
<1>2. CASE Settled
  <2>1. pc = "settle" /\ Quiet(hw)  BY <1>2 DEF Settled, Awake, HwInv
  <2>2. hw' = TxStart(RxBudget(hw, ByteBudget)) /\ pc' = "uart"
    BY <1>2 DEF Settled
  <2>3. Listening(hw')  BY <2>1, <2>2, OpenListening
  <2>4. hw' \in Hw /\ HwInv'  BY <2>2, <2>3, QuietType DEF HwInv
  <2>5. hist' \in Nat /\ left' \in Nat
    BY <1>2, TotalType, SweepAssumption DEF Settled, TypeOK
  <2> QED  BY <1>2, <2>2, <2>4, <2>5 DEF Settled, TypeOK, cmds, status
<1>3. CASE UartOver
  <2>1. Listening(hw)  BY <1>3 DEF UartOver, Awake, HwInv
  <2> DEFINE h == SetRxMode(RxBudget(TxStop(hw), 0), hw.mode)
  <2>2. Quiet(h)  BY <2>1, CloseQuiet
  <2>3. Proceed(h) /\ Publish  BY <1>3 DEF UartOver
  <2>4. PointTyped' /\ HwInv'
    <3> HIDE DEF h
    <3> QED  BY <2>2, <2>3, ProceedInv
  <2>5. rows' \in Seq([index : Nat, peak : BOOLEAN]) /\ Len(rows') <= RowQueue
    BY <2>3, PublishTyped
  <2> QED  BY <1>3, <2>4, <2>5 DEF UartOver, TypeOK, PointTyped, cmds
<1>4. CASE BaseOver
  <2>1. Quiet(hw)  BY <1>4 DEF BaseOver, Awake, HwInv
  <2>2. Proceed(hw) /\ Publish  BY <1>4 DEF BaseOver
  <2>3. PointTyped' /\ HwInv'  BY <2>1, <2>2, ProceedInv
  <2>4. rows' \in Seq([index : Nat, peak : BOOLEAN]) /\ Len(rows') <= RowQueue
    BY <2>2, PublishTyped
  <2> QED  BY <1>4, <2>3, <2>4 DEF BaseOver, TypeOK, PointTyped, cmds
<1>5. CASE SynthOver
  <2>1. Quiet(SynthStop(hw))
    BY <1>5, SynthStopQuiet DEF SynthOver, Awake, HwInv
  <2>2. Proceed(SynthStop(hw)) /\ Publish  BY <1>5 DEF SynthOver
  <2>3. PointTyped' /\ HwInv'  BY <2>1, <2>2, ProceedInv
  <2>4. rows' \in Seq([index : Nat, peak : BOOLEAN]) /\ Len(rows') <= RowQueue
    BY <2>2, PublishTyped
  <2> QED  BY <1>5, <2>3, <2>4 DEF SynthOver, TypeOK, PointTyped, cmds
<1>6. CASE CalmOver
  <2>1. hw = Normal /\ hw' = hw /\ pc' = "idle"
    BY <1>6 DEF CalmOver, Awake, HwInv
  <2>2. HwInv'  BY <2>1 DEF HwInv
  <2> QED  BY <1>6, <2>1, <2>2 DEF CalmOver, TypeOK
<1> QED  BY <1>1, <1>2, <1>3, <1>4, <1>5, <1>6 DEF SweepTask

\* Taking the first row.
LEMMA HeadTail ==
  ASSUME NEW T, NEW s \in Seq(T), s # <<>>
  PROVE  Head(s) \in T /\ Tail(s) \in Seq(T) /\ Len(Tail(s)) = Len(s) - 1
OBVIOUS

\* and by the telemetry task.
LEMMA TelemetryInv == ASSUME IInv, Telemetry PROVE IInv'
<1> USE DEF IInv
<1>1. CASE Packet
  <2>1. left' \in Nat  BY <1>1 DEF Packet, TypeOK
  <2>2. tele' \in TeleType  BY <1>1 DEF Packet, TypeOK, TeleType
  <2> QED  BY <1>1, <2>1, <2>2
    DEF Packet, TypeOK, HwInv, cmds, status, window
<1>2. CASE TakeRow
  <2>1. tele' \in TeleType /\ rows' \in Seq([index : Nat, peak : BOOLEAN])
        /\ Len(rows') <= RowQueue
    <3>1. CASE rows = <<>>
      BY <1>2, <3>1 DEF TakeRow, TypeOK, TeleType
    <3>2. CASE rows # <<>>
      <4>1. /\ Head(rows) \in [index : Nat, peak : BOOLEAN]
            /\ Tail(rows) \in Seq([index : Nat, peak : BOOLEAN])
            /\ Len(Tail(rows)) <= RowQueue
        <5>1. /\ rows \in Seq([index : Nat, peak : BOOLEAN])
              /\ Len(rows) <= RowQueue /\ Len(rows) \in Nat /\ RowQueue \in Nat
          BY SweepAssumption DEF TypeOK
        <5> DEFINE T == [index : Nat, peak : BOOLEAN]
        <5>2. rows \in Seq(T)  BY <5>1
        <5> HIDE DEF T
        <5>3. Head(rows) \in T /\ Tail(rows) \in Seq(T)
              /\ Len(Tail(rows)) = Len(rows) - 1
          BY <3>2, <5>2, HeadTail
        <5>4. Len(Tail(rows)) <= RowQueue  BY <5>1, <5>3
        <5> QED  BY <5>3, <5>4 DEF T
      <4>2. Head(rows) \in [index : Nat \cup {-1}, peak : BOOLEAN]  BY <4>1
      <4> QED  BY <1>2, <3>2, <4>1, <4>2 DEF TakeRow, TypeOK, TeleType
    <3> QED  BY <3>1, <3>2
  <2> QED  BY <1>2, <2>1 DEF TakeRow, TypeOK, HwInv, cmds, status, window
<1>3. CASE PrintHist
  <2>1. tele' \in TeleType  BY <1>3 DEF PrintHist, TypeOK, TeleType
  <2> QED  BY <1>3, <2>1 DEF PrintHist, TypeOK, HwInv, cmds, status, window
<1>4. CASE Command
  <2>1. tele' \in TeleType  BY <1>4 DEF Command, TypeOK, TeleType
  <2>2. abort' \in BOOLEAN /\ stopping' \in BOOLEAN  BY <1>4 DEF Command, TypeOK
  <2> QED  BY <1>4, <2>1, <2>2 DEF Command, TypeOK, HwInv, status, window
<1>5. CASE Store
  <2>1. tele' \in TeleType  BY <1>5 DEF Store, TypeOK, TeleType
  <2>2. request' \in Kinds \cup {"none"}  BY <1>5 DEF Store, TypeOK, TeleType
  <2> QED  BY <1>5, <2>1, <2>2 DEF Store, TypeOK, HwInv, status, window
<1>6. CASE Send
  <2>1. tele' \in TeleType  BY <1>6 DEF Send, Resting, NoRow, TeleType
  <2>2. peak' \in BOOLEAN  BY <1>6 DEF Send, TypeOK, TeleType
  <2> QED  BY <1>6, <2>1, <2>2 DEF Send, TypeOK, HwInv, cmds, status
<1> QED  BY <1>1, <1>2, <1>3, <1>4, <1>5, <1>6 DEF Telemetry

\* Every step keeps it.
LEMMA NextInv == IInv /\ [Next]_vars => IInv'
<1> SUFFICES ASSUME IInv, [Next]_vars PROVE IInv'  OBVIOUS
<1>1. CASE SweepTask  BY <1>1, SweepTaskInv
<1>2. CASE Telemetry  BY <1>2, TelemetryInv
<1>3. CASE OnUartRx \/ OnRxDma \/ OnSynth \/ TxEnds \/ DeadlinePasses
  BY <1>3, InterruptInv
<1>4. CASE UNCHANGED vars
  BY <1>4 DEF IInv, TypeOK, HwInv, vars, cmds, status, window
<1> QED  BY <1>1, <1>2, <1>3, <1>4 DEF Next

\* What the port has set up is decided by the delay the sweep task is in.
THEOREM Invariance == Spec => []IInv
BY InitInv, NextInv, PTL DEF Spec

\* Every variable of the sweep has its type.
THEOREM SweepTypeCorrect == Spec => []TypeOK
<1>1. IInv => TypeOK  BY DEF IInv
<1> QED  BY <1>1, Invariance, PTL

\* Whatever a sweep did and however it ended, the port is as it was.
THEOREM LineGivenBack == Spec => []GivenBack
<1>1. IInv => GivenBack
  <2> SUFFICES ASSUME IInv, hw.ticks \/ pc \in {"idle", "calm"}
               PROVE  hw = Normal
    BY DEF GivenBack
  <2>1. ~(pc \in {"settle", "base", "uart", "synth"} /\ hw.ticks)
    BY DEF IInv, HwInv, Quiet, Listening, Driven, Still
  <2> QED  BY <2>1 DEF IInv, HwInv, TypeOK
<1> QED  BY <1>1, Invariance, PTL

\* The shared interrupt always has the handler of the source that runs.
THEOREM HandlersMatch == Spec => []HandlerMatchesSource
<1>1. IInv => HandlerMatchesSource
  <2> SUFFICES ASSUME IInv PROVE HandlerMatchesSource  OBVIOUS
  <2>1. Normal.wrap0 = "byteTick" /\ Normal.slice = FALSE  BY DEF Normal
  <2>2. CASE hw = Normal  BY <2>1, <2>2 DEF HandlerMatchesSource
  <2>3. CASE Quiet(hw) \/ Listening(hw)
    BY <2>3 DEF HandlerMatchesSource, Quiet, Listening, Still
  <2>4. CASE Driven(hw)  BY <2>4 DEF HandlerMatchesSource, Driven
  <2> QED  BY <2>2, <2>3, <2>4 DEF IInv, HwInv, TypeOK
<1> QED  BY <1>1, Invariance, PTL

\* No source that can take the core runs without an end to it.
THEOREM LoadsBounded == Spec => []LoadBounded
<1>1. IInv => LoadBounded
  <2> SUFFICES ASSUME IInv PROVE LoadBounded  OBVIOUS
  <2>1. Normal.tx = FALSE /\ Normal.slice = FALSE  BY DEF Normal
  <2>2. CASE hw = Normal  BY <2>1, <2>2 DEF LoadBounded
  <2>3. CASE Quiet(hw) \/ Listening(hw)
    BY <2>3 DEF LoadBounded, Quiet, Listening, Still
  <2>4. CASE Driven(hw)  BY <2>4 DEF LoadBounded, Driven
  <2> QED  BY <2>2, <2>3, <2>4 DEF IInv, HwInv, TypeOK
<1> QED  BY <1>1, Invariance, PTL


(***************************************************************************)
(* What the sweep counts, shows and queues.                                *)
(***************************************************************************)

\* The place of a point among the handler sweep's.
Offset(k, i) == IF k = "handler" THEN i ELSE i - UartPoints

\* A point is of the UART, or it is the base or a synthetic rate; synthetic
\* rates are measured from the first, with the base before it.
LEMMA PointIs ==
  ASSUME NEW k \in Kinds, NEW i \in 0 .. Total[k] - 1
  PROVE  \/ PointOf(k, i).source = "uart"
         \/ /\ Offset(k, i) \in 0 .. SynthRates
            /\ PointOf(k, i) = HandlerPoint(Offset(k, i))
            /\ i > 0 <=> (k # "handler" \/ Offset(k, i) > 0)
<1>1. UartPoints \in Nat /\ UartPoints > 0 /\ SynthRates \in Nat
  BY SweepAssumption, ModesAre DEF UartPoints
<1>2. CASE k = "handler"
  <2>1. Total[k] = SynthRates + 1  BY <1>2 DEF Total
  <2>2. PointOf(k, i) = HandlerPoint(i) /\ Offset(k, i) = i  BY <1>2 DEF PointOf, Offset
  <2> QED  BY <1>1, <1>2, <2>1, <2>2
<1>3. CASE k # "handler" /\ i < UartPoints
  BY <1>3 DEF PointOf, UartPoint
<1>4. CASE k # "handler" /\ ~(i < UartPoints)
  <2>1. Total[k] \in {UartPoints, UartPoints + SynthRates + 1}  BY <1>4 DEF Total, Kinds
  <2>2. PointOf(k, i) = HandlerPoint(i - UartPoints) /\ Offset(k, i) = i - UartPoints
    BY <1>4 DEF PointOf, Offset
  <2>3. i - UartPoints \in 0 .. SynthRates /\ i > 0  BY <1>1, <1>4, <2>1
  <2> QED  BY <1>4, <2>2, <2>3
<1> QED  BY <1>2, <1>3, <1>4

LEMMA HandlerPointIs ==
  ASSUME NEW n \in 0 .. SynthRates
  PROVE  /\ HandlerPoint(n).rate = n
         /\ HandlerPoint(n).source = "base" <=> n = 0
         /\ HandlerPoint(n).source = "synth" <=> n # 0
         /\ HandlerPoint(n).source # "uart"
BY DEF HandlerPoint

\* A synthetic point comes after the base or another, and it is the next rate.
LEMMA SynthAfter ==
  ASSUME NEW k \in Kinds, NEW i \in 0 .. Total[k] - 1, PointOf(k, i).source = "synth"
  PROVE  /\ PointOf(k, i).rate \in 1 .. SynthRates
         /\ i > 0
         /\ PointOf(k, i - 1).source \in {"base", "synth"}
         /\ PointOf(k, i).rate = PointOf(k, i - 1).rate + 1
<1>1. /\ Offset(k, i) \in 0 .. SynthRates /\ PointOf(k, i) = HandlerPoint(Offset(k, i))
      /\ i > 0 <=> (k # "handler" \/ Offset(k, i) > 0)
  BY PointIs
<1>2. SynthRates \in Nat /\ UartPoints \in Nat /\ Total[k] \in Nat
  BY SweepAssumption, ModesAre, TotalType DEF UartPoints
<1>3. Offset(k, i) \in 1 .. SynthRates /\ PointOf(k, i).rate = Offset(k, i)
  BY <1>1, <1>2, HandlerPointIs
<1>4. i > 0  BY <1>1, <1>3
<1>5. Offset(k, i - 1) = Offset(k, i) - 1  BY <1>2, <1>4 DEF Offset
<1>6. PointOf(k, i - 1) = HandlerPoint(Offset(k, i - 1))
  <2>1. k # "handler" => i - 1 >= UartPoints  BY <1>2, <1>3 DEF Offset
  <2>2. ~(i - 1 < UartPoints) \/ k = "handler"  BY <1>2, <1>4, <2>1
  <2> QED  BY <2>2 DEF PointOf, Offset
<1>7. Offset(k, i) - 1 \in 0 .. SynthRates  BY <1>2, <1>3
<1>8. /\ PointOf(k, i - 1).rate = Offset(k, i) - 1
      /\ PointOf(k, i - 1).source \in {"base", "synth"}
  BY <1>5, <1>6, <1>7, HandlerPointIs
<1> QED  BY <1>3, <1>4, <1>8

\* What is before a point of the UART or the base is a point of the UART.
LEMMA PointAfter ==
  ASSUME NEW k \in Kinds, NEW i \in 1 .. Total[k] - 1, PointOf(k, i).source \in {"uart", "base"}
  PROVE  PointOf(k, i - 1).source = "uart"
<1>1. UartPoints \in Nat /\ SynthRates \in Nat /\ Total[k] \in Nat
  BY SweepAssumption, ModesAre, TotalType DEF UartPoints
<1>2. k # "handler" /\ (i < UartPoints \/ i = UartPoints)
  <2>1. CASE k # "handler" /\ i < UartPoints  BY <2>1
  <2>2. CASE k = "handler"
    BY <2>2 DEF PointOf, HandlerPoint
  <2>3. CASE k # "handler" /\ ~(i < UartPoints)
    <3>1. PointOf(k, i) = HandlerPoint(i - UartPoints)  BY <2>3 DEF PointOf
    <3>2. i - UartPoints = 0  BY <3>1 DEF HandlerPoint
    <3> QED  BY <1>1, <2>3, <3>2
  <2> QED  BY <2>1, <2>2, <2>3
<1>3. i - 1 < UartPoints  BY <1>1, <1>2
<1> QED  BY <1>2, <1>3 DEF PointOf, UartPoint

\* A sweep does not begin with a synthetic point, and the base does not starve.
LEMMA FirstPoint ==
  ASSUME NEW k \in Kinds PROVE PointOf(k, 0).source \in {"uart", "base"}
<1>1. 0 \in 0 .. Total[k] - 1  BY TotalType
<1> QED  BY <1>1, PointType, SynthAfter

\* The delay the task is in is that of the point's source.
SourceInv ==
  /\ pc \in {"settle", "uart"} => Current.source = "uart"
  /\ pc \in {"base", "synth"} => Current.source = pc

\* At a UART point the port is in the mode of the point, and what the interrupt
\* has left of its budget are the bytes that are still to come.
ModeInv ==
  /\ pc \in {"settle", "uart"} => hw.mode = Current.mode
  /\ pc = "settle" => heard = 0
  /\ pc = "uart" /\ hw.limited /\ hw.mode = "byte" => hw.budget + heard <= ByteBudget

LEMMA StartMode ==
  ASSUME NEW h \in Hw, NEW k \in Kinds, NEW i \in 0 .. Total[k] - 1, StartPoint(h, k, i)
  PROVE  SourceInv' /\ ModeInv'
<1> DEFINE p == PointOf(k, i)
<1>1. p.source \in {"uart", "base", "synth"}  BY PointType
<1>2. Current' = p /\ heard' = 0  BY DEF StartPoint, Current
<1>3. CASE p.source = "uart"
  <2>1. hw' = Prepare(h, p) /\ pc' = "settle"  BY <1>3 DEF StartPoint
  <2>2. Prepare(h, p).mode = p.mode
    BY DEF Prepare, RxBudget, SetRxMode, SetBaud, TxStop, Hw
  <2> HIDE DEF p
  <2> QED  BY <1>2, <1>3, <2>1, <2>2 DEF SourceInv, ModeInv
<1>4. CASE p.source \in {"base", "synth"}
  <2>1. pc' = p.source  BY <1>4 DEF StartPoint
  <2> HIDE DEF p
  <2> QED  BY <1>2, <1>4, <2>1 DEF SourceInv, ModeInv
<1> QED  BY <1>1, <1>3, <1>4

LEMMA ProceedMode ==
  ASSUME TypeOK, NEW h \in Hw, Proceed(h)
  PROVE  SourceInv' /\ ModeInv'
<1>1. CASE ~abort /\ point + 1 < Total[kind]
  <2>1. StartPoint(h, kind, point + 1)  BY <1>1 DEF Proceed
  <2>2. kind \in Kinds /\ Total[kind] \in Nat /\ point \in 0 .. Total[kind] - 1
    BY TotalType DEF TypeOK
  <2>3. point + 1 \in 0 .. Total[kind] - 1  BY <1>1, <2>2
  <2> QED  BY <2>1, <2>2, <2>3, StartMode
<1>2. CASE ~(~abort /\ point + 1 < Total[kind])
  BY <1>2 DEF Proceed, SourceInv, ModeInv
<1> QED  BY <1>1, <1>2

\* Counting down takes a byte off the budget, or lifts the limit.
LEMMA CountDownIs ==
  ASSUME NEW h \in Hw
  PROVE  /\ CountDown(h).mode = h.mode
         /\ CountDown(h).limited => h.limited /\ CountDown(h).budget = h.budget - 1
BY DEF CountDown, Hw

LEMMA ModeNext ==
  ASSUME IInv, SourceInv, ModeInv, [Next]_vars
  PROVE  SourceInv' /\ ModeInv'
<1>1. TypeOK /\ hw \in Hw /\ heard \in 0 .. ByteBudget /\ ByteBudget \in Nat
  BY SweepAssumption DEF IInv, TypeOK
<1>2. CASE OnUartRx
  <2>1. /\ UNCHANGED <<pc, kind, point>> /\ hw' = CountDown(hw)
        /\ hw.tx \/ hw.ticks
    BY <1>2 DEF OnUartRx, status
  <2>2. Current' = Current  BY <2>1 DEF Current
  <2>3. pc # "settle"
    BY <2>1 DEF IInv, HwInv, Quiet, Still
  <2>4. SourceInv'  BY <2>1, <2>2 DEF SourceInv
  <2>5. CASE pc = "uart" /\ hw'.limited /\ hw'.mode = "byte"
    <3>1. hw.limited /\ hw.mode = "byte" /\ hw'.budget = hw.budget - 1
      BY <1>1, <2>1, <2>5, CountDownIs
    <3>2. ~hw.ticks  BY <2>5 DEF IInv, HwInv, Listening, Still
    <3>3. Heard(1)  BY <1>2, <2>1, <3>1, <3>2 DEF OnUartRx
    <3>4. hw.budget \in Nat /\ hw.budget + heard <= ByteBudget
      BY <1>1, <2>5, <3>1 DEF ModeInv, Hw
    <3> DEFINE n == IF heard + 1 > ByteBudget THEN ByteBudget ELSE heard + 1
    <3>5. (hw.budget - 1) + n <= ByteBudget  BY <1>1, <3>4
    <3>6. heard' = n  BY <3>3 DEF Heard
    <3> HIDE DEF n
    <3>7. hw'.budget + heard' <= ByteBudget  BY <3>1, <3>5, <3>6
    <3> QED  BY <1>1, <2>1, <2>2, <2>3, <2>4, <3>7, CountDownIs DEF ModeInv
  <2>6. CASE ~(pc = "uart" /\ hw'.limited /\ hw'.mode = "byte")
    BY <1>1, <2>1, <2>2, <2>3, <2>4, <2>6, CountDownIs DEF ModeInv
  <2> QED  BY <2>5, <2>6
<1>3. CASE OnRxDma
  <2>1. /\ UNCHANGED <<hw, pc, kind, point>> /\ hw.mode = "dma" /\ hw.tx
    BY <1>3 DEF OnRxDma, status
  <2>2. Current' = Current  BY <2>1 DEF Current
  <2>3. pc # "settle"  BY <2>1 DEF IInv, HwInv, Quiet
  <2> QED  BY <2>1, <2>2, <2>3 DEF SourceInv, ModeInv
<1>4. CASE OnSynth
  <2>1. UNCHANGED <<pc, kind, point, heard>> /\ hw.slice
    BY <1>4 DEF OnSynth, status
  <2>2. Current' = Current  BY <2>1 DEF Current
  <2>3. pc = "synth"  BY <2>1, Drivers
  <2> QED  BY <2>1, <2>2, <2>3 DEF SourceInv, ModeInv
<1>5. CASE TxEnds
  <2>1. UNCHANGED <<pc, kind, point, heard>> /\ hw' = TxStop(hw)
    BY <1>5 DEF TxEnds, status, window
  <2>2. Current' = Current  BY <2>1 DEF Current
  <2>3. hw'.mode = hw.mode /\ hw'.limited = hw.limited /\ hw'.budget = hw.budget
    BY <1>1, <2>1 DEF TxStop, Hw
  <2> QED  BY <2>1, <2>2, <2>3 DEF SourceInv, ModeInv
<1>6. CASE Begin
  <2>1. request \in Kinds /\ 0 \in 0 .. Total[request] - 1 /\ Pause(hw) \in Hw
    <3>1. Pause(hw) \in Hw  BY <1>1 DEF Pause, Hw
    <3>2. request \in Kinds  BY <1>1, <1>6 DEF Begin, TypeOK
    <3> QED  BY <3>1, <3>2, TotalType
  <2>2. StartPoint(Pause(hw), request, 0)  BY <1>6 DEF Begin
  <2> QED  BY <2>1, <2>2, StartMode
<1>7. CASE Settled
  <2>1. /\ pc = "settle" /\ pc' = "uart" /\ UNCHANGED <<kind, point, heard>>
        /\ hw' = TxStart(RxBudget(hw, ByteBudget))
    BY <1>7 DEF Settled, Awake, status
  <2>2. Current' = Current  BY <2>1 DEF Current
  <2>3. hw'.mode = hw.mode /\ hw'.budget = ByteBudget
    BY <1>1, <2>1 DEF TxStart, RxBudget, Hw
  <2>4. hw'.budget + heard' <= ByteBudget
    <3>1. heard = 0  BY <2>1 DEF ModeInv
    <3>2. ByteBudget + 0 <= ByteBudget  BY <1>1
    <3> QED  BY <2>1, <2>3, <3>1, <3>2
  <2> QED  BY <2>1, <2>2, <2>3, <2>4 DEF SourceInv, ModeInv
<1>8. CASE UartOver
  <2> DEFINE h == SetRxMode(RxBudget(TxStop(hw), 0), hw.mode)
  <2>1. Proceed(h) /\ pc = "uart"  BY <1>8 DEF UartOver, Awake
  <2>2. h \in Hw  BY <2>1, CloseQuiet, QuietType DEF IInv, HwInv
  <2> HIDE DEF h
  <2> QED  BY <1>1, <2>1, <2>2, ProceedMode
<1>9. CASE BaseOver
  BY <1>1, <1>9, ProceedMode DEF BaseOver
<1>10. CASE SynthOver
  <2>1. Proceed(SynthStop(hw)) /\ pc = "synth"  BY <1>10 DEF SynthOver, Awake
  <2>2. SynthStop(hw) \in Hw  BY <2>1, SynthStopQuiet, QuietType DEF IInv, HwInv
  <2> QED  BY <1>1, <2>1, <2>2, ProceedMode
<1>11. CASE CalmOver
  BY <1>11 DEF CalmOver, SourceInv, ModeInv
<1>12. CASE Telemetry \/ DeadlinePasses \/ UNCHANGED vars
  <2>1. UNCHANGED <<hw, pc, kind, point, heard>>
    <3>1. CASE Packet  BY <3>1 DEF Packet, status, window
    <3>2. CASE TakeRow  BY <3>2 DEF TakeRow, status, window
    <3>3. CASE PrintHist  BY <3>3 DEF PrintHist, status, window
    <3>4. CASE Command  BY <3>4 DEF Command, status, window
    <3>5. CASE Store  BY <3>5 DEF Store, status, window
    <3>6. CASE Send  BY <3>6 DEF Send, status
    <3>7. CASE DeadlinePasses  BY <3>7 DEF DeadlinePasses, status, window
    <3>8. CASE UNCHANGED vars  BY <3>8 DEF vars, status, window
    <3> QED
      BY <1>12, <3>1, <3>2, <3>3, <3>4, <3>5, <3>6, <3>7, <3>8 DEF Telemetry
  <2>2. Current' = Current  BY <2>1 DEF Current
  <2> QED  BY <2>1, <2>2 DEF SourceInv, ModeInv
<1> QED
  BY <1>2, <1>3, <1>4, <1>5, <1>6, <1>7, <1>8, <1>9, <1>10, <1>11, <1>12
  DEF Next, SweepTask

LEMMA ModeStart == Init => SourceInv /\ ModeInv
BY DEF Init, SourceInv, ModeInv

\* Byte by byte, the interrupt has switched itself off when the budget of bytes
\* has come in (on_uart_rx, sweep.c:218-221).
THEOREM BudgetIsInBytes == Spec => []BudgetInBytes
<1>1. IInv /\ ModeInv => BudgetInBytes
  <2> SUFFICES ASSUME IInv, ModeInv, pc = "uart", Current.mode = "byte",
                      heard = ByteBudget, hw.limited
               PROVE  FALSE
    BY DEF BudgetInBytes
  <2>1. hw.budget + ByteBudget <= ByteBudget  BY DEF ModeInv
  <2>2. hw.budget \in Nat /\ hw.budget > 0
    BY DEF IInv, HwInv, Listening, Still, Hw
  <2> QED  BY <2>1, <2>2, SweepAssumption
<1>2. IInv /\ [Next]_vars => IInv'  BY NextInv
<1> QED  BY InitInv, <1>2, ModeStart, ModeNext, <1>1, PTL DEF Spec


(***************************************************************************)
(* The window of a point, and a stop.                                      *)
(***************************************************************************)

\* A packet that began before the sweep did, and will reset the window.
Stale == running /\ tele.pc # "wait" /\ ~tele.running

\* It does so before anything fills the ring; and a sweep that is to stop runs.
WindowInv ==
  /\ running <=> pc # "idle"
  /\ stopping => abort /\ running
  /\ pc \in {"settle", "base"} => ~reached
  /\ pc \in {"uart", "synth"} /\ reached => peak
  /\ Stale => pc \in {"settle", "base"} /\ left > 0

LEMMA WindowStart == Init => WindowInv
BY DEF Init, WindowInv, Stale

\* A point begins with nothing reached, the first one with a period to go.
LEMMA StartWindow ==
  ASSUME NEW h, NEW k \in Kinds, NEW i \in 0 .. Total[k] - 1, StartPoint(h, k, i)
  PROVE  /\ pc' \in {"settle", "base", "synth"} /\ ~reached'
         /\ i = 0 => pc' \in {"settle", "base"} /\ left' > 0
<1> DEFINE p == PointOf(k, i)
<1>1. p.source \in {"uart", "base", "synth"}  BY PointType
<1>2. i = 0 => p.source \in {"uart", "base"}  BY FirstPoint
<1>3. SettlePackets > 0 /\ PointPackets > 0 /\ SettlePackets \in Nat /\ PointPackets \in Nat
  BY SweepAssumption, PaceAssumption
<1>4. ~reached'  BY DEF StartPoint
<1>5. CASE p.source = "uart"
  <2>1. pc' = "settle" /\ left' = SettlePackets  BY <1>5 DEF StartPoint
  <2> QED  BY <1>3, <1>4, <2>1
<1>6. CASE p.source = "base"
  <2>1. ~IsFast(p)  BY <1>6 DEF IsFast
  <2>2. pc' = "base" /\ left' = PointPackets  BY <1>6, <2>1 DEF StartPoint
  <2> QED  BY <1>3, <1>4, <2>2
<1>7. CASE p.source = "synth"
  <2>1. pc' = "synth" /\ i # 0  BY <1>2, <1>7 DEF StartPoint
  <2> QED  BY <1>4, <2>1
<1> QED  BY <1>1, <1>5, <1>6, <1>7

\* Where the sweep task goes on, nothing is stale any more.
LEMMA ProceedWindow ==
  ASSUME TypeOK, WindowInv, NEW h, Proceed(h), ~Stale, pc # "idle",
         UNCHANGED <<cmds, running, tele, peak>>
  PROVE  WindowInv'
<1>1. ~Stale' /\ running' = running /\ abort' = abort /\ stopping' = stopping /\ peak' = peak
  BY DEF Stale, cmds
<1>2. CASE ~abort /\ point + 1 < Total[kind]
  <2>1. StartPoint(h, kind, point + 1)  BY <1>2 DEF Proceed
  <2>2. kind \in Kinds /\ Total[kind] \in Nat /\ point \in 0 .. Total[kind] - 1
    BY TotalType DEF TypeOK
  <2>3. point + 1 \in 0 .. Total[kind] - 1  BY <1>2, <2>2
  <2>4. pc' \in {"settle", "base", "synth"} /\ ~reached'  BY <2>1, <2>2, <2>3, StartWindow
  <2> QED  BY <1>1, <2>4 DEF WindowInv
<1>3. CASE ~(~abort /\ point + 1 < Total[kind])
  <2>1. pc' = "calm"  BY <1>3 DEF Proceed
  <2> QED  BY <1>1, <2>1 DEF WindowInv
<1> QED  BY <1>2, <1>3

\* When a delay is over, no packet that began before the sweep is under way.
LEMMA NotStale == ASSUME WindowInv, NEW where, Awake(where) PROVE ~Stale
BY DEF WindowInv, Awake

LEMMA WindowNext ==
  ASSUME IInv, WindowInv, [Next]_vars
  PROVE  WindowInv'
<1>1. TypeOK /\ left \in Nat /\ peak \in BOOLEAN /\ reached \in BOOLEAN
      /\ running \in BOOLEAN /\ abort \in BOOLEAN /\ stopping \in BOOLEAN
  BY DEF IInv, TypeOK
<1>2. CASE OnUartRx
  <2>1. UNCHANGED <<running, stopping, abort, pc, left, tele>>
    BY <1>2 DEF OnUartRx, cmds, status
  <2>2. Stale' = Stale  BY <2>1 DEF Stale
  <2>3. CASE hw.tx
    <3>1. pc = "uart"  BY <2>3, Drivers
    <3>2. Fills  BY <1>2, <2>3 DEF OnUartRx
    <3>3. reached' => peak'
      <4>1. reached => peak  BY <3>1 DEF WindowInv
      <4> QED  BY <3>2, <4>1, Zenon DEF Fills
    <3> QED  BY <2>1, <2>2, <3>1, <3>3 DEF WindowInv
  <2>4. CASE ~hw.tx
    <3>1. UNCHANGED <<peak, reached>>  BY <1>2, <2>4 DEF OnUartRx
    <3> QED  BY <2>1, <2>2, <3>1 DEF WindowInv
  <2> QED  BY <2>3, <2>4
<1>3. CASE OnSynth
  <2>1. UNCHANGED <<running, stopping, abort, pc, left, tele>> /\ hw.slice /\ Fills
    BY <1>3 DEF OnSynth, cmds, status
  <2>2. Stale' = Stale  BY <2>1 DEF Stale
  <2>3. pc = "synth"  BY <2>1, Drivers
  <2>4. reached' => peak'  BY <2>1, <2>3 DEF Fills, WindowInv
  <2> QED  BY <2>1, <2>2, <2>3, <2>4 DEF WindowInv
<1>4. CASE OnRxDma \/ TxEnds \/ DeadlinePasses \/ UNCHANGED vars
  <2>1. UNCHANGED <<running, stopping, abort, pc, left, tele, peak, reached>>
    BY <1>4 DEF OnRxDma, TxEnds, DeadlinePasses, vars, cmds, status, window
  <2>2. Stale' = Stale  BY <2>1 DEF Stale
  <2> QED  BY <2>1, <2>2 DEF WindowInv
<1>5. CASE Begin
  <2>1. /\ pc = "idle" /\ running' = TRUE /\ abort' = FALSE /\ stopping' = stopping
        /\ request # "none" /\ StartPoint(Pause(hw), request, 0)
    BY <1>5 DEF Begin
  <2>2. request \in Kinds  BY <1>1, <2>1 DEF TypeOK
  <2>3. 0 \in 0 .. Total[request] - 1  BY <2>2, TotalType
  <2>4. pc' \in {"settle", "base"} /\ ~reached' /\ left' > 0
    BY <2>1, <2>2, <2>3, StartWindow
  <2>5. ~stopping  BY <2>1 DEF WindowInv
  <2> QED  BY <2>1, <2>4, <2>5 DEF WindowInv
<1>6. CASE Settled
  <2>1. /\ Awake("settle") /\ pc' = "uart" /\ pc = "settle"
        /\ UNCHANGED <<running, stopping, abort, tele, peak, reached>>
    BY <1>6 DEF Settled, Awake, cmds, status
  <2>2. ~Stale  BY <2>1, NotStale
  <2>3. ~Stale'  BY <2>1, <2>2 DEF Stale
  <2> QED  BY <2>1, <2>3 DEF WindowInv
<1>7. CASE UartOver
  <2>1. /\ Awake("uart") /\ pc = "uart" /\ \E h : Proceed(h)
        /\ UNCHANGED <<cmds, running, tele, peak>>
    BY <1>7 DEF UartOver, Awake
  <2>2. ~Stale  BY <2>1, NotStale
  <2> QED  BY <1>1, <2>1, <2>2, ProceedWindow
<1>8. CASE BaseOver
  <2>1. /\ Awake("base") /\ pc = "base" /\ \E h : Proceed(h)
        /\ UNCHANGED <<cmds, running, tele, peak>>
    BY <1>8 DEF BaseOver, Awake
  <2>2. ~Stale  BY <2>1, NotStale
  <2> QED  BY <1>1, <2>1, <2>2, ProceedWindow
<1>9. CASE SynthOver
  <2>1. /\ Awake("synth") /\ pc = "synth" /\ \E h : Proceed(h)
        /\ UNCHANGED <<cmds, running, tele, peak>>
    BY <1>9 DEF SynthOver, Awake
  <2>2. ~Stale  BY <2>1, NotStale
  <2> QED  BY <1>1, <2>1, <2>2, ProceedWindow
<1>10. CASE CalmOver
  BY <1>10 DEF CalmOver, WindowInv, Stale
<1>11. CASE Packet
  <2>1. /\ UNCHANGED <<running, stopping, abort, pc, peak, reached>>
        /\ tele' = [tele EXCEPT !.pc = "row", !.running = running]
    BY <1>11 DEF Packet, cmds, status, window
  <2>2. tele'.running = running
    BY <1>1, <2>1 DEF TypeOK, TeleType
  <2>3. ~Stale'  BY <2>1, <2>2 DEF Stale
  <2> QED  BY <2>1, <2>3 DEF WindowInv
<1>12. CASE TakeRow \/ PrintHist \/ Store
  <2>1. UNCHANGED <<running, stopping, abort, pc, left, peak, reached>>
    BY <1>12 DEF TakeRow, PrintHist, Store, cmds, status, window
  <2>2. tele.pc # "wait" /\ tele'.running = tele.running
    <3>1. CASE TakeRow  BY <1>1, <3>1 DEF TakeRow, TypeOK, TeleType
    <3>2. CASE PrintHist  BY <1>1, <3>2 DEF PrintHist, TypeOK, TeleType
    <3>3. CASE Store  BY <1>1, <3>3 DEF Store, TypeOK, TeleType
    <3> QED  BY <1>12, <3>1, <3>2, <3>3
  <2>3. Stale' => Stale  BY <2>1, <2>2 DEF Stale
  <2> QED  BY <2>1, <2>3 DEF WindowInv
<1>13. CASE Command
  <2>1. /\ UNCHANGED <<running, pc, left, peak, reached>>
        /\ \E cmd : /\ abort' = (abort \/ cmd = "abort")
                    /\ stopping' = (stopping \/ (cmd = "abort" /\ running))
    BY <1>13 DEF Command, status, window
  <2>2. stopping' => abort' /\ running'  BY <2>1 DEF WindowInv
  <2>3. tele.pc # "wait" /\ tele'.running = tele.running
    BY <1>1, <1>13 DEF Command, TypeOK, TeleType
  <2>4. Stale' => Stale  BY <2>1, <2>3 DEF Stale
  <2> QED  BY <2>1, <2>2, <2>4 DEF WindowInv
<1>14. CASE Send
  <2>1. /\ UNCHANGED <<running, stopping, abort, pc, left, reached>>
        /\ tele.pc = "send" /\ tele' = Resting /\ peak' = (peak /\ tele.running)
    BY <1>14 DEF Send, KeepsWindow, cmds, status
  <2>2. ~Stale'  BY <2>1 DEF Stale, Resting
  <2>3. pc \in {"uart", "synth"} => tele.running
    BY <2>1 DEF WindowInv, Stale
  <2> QED  BY <2>1, <2>2, <2>3 DEF WindowInv
<1> QED
  BY <1>2, <1>3, <1>4, <1>5, <1>6, <1>7, <1>8, <1>9, <1>10, <1>11, <1>12, <1>13, <1>14
  DEF Next, SweepTask, Telemetry

\* A stop that is read while a sweep runs is heeded at the end of the point, and
\* the sweep that begins takes back none (sweep_abort, sweep_task).
THEOREM StopIsHeeded == Spec => StopHeeded
<1> DEFINE Heeds == stopping => (running' => running) /\ point' = point
<1>1. IInv /\ WindowInv /\ [Next]_vars => [Heeds]_vars
  <2> SUFFICES ASSUME IInv, WindowInv, Next, stopping
               PROVE  (running' => running) /\ point' = point
    OBVIOUS
  <2>1. abort /\ running /\ pc # "idle"  BY DEF WindowInv
  <2>2. CASE Begin  BY <2>1, <2>2 DEF Begin
  <2>3. CASE UartOver \/ BaseOver \/ SynthOver
    <3>1. \E h : Proceed(h)  BY <2>3 DEF UartOver, BaseOver, SynthOver
    <3> QED  BY <2>1, <3>1 DEF Proceed
  <2>4. CASE Settled  BY <2>1, <2>4 DEF Settled, status
  <2>5. CASE CalmOver  BY <2>1, <2>5 DEF CalmOver
  <2>6. CASE Telemetry \/ OnUartRx \/ OnRxDma \/ OnSynth \/ TxEnds \/ DeadlinePasses
    <3>1. CASE Packet  BY <2>1, <3>1 DEF Packet, status
    <3>2. CASE TakeRow  BY <2>1, <3>2 DEF TakeRow, status
    <3>3. CASE PrintHist  BY <2>1, <3>3 DEF PrintHist, status
    <3>4. CASE Command  BY <2>1, <3>4 DEF Command, status
    <3>5. CASE Store  BY <2>1, <3>5 DEF Store, status
    <3>6. CASE Send  BY <2>1, <3>6 DEF Send, status
    <3>7. CASE OnUartRx  BY <2>1, <3>7 DEF OnUartRx, status
    <3>8. CASE OnRxDma  BY <2>1, <3>8 DEF OnRxDma, status
    <3>9. CASE OnSynth  BY <2>1, <3>9 DEF OnSynth, status
    <3>10. CASE TxEnds  BY <2>1, <3>10 DEF TxEnds, status
    <3>11. CASE DeadlinePasses  BY <2>1, <3>11 DEF DeadlinePasses, status
    <3> QED
      BY <2>6, <3>1, <3>2, <3>3, <3>4, <3>5, <3>6, <3>7, <3>8, <3>9, <3>10, <3>11
      DEF Telemetry
  <2> QED  BY <2>2, <2>3, <2>4, <2>5, <2>6 DEF Next, SweepTask
<1> QED
  BY InitInv, NextInv, WindowStart, WindowNext, <1>1, PTL DEF Spec, StopHeeded


(***************************************************************************)
(* The rows.                                                               *)
(***************************************************************************)
Row == [index : Nat, peak : BOOLEAN]
Active == {"settle", "uart", "base", "synth"}

\* A row that is sent is behind the others.
LEMMA PublishIs ==
  ASSUME TypeOK, Publish
  PROVE  /\ rows \in Seq(Row) /\ [index |-> point, peak |-> peak] \in Row
         /\ Len(rows) \in Nat
         /\ Len(rows) < RowQueue => rows' = Append(rows, [index |-> point, peak |-> peak])
         /\ ~(Len(rows) < RowQueue) => rows' = rows
<1>1. rows \in Seq(Row) /\ point \in Nat /\ peak \in BOOLEAN
  BY TotalType DEF TypeOK, Row
<1>2. Len(rows) \in Nat  BY <1>1, LenProperties
<1>3. RowQueue \in Nat  BY SweepAssumption
<1> QED  BY <1>1, <1>2, <1>3 DEF Publish, Row

\* The ring peak of a row is no less than that of its window, although the
\* telemetry task goes by a status as old as its packet (engine_reset_window).
THEOREM PeakIsNotLost == Spec => PeakNotLost
<1> DEFINE Shown == Len(rows') > Len(rows) => (reached => rows'[Len(rows')].peak)
<1>1. IInv /\ WindowInv /\ [Next]_vars => [Shown]_vars
  <2> SUFFICES ASSUME IInv, WindowInv, Next PROVE Shown  OBVIOUS
  <2>1. TypeOK /\ rows \in Seq(Row) /\ Len(rows) \in Nat
    <3>1. TypeOK /\ rows \in Seq(Row)  BY DEF IInv, TypeOK, Row
    <3> QED  BY <3>1, LenProperties
  <2>2. CASE UartOver \/ BaseOver \/ SynthOver
    <3>1. Publish /\ pc \in {"uart", "base", "synth"}
      BY <2>2 DEF UartOver, BaseOver, SynthOver, Awake
    <3>2. reached => peak  BY <3>1 DEF WindowInv
    <3> DEFINE new == [index |-> point, peak |-> peak]
    <3>3. new \in Row /\ new.peak = peak
          /\ (rows' = Append(rows, new) \/ rows' = rows)
      BY <2>1, <3>1, PublishIs
    <3>4. CASE rows' = rows  BY <2>1, <3>4
    <3>5. CASE rows' = Append(rows, new)
      <4> HIDE DEF new
      <4>1. Len(rows') = Len(rows) + 1 /\ rows'[Len(rows) + 1] = new
        BY <2>1, <3>3, <3>5, AppendProperties
      <4>2. rows'[Len(rows')] = new  BY <4>1
      <4> QED  BY <3>2, <3>3, <4>2
    <3> QED  BY <3>3, <3>4, <3>5
  <2>3. CASE TakeRow
    <3>1. CASE rows = <<>>  BY <2>1, <2>3, <3>1 DEF TakeRow
    <3>2. CASE rows # <<>>
      <4>1. rows' = Tail(rows)  BY <2>3, <3>2 DEF TakeRow
      <4>2. Len(Tail(rows)) = Len(rows) - 1  BY <2>1, <3>2, HeadTailProperties
      <4>3. Len(rows') = Len(rows) - 1  BY <4>1, <4>2
      <4>4. ~(Len(rows) - 1 > Len(rows))  BY <2>1
      <4> QED  BY <4>3, <4>4
    <3> QED  BY <3>1, <3>2
  <2>4. CASE ~(UartOver \/ BaseOver \/ SynthOver) /\ ~TakeRow
    <3>1. rows' = rows
      <4>1. CASE OnUartRx  BY <4>1 DEF OnUartRx
      <4>2. CASE OnRxDma  BY <4>2 DEF OnRxDma
      <4>3. CASE OnSynth  BY <4>3 DEF OnSynth
      <4>4. CASE TxEnds  BY <4>4 DEF TxEnds
      <4>5. CASE DeadlinePasses  BY <4>5 DEF DeadlinePasses
      <4>6. CASE Begin  BY <4>6 DEF Begin
      <4>7. CASE Settled  BY <4>7 DEF Settled
      <4>8. CASE CalmOver  BY <4>8 DEF CalmOver
      <4>9. CASE Packet  BY <4>9 DEF Packet
      <4>10. CASE PrintHist  BY <4>10 DEF PrintHist
      <4>11. CASE Command  BY <4>11 DEF Command
      <4>12. CASE Store  BY <4>12 DEF Store
      <4>13. CASE Send  BY <4>13 DEF Send
      <4> QED
        BY <2>4, <4>1, <4>2, <4>3, <4>4, <4>5, <4>6, <4>7, <4>8, <4>9, <4>10, <4>11,
           <4>12, <4>13
        DEF Next, SweepTask, Telemetry
    <3>2. ~(Len(rows) > Len(rows))  BY <2>1
    <3> QED  BY <3>1, <3>2
  <2> QED  BY <2>2, <2>3, <2>4
<1> QED
  BY InitInv, NextInv, WindowStart, WindowNext, <1>1, PTL DEF Spec, PeakNotLost, Last


\* Rows in the queue while a delay has l periods to go and d takes are due: each
\* period that has gone has brought one.
AtMost(q, start, l, d) == q = 0 \/ q <= start + l + d

\* There is a place for the row of the point, however few packets there were:
\* q rows in the delay w at the point p.
Fits(w, p, q, l, d) ==
  /\ w = "idle" => q <= (RowQueue - 1) + d
  /\ w = "settle" => AtMost(q, (RowQueue - 1) - SettlePackets, l, d)
  /\ w = "uart" => q <= (RowQueue - 2) + d
  /\ w = "base" \/ (w = "synth" /\ ~IsFast(p))
       => AtMost(q, (RowQueue - 1) - PointPackets, l, d)
  /\ w = "synth" /\ IsFast(p) => q <= (1 + p.rate) - FastSynth
  /\ w = "calm" => AtMost(q, RowQueue - CalmPackets, l, d)

\* The take that a packet has still to make.
Due == IF tele.pc = "row" THEN 1 ELSE 0

QueueInv == Fits(pc, Current, Len(rows), left, Due)

LEMMA Paces ==
  /\ RowQueue \in Nat /\ RowQueue > 1
  /\ SettlePackets \in Nat /\ SettlePackets > 0
  /\ CalmPackets \in Nat /\ CalmPackets > 0
  /\ PointPackets \in Nat /\ PointPackets >= RowQueue
  /\ SynthRates \in Nat /\ FastSynth \in Nat
  /\ RowQueue > (SynthRates - FastSynth) + 1
BY SweepAssumption, PaceAssumption

\* A packet takes a period off the delay, and will take a row.
LEMMA FitsPacket ==
  ASSUME NEW w, NEW p, p.rate \in Nat, NEW q \in Nat, NEW l \in Nat, Fits(w, p, q, l, 0)
  PROVE  Fits(w, p, q, IF l = 0 THEN 0 ELSE l - 1, 1)
<1> DEFINE m == IF l = 0 THEN 0 ELSE l - 1
<1>1. m \in Nat /\ m + 1 >= l  OBVIOUS
<1> HIDE DEF m
<1>2. \A s \in Int : AtMost(q, s, l, 0) => AtMost(q, s, m, 1)  BY <1>1 DEF AtMost
<1>3. Fits(w, p, q, m, 1)  BY <1>2, Paces DEF Fits
<1> QED  BY <1>3 DEF m

\* The take itself.
LEMMA FitsTake ==
  ASSUME NEW w, NEW p, p.rate \in Nat, NEW q \in Nat, NEW l \in Nat, Fits(w, p, q, l, 1)
  PROVE  /\ q = 0 => Fits(w, p, 0, l, 0)
         /\ q > 0 => Fits(w, p, q - 1, l, 0)
<1>1. \A s \in Int : AtMost(q, s, l, 1) =>
        (q = 0 => AtMost(0, s, l, 0)) /\ (q > 0 => AtMost(q - 1, s, l, 0))
  BY DEF AtMost
<1> QED  BY <1>1, Paces DEF Fits

\* Where a row is published there is a place for it.
LEMMA FitsOne ==
  ASSUME NEW w \in {"uart", "base", "synth"}, NEW p, NEW q \in Nat, NEW d \in {0, 1},
         p.rate \in 0 .. SynthRates \/ w # "synth", Fits(w, p, q, 0, d)
  PROVE  /\ q < RowQueue
         /\ q + 1 <= (RowQueue - 1) + d \/ w = "synth"
         /\ w = "base" \/ (w = "synth" /\ ~IsFast(p)) => q = 0
<1>1. CASE w = "uart"  BY <1>1, Paces DEF Fits
<1>2. CASE w = "base" \/ (w = "synth" /\ ~IsFast(p))
  <2>1. AtMost(q, (RowQueue - 1) - PointPackets, 0, d)  BY <1>2 DEF Fits
  <2>2. q = 0  BY <2>1, Paces DEF AtMost
  <2> QED  BY <1>2, <2>2, Paces
<1>3. CASE w = "synth" /\ IsFast(p)
  <2>1. q <= (1 + p.rate) - FastSynth /\ p.rate \in 0 .. SynthRates  BY <1>3 DEF Fits
  <2>2. q < RowQueue  BY <2>1, Paces
  <2> QED  BY <1>3, <2>2
<1> QED  BY <1>1, <1>2, <1>3

\* The point begins with no more rows than there are places but one, or with what
\* the rates that starve have left.
LEMMA StartFits ==
  ASSUME NEW h, NEW k \in Kinds, NEW i \in 0 .. Total[k] - 1, StartPoint(h, k, i),
         NEW q \in Nat, NEW d \in {0, 1},
         PointOf(k, i).source # "synth" \/ ~IsFast(PointOf(k, i)) => q <= (RowQueue - 1) + d,
         PointOf(k, i).source = "synth" /\ IsFast(PointOf(k, i))
           => q <= (1 + PointOf(k, i).rate) - FastSynth
  PROVE  Fits(pc', Current', q, left', d)
<1> DEFINE p == PointOf(k, i)
<1>1. p.source \in {"uart", "base", "synth"} /\ Current' = p
  BY PointType DEF StartPoint, Current
<1>2. CASE p.source = "uart"
  <2>1. pc' = "settle" /\ left' = SettlePackets  BY <1>2 DEF StartPoint
  <2>2. AtMost(q, (RowQueue - 1) - SettlePackets, SettlePackets, d)
    BY <1>2, Paces DEF AtMost
  <2>3. Fits("settle", p, q, SettlePackets, d)  BY <2>2 DEF Fits
  <2> QED  BY <1>1, <2>1, <2>3
<1>3. CASE p.source = "base" \/ (p.source = "synth" /\ ~IsFast(p))
  <2>1. ~IsFast(p) /\ p.source # "uart"  BY <1>3 DEF IsFast
  <2>2. pc' = p.source /\ left' = PointPackets  BY <2>1 DEF StartPoint
  <2>3. q <= (RowQueue - 1) + d  BY <1>3
  <2>4. AtMost(q, (RowQueue - 1) - PointPackets, PointPackets, d)
    BY <2>3, Paces DEF AtMost
  <2>5. Fits(p.source, p, q, PointPackets, d)  BY <1>3, <2>1, <2>4 DEF Fits
  <2> QED  BY <1>1, <2>2, <2>5
<1>4. CASE p.source = "synth" /\ IsFast(p)
  <2>1. pc' = "synth" /\ left' = 0  BY <1>4 DEF StartPoint
  <2>2. Fits("synth", p, q, 0, d)  BY <1>4 DEF Fits
  <2> QED  BY <1>1, <2>1, <2>2
<1> QED  BY <1>1, <1>2, <1>3, <1>4

\* What the point is, in the delay that ends it.
LEMMA CurrentIs ==
  ASSUME TypeOK, SourceInv, pc \in {"uart", "base", "synth"}
  PROVE  /\ kind \in Kinds /\ point \in 0 .. Total[kind] - 1 /\ Total[kind] \in Nat
         /\ Current = PointOf(kind, point) /\ Current.source = pc
         /\ pc # "uart" => Current.rate \in 0 .. SynthRates
<1>1. kind \in Kinds /\ point \in 0 .. Total[kind] - 1 /\ Total[kind] \in Nat
  BY TotalType DEF TypeOK
<1>2. Current = PointOf(kind, point) /\ Current.source = pc  BY DEF Current, SourceInv
<1>3. pc # "uart" => Current.rate \in 0 .. SynthRates
  BY <1>1, <1>2, PointIs, HandlerPointIs
<1> QED  BY <1>1, <1>2, <1>3

\* The row is published and the sweep goes on.
LEMMA ProceedFits ==
  ASSUME TypeOK, SourceInv, QueueInv, pc \in {"uart", "base", "synth"}, left = 0,
         NEW h, Proceed(h), Publish, tele' = tele
  PROVE  QueueInv' /\ Len(rows) < RowQueue
<1> DEFINE q == Len(rows)
           d == Due
           p == Current
<1>1. /\ kind \in Kinds /\ point \in 0 .. Total[kind] - 1 /\ Total[kind] \in Nat
      /\ p = PointOf(kind, point) /\ p.source = pc
      /\ pc # "uart" => p.rate \in 0 .. SynthRates
  BY CurrentIs
<1>2. q \in Nat /\ d \in {0, 1}  BY PublishIs DEF Due
<1>3. Fits(pc, p, q, 0, d)  BY DEF QueueInv
<1>4. rows \in Seq(Row) /\ [index |-> point, peak |-> peak] \in Row
      /\ (q < RowQueue => rows' = Append(rows, [index |-> point, peak |-> peak]))
  BY PublishIs
<1>5. Due' = d  BY DEF Due
<1> HIDE DEF q, d, p
<1>6. /\ q < RowQueue
      /\ q + 1 <= (RowQueue - 1) + d \/ pc = "synth"
      /\ pc = "base" \/ (pc = "synth" /\ ~IsFast(p)) => q = 0
  BY <1>1, <1>2, <1>3, FitsOne
<1>7. Len(rows') = q + 1
  <2> DEFINE new == [index |-> point, peak |-> peak]
  <2>1. new \in Row /\ rows' = Append(rows, new)  BY <1>4, <1>6
  <2> HIDE DEF new
  <2>2. Len(Append(rows, new)) = Len(rows) + 1  BY <1>4, <2>1, AppendProperties
  <2> QED  BY <2>1, <2>2 DEF q
<1>8. CASE ~abort /\ point + 1 < Total[kind]
  <2> DEFINE i == point + 1
             r == PointOf(kind, i)
  <2>1. StartPoint(h, kind, i)  BY <1>8 DEF Proceed
  <2>2. i \in 0 .. Total[kind] - 1 /\ i - 1 = point  BY <1>1, <1>8
  <2> HIDE DEF i
  <2>3. r.source = "synth" =>
          /\ pc \in {"base", "synth"} /\ r.rate \in 1 .. SynthRates /\ r.rate = p.rate + 1
    BY <1>1, <2>2, SynthAfter
  <2>4. r.source \in {"uart", "base"} => pc # "synth" /\ (pc = "base" => r.source # "base")
    BY <1>1, <2>2, PointAfter DEF p
  <2>5. r.source # "synth" \/ ~IsFast(r) => q + 1 <= (RowQueue - 1) + d
    <3>1. CASE r.source # "synth"
      <4>1. r.source \in {"uart", "base", "synth"}  BY <1>1, <2>2, PointType
      <4> QED  BY <1>6, <2>4, <3>1, <4>1
    <3>2. CASE r.source = "synth" /\ ~IsFast(r)
      <4>1. ~(r.rate >= FastSynth)  BY <3>2 DEF IsFast
      <4>2. ~(p.rate >= FastSynth)  BY <1>1, <2>3, <3>2, <4>1, Paces
      <4>3. p.source \in {"base", "synth"} /\ ~IsFast(p)
        BY <1>1, <2>3, <3>2, <4>2 DEF IsFast
      <4>4. q = 0  BY <1>1, <1>6, <4>3
      <4> QED  BY <1>2, <4>4, Paces
    <3> QED  BY <3>1, <3>2
  <2>6. r.source = "synth" /\ IsFast(r) => q + 1 <= (1 + r.rate) - FastSynth
    <3> SUFFICES ASSUME r.source = "synth", IsFast(r)
                 PROVE  q + 1 <= (1 + r.rate) - FastSynth
      OBVIOUS
    <3>1. r.rate >= FastSynth /\ r.rate \in Nat /\ p.rate \in Nat /\ r.rate = p.rate + 1
      BY <1>1, <2>3, Paces DEF IsFast
    <3>2. CASE q = 0  BY <3>1, <3>2, Paces
    <3>3. CASE q # 0
      <4>1. pc = "synth" /\ IsFast(p)  BY <1>6, <2>3, <3>3
      <4>2. q <= (1 + p.rate) - FastSynth  BY <1>3, <4>1 DEF Fits
      <4> QED  BY <1>2, <3>1, <4>2, Paces
    <3> QED  BY <3>2, <3>3
  <2>7. q + 1 \in Nat  BY <1>2
  <2>8. Fits(pc', Current', q + 1, left', d)
    BY <1>1, <1>2, <2>1, <2>2, <2>5, <2>6, <2>7, StartFits, Zenon
  <2> QED  BY <1>5, <1>6, <1>7, <2>8 DEF QueueInv, q
<1>9. CASE ~(~abort /\ point + 1 < Total[kind])
  <2>1. pc' = "calm" /\ left' = CalmPackets  BY <1>9 DEF Proceed
  <2>2. AtMost(q + 1, RowQueue - CalmPackets, CalmPackets, d)
    BY <1>2, <1>6, Paces DEF AtMost
  <2>3. \A x : Fits("calm", x, q + 1, CalmPackets, d)  BY <2>2 DEF Fits
  <2> QED  BY <1>5, <1>6, <1>7, <2>1, <2>3 DEF QueueInv, q
<1> QED  BY <1>8, <1>9


\* Rows taken and rows that come with a packet.
LEMMA CurrentRate ==
  ASSUME TypeOK PROVE Current.rate \in Nat
<1>1. kind \in Kinds /\ point \in 0 .. Total[kind] - 1  BY DEF TypeOK
<1>2. SynthRates \in Nat /\ Bauds \in Nat  BY SweepAssumption
<1>3. CASE Current.source = "uart"
  BY <1>1, <1>2, <1>3, PointType DEF Current
<1>4. CASE Current.source # "uart"
  BY <1>1, <1>2, <1>4, PointIs, HandlerPointIs DEF Current
<1> QED  BY <1>3, <1>4

LEMMA QueueStart == Init => QueueInv
<1> SUFFICES ASSUME Init PROVE QueueInv  OBVIOUS
<1>1. pc = "idle" /\ Len(rows) = 0 /\ Due = 0  BY DEF Init, Due, Resting
<1> QED  BY <1>1, Paces DEF QueueInv, Fits

LEMMA QueueNext ==
  ASSUME IInv, SourceInv, QueueInv, [Next]_vars
  PROVE  QueueInv'
<1> DEFINE q == Len(rows)
           d == Due
           p == Current
<1>1. /\ TypeOK /\ left \in Nat /\ rows \in Seq(Row) /\ q \in Nat /\ d \in {0, 1}
      /\ q <= RowQueue /\ p.rate \in Nat
  <2>1. TypeOK /\ rows \in Seq(Row)  BY DEF IInv, TypeOK, Row
  <2>2. Len(rows) \in Nat  BY <2>1, LenProperties
  <2> QED  BY <2>1, <2>2, CurrentRate DEF TypeOK, Due
<1>2. Fits(pc, p, q, left, d)  BY DEF QueueInv
<1>3. CASE UartOver
  <2>1. /\ pc = "uart" /\ left = 0 /\ \E h : Proceed(h)
        /\ Publish /\ tele' = tele
    BY <1>3 DEF UartOver, Awake
  <2> QED  BY <1>1, <2>1, ProceedFits
<1>4. CASE BaseOver
  <2>1. /\ pc = "base" /\ left = 0 /\ \E h : Proceed(h)
        /\ Publish /\ tele' = tele
    BY <1>4 DEF BaseOver, Awake
  <2> QED  BY <1>1, <2>1, ProceedFits
<1>5. CASE SynthOver
  <2>1. /\ pc = "synth" /\ left = 0 /\ \E h : Proceed(h)
        /\ Publish /\ tele' = tele
    BY <1>5 DEF SynthOver, Awake
  <2> QED  BY <1>1, <2>1, ProceedFits
<1>6. CASE Begin
  <2>1. /\ pc = "idle" /\ request # "none" /\ StartPoint(Pause(hw), request, 0)
        /\ UNCHANGED <<rows, tele>>
    BY <1>6 DEF Begin
  <2>2. request \in Kinds  BY <1>1, <2>1 DEF TypeOK
  <2>3. 0 \in 0 .. Total[request] - 1 /\ PointOf(request, 0).source \in {"uart", "base"}
    BY <2>2, TotalType, FirstPoint
  <2>4. q <= (RowQueue - 1) + d  BY <1>2, <2>1 DEF Fits
  <2> HIDE DEF q, d, p
  <2>5. Fits(pc', Current', q, left', d)
    BY <1>1, <2>1, <2>2, <2>3, <2>4, StartFits
  <2>6. Len(rows') = q /\ Due' = d  BY <2>1 DEF q, d, Due
  <2> QED  BY <2>5, <2>6 DEF QueueInv
<1>7. CASE Settled
  <2>1. /\ pc = "settle" /\ left = 0 /\ pc' = "uart" /\ UNCHANGED <<rows, tele>>
    BY <1>7 DEF Settled, Awake
  <2>2. AtMost(q, (RowQueue - 1) - SettlePackets, 0, d)  BY <1>2, <2>1 DEF Fits
  <2> HIDE DEF q, d, p
  <2>3. q <= (RowQueue - 2) + d  BY <1>1, <2>2, Paces DEF AtMost
  <2>4. \A x, l : Fits("uart", x, q, l, d)  BY <2>3 DEF Fits
  <2>5. Len(rows') = q /\ Due' = d  BY <2>1 DEF q, d, Due
  <2> QED  BY <2>1, <2>4, <2>5 DEF QueueInv
<1>8. CASE CalmOver
  <2>1. /\ pc = "calm" /\ left = 0 /\ pc' = "idle" /\ UNCHANGED <<rows, tele>>
    BY <1>8 DEF CalmOver, Awake
  <2>2. AtMost(q, RowQueue - CalmPackets, 0, d)  BY <1>2, <2>1 DEF Fits
  <2> HIDE DEF q, d, p
  <2>3. q <= (RowQueue - 1) + d  BY <1>1, <2>2, Paces DEF AtMost
  <2>4. \A x, l : Fits("idle", x, q, l, d)  BY <2>3 DEF Fits
  <2>5. Len(rows') = q /\ Due' = d  BY <2>1 DEF q, d, Due
  <2> QED  BY <2>1, <2>4, <2>5 DEF QueueInv
<1>9. CASE Packet
  <2>1. /\ tele.pc = "wait" /\ tele' = [tele EXCEPT !.pc = "row", !.running = running]
        /\ left' = (IF left = 0 THEN 0 ELSE left - 1)
        /\ UNCHANGED <<pc, rows, kind, point>>
    BY <1>9 DEF Packet, status
  <2>2. tele'.pc = "row"  BY <1>1, <2>1 DEF TypeOK, TeleType
  <2>3. d = 0 /\ Due' = 1 /\ Len(rows') = q /\ Current' = p
    BY <2>1, <2>2 DEF Due, Current
  <2> HIDE DEF q, d, p
  <2>4. Fits(pc, p, q, IF left = 0 THEN 0 ELSE left - 1, 1)
    BY <1>1, <1>2, <2>3, FitsPacket
  <2> QED  BY <2>1, <2>3, <2>4 DEF QueueInv
<1>10. CASE TakeRow
  <2>1. /\ tele.pc = "row" /\ UNCHANGED <<pc, left, kind, point>>
        /\ tele'.pc # "row"
        /\ rows = <<>> => rows' = rows
        /\ rows # <<>> => rows' = Tail(rows)
    BY <1>1, <1>10 DEF TakeRow, status, TypeOK, TeleType
  <2>2. d = 1 /\ Due' = 0 /\ Current' = p  BY <2>1 DEF Due, Current
  <2>3. /\ rows = <<>> => q = 0 /\ Len(rows') = 0
        /\ rows # <<>> => q > 0 /\ Len(rows') = q - 1
    <3>1. rows # <<>> => Len(Tail(rows)) = Len(rows) - 1 /\ Len(rows) > 0
      BY <1>1, HeadTailProperties, EmptySeq
    <3> QED  BY <2>1, <3>1
  <2> HIDE DEF q, d, p
  <2>4. /\ q = 0 => Fits(pc, p, 0, left, 0)
        /\ q > 0 => Fits(pc, p, q - 1, left, 0)
    BY <1>1, <1>2, <2>2, FitsTake
  <2> QED  BY <2>1, <2>2, <2>3, <2>4 DEF QueueInv
<1>11. CASE PrintHist \/ Command \/ Store \/ Send
  <2>1. UNCHANGED <<pc, left, rows, kind, point>>
    <3>1. CASE PrintHist  BY <3>1 DEF PrintHist, status
    <3>2. CASE Command  BY <3>2 DEF Command, status
    <3>3. CASE Store  BY <3>3 DEF Store, status
    <3>4. CASE Send  BY <3>4 DEF Send, status
    <3> QED  BY <1>11, <3>1, <3>2, <3>3, <3>4
  <2>2. tele.pc # "row" /\ tele'.pc # "row"
    <3>1. CASE PrintHist  BY <1>1, <3>1 DEF PrintHist, TypeOK, TeleType
    <3>2. CASE Command  BY <1>1, <3>2 DEF Command, TypeOK, TeleType
    <3>3. CASE Store  BY <1>1, <3>3 DEF Store, TypeOK, TeleType
    <3>4. CASE Send  BY <3>4 DEF Send, Resting
    <3> QED  BY <1>11, <3>1, <3>2, <3>3, <3>4
  <2>3. Due' = Due /\ Current' = Current  BY <2>1, <2>2 DEF Due, Current
  <2> QED  BY <2>1, <2>3 DEF QueueInv
<1>12. CASE OnUartRx \/ OnRxDma \/ OnSynth \/ TxEnds \/ DeadlinePasses \/ UNCHANGED vars
  <2>1. UNCHANGED <<pc, left, rows, kind, point, tele>>
    BY <1>12 DEF OnUartRx, OnRxDma, OnSynth, TxEnds, DeadlinePasses, vars, status
  <2>2. Due' = Due /\ Current' = Current  BY <2>1 DEF Due, Current
  <2> QED  BY <2>1, <2>2 DEF QueueInv
<1> QED
  BY <1>3, <1>4, <1>5, <1>6, <1>7, <1>8, <1>9, <1>10, <1>11, <1>12
  DEF Next, SweepTask, Telemetry


\* The index of the row published last, as far as the sweep has come: at point i,
\* in the delay w.
Newest(n, w, i) ==
  /\ w = "calm" => n = i
  /\ w \in Active /\ i > 0 => n = i - 1

\* The rows rs and the row of the packet follow one another up to there.
InRow(rs, row, w, i) ==
  /\ \A j \in 1 .. Len(rs) - 1 : Follows(rs[j + 1], rs[j])
  /\ rs # <<>> /\ row # NoRow => Follows(rs[1], row)
  /\ rs # <<>> => Newest(rs[Len(rs)].index, w, i)
  /\ rs = <<>> /\ row # NoRow => Newest(row.index, w, i)

RowsInv == InRow(rows, tele.row, pc, point)

\* The sweep goes on to where the last row is as far along as it was.
LEMMA InRowMoved ==
  ASSUME NEW rs, NEW row, NEW w, NEW i, NEW v, NEW k, InRow(rs, row, w, i),
         \A n : Newest(n, w, i) => Newest(n, v, k)
  PROVE  InRow(rs, row, v, k)
BY DEF InRow

\* The packet is over.
LEMMA InRowSent ==
  ASSUME NEW rs, NEW row, NEW w, NEW i, InRow(rs, row, w, i)
  PROVE  InRow(rs, NoRow, w, i)
BY DEF InRow

\* The first row is taken.
LEMMA InRowTaken ==
  ASSUME NEW rs \in Seq(Row), rs # <<>>, NEW row, NEW w, NEW i, InRow(rs, row, w, i)
  PROVE  InRow(Tail(rs), Head(rs), w, i)
<1> DEFINE n == Len(rs)
           ts == Tail(rs)
<1>1. /\ n \in Nat /\ n > 0 /\ ts \in Seq(Row) /\ Len(ts) = n - 1
      /\ \A j \in 1 .. Len(ts) : ts[j] = rs[j + 1]
  BY HeadTailProperties, LenProperties, EmptySeq
<1>2. Head(rs) = rs[1]  OBVIOUS
<1>3. /\ \A j \in 1 .. n - 1 : Follows(rs[j + 1], rs[j])
      /\ Newest(rs[n].index, w, i)
  BY DEF InRow
<1>4. ts = <<>> => n = 1  BY <1>1, EmptySeq
<1>5. ts # <<>> => n > 1  BY <1>1, EmptySeq
<1> HIDE DEF n, ts
<1>6. ASSUME NEW j \in 1 .. Len(ts) - 1 PROVE Follows(ts[j + 1], ts[j])
  <2>1. j \in 1 .. Len(ts) /\ j + 1 \in 1 .. Len(ts) /\ j + 1 \in 1 .. n - 1
    BY <1>1, <1>6
  <2>2. ts[j] = rs[j + 1] /\ ts[j + 1] = rs[(j + 1) + 1]  BY <1>1, <2>1
  <2> QED  BY <1>3, <2>1, <2>2
<1>7. ts # <<>> => Follows(ts[1], rs[1]) /\ Newest(ts[Len(ts)].index, w, i)
  <2> SUFFICES ASSUME ts # <<>>
               PROVE  Follows(ts[1], rs[1]) /\ Newest(ts[Len(ts)].index, w, i)
    OBVIOUS
  <2>1. 1 \in 1 .. Len(ts) /\ Len(ts) \in 1 .. Len(ts) /\ 1 \in 1 .. n - 1
        /\ (n - 1) + 1 = n
    BY <1>1, <1>5
  <2>2. ts[1] = rs[1 + 1] /\ ts[Len(ts)] = rs[n]  BY <1>1, <2>1
  <2>3. Follows(rs[1 + 1], rs[1])  BY <1>3, <2>1
  <2> QED  BY <1>3, <2>2, <2>3
<1>8. ts = <<>> => Newest(rs[1].index, w, i)  BY <1>3, <1>4
<1>9. InRow(ts, rs[1], w, i)  BY <1>6, <1>7, <1>8 DEF InRow
<1> QED  BY <1>2, <1>9 DEF ts

\* The row of the point comes behind the others.
LEMMA InRowPublished ==
  ASSUME NEW rs \in Seq(Row), NEW row, NEW w \in Active, NEW i \in Nat,
         InRow(rs, row, w, i), NEW new \in Row, new.index = i
  PROVE  LET all == Append(rs, new)
         IN  /\ InRow(all, row, "calm", i)
             /\ \A v \in Active : InRow(all, row, v, i + 1)
<1> DEFINE n == Len(rs)
           all == Append(rs, new)
<1>1. /\ n \in Nat /\ all \in Seq(Row) /\ all # <<>> /\ Len(all) = n + 1
      /\ \A j \in 1 .. n : all[j] = rs[j]
      /\ all[n + 1] = new
  BY AppendProperties, LenProperties
<1>2. \A m, x : (i = 0 \/ x.index = i - 1) => Follows(new, x)
  BY DEF Follows
<1>3. rs = <<>> <=> n = 0  BY EmptySeq
<1> HIDE DEF n, all
<1>4. ASSUME NEW j \in 1 .. Len(all) - 1 PROVE Follows(all[j + 1], all[j])
  <2>1. j \in 1 .. n  BY <1>1, <1>4
  <2>2. CASE j < n
    <3>1. j + 1 \in 1 .. n /\ j \in 1 .. n - 1  BY <1>1, <2>1, <2>2
    <3>2. all[j + 1] = rs[j + 1] /\ all[j] = rs[j]  BY <1>1, <2>1, <3>1
    <3>3. Follows(rs[j + 1], rs[j])  BY <3>1 DEF InRow, n
    <3> QED  BY <3>2, <3>3
  <2>3. CASE j = n
    <3>1. rs # <<>> /\ all[j] = rs[n] /\ all[j + 1] = new  BY <1>1, <1>3, <2>1, <2>3
    <3>2. Newest(rs[n].index, w, i)  BY <3>1 DEF InRow, n
    <3>3. i = 0 \/ rs[n].index = i - 1  BY <3>2 DEF Newest
    <3> QED  BY <1>2, <3>1, <3>3
  <2> QED  BY <1>1, <2>1, <2>2, <2>3
<1>5. row # NoRow => Follows(all[1], row)
  <2> SUFFICES ASSUME row # NoRow PROVE Follows(all[1], row)  OBVIOUS
  <2>1. CASE rs = <<>>
    <3>1. all[1] = new  BY <1>1, <1>3, <2>1
    <3>2. i = 0 \/ row.index = i - 1  BY <2>1 DEF InRow, Newest
    <3> QED  BY <1>2, <3>1, <3>2
  <2>2. CASE rs # <<>>
    <3>1. 1 \in 1 .. n  BY <1>1, <1>3, <2>2
    <3>2. all[1] = rs[1]  BY <1>1, <3>1
    <3> QED  BY <2>2, <3>2 DEF InRow
  <2> QED  BY <2>1, <2>2
<1>6. all[Len(all)].index = i  BY <1>1
<1>7. Newest(i, "calm", i) /\ \A v \in Active : Newest(i, v, i + 1)
  BY DEF Newest, Active
<1>8. /\ InRow(all, row, "calm", i)
      /\ \A v \in Active : InRow(all, row, v, i + 1)
  BY <1>1, <1>4, <1>5, <1>6, <1>7 DEF InRow
<1> QED  BY <1>8 DEF all

LEMMA RowsStart == Init => RowsInv
BY DEF Init, RowsInv, InRow, Resting, NoRow

\* The sweep task publishes the row and goes on.
LEMMA ProceedRows ==
  ASSUME TypeOK, SourceInv, QueueInv, RowsInv, pc \in {"uart", "base", "synth"}, left = 0,
         NEW h, Proceed(h), Publish, tele' = tele
  PROVE  RowsInv'
<1> DEFINE new == [index |-> point, peak |-> peak]
           all == Append(rows, new)
<1>1. Len(rows) < RowQueue  BY ProceedFits
<1>2. rows \in Seq(Row) /\ new \in Row /\ rows' = all /\ new.index = point
  BY <1>1, PublishIs
<1>3. /\ kind \in Kinds /\ point \in 0 .. Total[kind] - 1 /\ Total[kind] \in Nat
      /\ point \in Nat /\ pc \in Active
  BY CurrentIs DEF Active
<1> HIDE DEF new
<1>4. InRow(rows, tele.row, pc, point)  BY DEF RowsInv
<1>5. /\ InRow(all, tele.row, "calm", point)
      /\ \A v \in Active : InRow(all, tele.row, v, point + 1)
  BY <1>2, <1>3, <1>4, InRowPublished
<1> HIDE DEF all
<1>6. CASE ~abort /\ point + 1 < Total[kind]
  <2>1. StartPoint(h, kind, point + 1)  BY <1>6 DEF Proceed
  <2>2. point + 1 \in 0 .. Total[kind] - 1  BY <1>3, <1>6
  <2>3. pc' \in Active /\ point' = point + 1
    BY <1>3, <2>1, <2>2, StartWindow DEF Active, StartPoint
  <2>4. InRow(all, tele.row, pc', point + 1)  BY <1>5, <2>3
  <2> QED  BY <1>2, <2>3, <2>4 DEF RowsInv
<1>7. CASE ~(~abort /\ point + 1 < Total[kind])
  <2>1. pc' = "calm" /\ point' = point  BY <1>7 DEF Proceed
  <2> QED  BY <1>2, <1>5, <2>1 DEF RowsInv
<1> QED  BY <1>6, <1>7

LEMMA RowsNext ==
  ASSUME IInv, SourceInv, QueueInv, RowsInv, [Next]_vars
  PROVE  RowsInv'
<1>1. TypeOK /\ rows \in Seq(Row)  BY DEF IInv, TypeOK, Row
<1>2. InRow(rows, tele.row, pc, point)  BY DEF RowsInv
<1>3. CASE UartOver
  <2>1. /\ pc = "uart" /\ left = 0 /\ \E h : Proceed(h)
        /\ Publish /\ tele' = tele
    BY <1>3 DEF UartOver, Awake
  <2> QED  BY <1>1, <2>1, ProceedRows
<1>4. CASE BaseOver
  <2>1. /\ pc = "base" /\ left = 0 /\ \E h : Proceed(h)
        /\ Publish /\ tele' = tele
    BY <1>4 DEF BaseOver, Awake
  <2> QED  BY <1>1, <2>1, ProceedRows
<1>5. CASE SynthOver
  <2>1. /\ pc = "synth" /\ left = 0 /\ \E h : Proceed(h)
        /\ Publish /\ tele' = tele
    BY <1>5 DEF SynthOver, Awake
  <2> QED  BY <1>1, <2>1, ProceedRows
<1>6. CASE Begin
  <2>1. request # "none" /\ StartPoint(Pause(hw), request, 0) /\ UNCHANGED <<rows, tele>>
    BY <1>6 DEF Begin
  <2>2. request \in Kinds  BY <1>1, <2>1 DEF TypeOK
  <2>3. 0 \in 0 .. Total[request] - 1  BY <2>2, TotalType
  <2>4. point' = 0 /\ pc' \in {"settle", "base", "synth"}
    BY <2>1, <2>2, <2>3, StartWindow DEF StartPoint
  <2>5. \A v \in {"settle", "base", "synth"} : \A n : Newest(n, v, 0)  BY DEF Newest
  <2>6. \A v \in {"settle", "base", "synth"} : InRow(rows, tele.row, v, 0)
    BY <1>2, <2>5, InRowMoved
  <2> QED  BY <2>1, <2>4, <2>6 DEF RowsInv
<1>7. CASE Settled
  <2>1. pc = "settle" /\ pc' = "uart" /\ UNCHANGED <<rows, tele, point>>
    BY <1>7 DEF Settled, Awake, status
  <2>2. \A n : Newest(n, "settle", point) => Newest(n, "uart", point)
    BY DEF Newest, Active
  <2>3. InRow(rows, tele.row, "uart", point)  BY <1>2, <2>1, <2>2, InRowMoved
  <2> QED  BY <2>1, <2>3 DEF RowsInv
<1>8. CASE CalmOver
  <2>1. pc' = "idle" /\ UNCHANGED <<rows, tele, point>>  BY <1>8 DEF CalmOver
  <2>2. \A n : Newest(n, "idle", point)  BY DEF Newest, Active
  <2>3. InRow(rows, tele.row, "idle", point)  BY <1>2, <2>2, InRowMoved
  <2> QED  BY <2>1, <2>3 DEF RowsInv
<1>9. CASE TakeRow
  <2>1. UNCHANGED <<pc, point>>  BY <1>9 DEF TakeRow, status
  <2>2. CASE rows = <<>>
    <3>1. tele' = [tele EXCEPT !.pc = "command"] /\ rows' = rows
      BY <1>9, <2>2 DEF TakeRow
    <3>2. tele'.row = tele.row  BY <1>1, <3>1 DEF TypeOK, TeleType
    <3> QED  BY <1>2, <2>1, <3>1, <3>2 DEF RowsInv
  <2>3. CASE rows # <<>>
    <3>1. tele' = [tele EXCEPT !.pc = "hist", !.row = Head(rows)] /\ rows' = Tail(rows)
      BY <1>9, <2>3 DEF TakeRow
    <3>2. tele'.row = Head(rows)  BY <1>1, <3>1 DEF TypeOK, TeleType
    <3>3. InRow(Tail(rows), Head(rows), pc, point)  BY <1>1, <1>2, <2>3, InRowTaken
    <3> QED  BY <2>1, <3>1, <3>2, <3>3 DEF RowsInv
  <2> QED  BY <2>2, <2>3
<1>10. CASE Send
  <2>1. tele'.row = NoRow /\ UNCHANGED <<rows, pc, point>>
    BY <1>10 DEF Send, Resting, status
  <2>2. InRow(rows, NoRow, pc, point)  BY <1>2, InRowSent
  <2> QED  BY <2>1, <2>2 DEF RowsInv
<1>11. CASE Packet \/ PrintHist \/ Command \/ Store
  <2>1. tele'.row = tele.row /\ UNCHANGED <<rows, pc, point>>
    <3>1. CASE Packet  BY <1>1, <3>1 DEF Packet, status, TypeOK, TeleType
    <3>2. CASE PrintHist  BY <1>1, <3>2 DEF PrintHist, status, TypeOK, TeleType
    <3>3. CASE Command  BY <1>1, <3>3 DEF Command, status, TypeOK, TeleType
    <3>4. CASE Store  BY <1>1, <3>4 DEF Store, status, TypeOK, TeleType
    <3> QED  BY <1>11, <3>1, <3>2, <3>3, <3>4
  <2> QED  BY <1>2, <2>1 DEF RowsInv
<1>12. CASE OnUartRx \/ OnRxDma \/ OnSynth \/ TxEnds \/ DeadlinePasses \/ UNCHANGED vars
  <2>1. UNCHANGED <<rows, tele, pc, point>>
    BY <1>12 DEF OnUartRx, OnRxDma, OnSynth, TxEnds, DeadlinePasses, vars, status
  <2> QED  BY <1>2, <2>1 DEF RowsInv
<1> QED
  BY <1>3, <1>4, <1>5, <1>6, <1>7, <1>8, <1>9, <1>10, <1>11, <1>12
  DEF Next, SweepTask, Telemetry

\* Every row reaches the telemetry task and in order: although nobody takes one
\* while points starve the core (sweep.c:51-52), none is turned away
\* (sweep.c:93-95).
THEOREM RowsAreComplete == Spec => []RowsComplete
<1>1. IInv /\ RowsInv => RowsComplete
  <2> SUFFICES ASSUME IInv, RowsInv PROVE RowsComplete  OBVIOUS
  <2>1. InRow(rows, tele.row, pc, point)  BY DEF RowsInv
  <2>2. Head(rows) = rows[1] /\ Last(rows) = rows[Len(rows)]  BY DEF Last
  <2>3. rows # <<>> => Newest(rows[Len(rows)].index, pc, point)  BY <2>1 DEF InRow
  <2> QED  BY <2>1, <2>2, <2>3 DEF RowsComplete, InRow, Newest, Active
<1> QED
  BY InitInv, NextInv, ModeStart, ModeNext, QueueStart, QueueNext, RowsStart, RowsNext,
     <1>1, PTL
  DEF Spec

================================================================================
