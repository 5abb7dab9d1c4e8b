--------------------------------- MODULE Sweep ---------------------------------
(***************************************************************************)
(* The baud sweep (sweep.c), the part of the port it drives                *)
(* (port_rp2350.c), and the telemetry task that takes its commands and     *)
(* sends its rows (telemetry.c).                                           *)
(*                                                                         *)
(* The sweep task is above the telemetry task, so that what it does        *)
(* between two delays is one step to it.  Interrupts are above both.  At a *)
(* point that starves the core they are all that runs: no task, and no     *)
(* kernel tick.                                                            *)
(***************************************************************************)
EXTENDS Integers, Sequences, SequencesExt

CONSTANTS
  Bauds,          \* N_BAUDS
  SynthRates,     \* N_SYNTH
  FastBaud,       \* baud rates from this one on starve the core, per byte
  FastSynth,      \* synthetic rates from this one on do
  RowQueue,       \* ROW_QUEUE
  ByteBudget,     \* bytes of stimulus at a UART point
  FifoThreshold,  \* bytes per interrupt in RX_MODE_FIFO_TH
  DmaBlock,       \* RX_DMA_BLOCK
  SynthBudget,    \* interrupts of a synthetic point
  SettlePackets,  \* telemetry periods in SETTLE_MS,
  PointPackets,   \* in MEASURE_MS or SYNTH_MS,
  CalmPackets     \* and in the 400 ms after the line is given back

ASSUME SweepAssumption ==
  /\ Bauds \in Nat \ {0} /\ SynthRates \in Nat \ {0}
  /\ FastBaud \in Nat /\ FastSynth \in Nat
  /\ RowQueue \in Nat \ {0}
  /\ ByteBudget \in Nat \ {0} /\ SynthBudget \in Nat \ {0}
  /\ FifoThreshold \in Nat \ {0} /\ DmaBlock \in Nat \ {0}
  /\ SettlePackets \in Nat /\ PointPackets \in Nat /\ CalmPackets \in Nat

\* SETTLE_MS and the 400 ms are more than a telemetry period, a point that does
\* not starve lasts as many as there are places for rows, and there is a place
\* more than there are synthetic rates that starve.
ASSUME PaceAssumption ==
  /\ SettlePackets > 0 /\ CalmPackets > 0
  /\ PointPackets >= RowQueue
  /\ RowQueue > 1 /\ RowQueue > SynthRates - FastSynth + 1

VARIABLES
  hw,             \* what the port has set up, with s_paused and the ticks
  late,           \* port_us() is past the deadline
  request,        \* s_request
  abort,          \* s_abort
  running,        \* s_status.running,
  kind,           \* s_status.kind and
  point,          \* s_status.point
  pc,             \* the delay the sweep task is in
  left,           \* telemetry periods that delay lasts at least
  rows,           \* s_rows between s_row_tail and s_row_head
  tele,           \* where the telemetry task is, and its copies
  hist,           \* the point s_hist belongs to, -1 for none
  peak,           \* s_rx_ring.peak is that of a starved consumer
  heard,          \* bytes received at this point
  reached,        \* the ring rose that far at this point
  stopping        \* history: the host has asked to stop the sweep that runs

cmds == <<request, abort, stopping>>
status == <<running, kind, point>>
window == <<hist, peak, heard, reached>>
vars == <<hw, late, cmds, status, pc, left, rows, tele, window>>

Modes == <<"byte", "fifo", "dma">>
Kinds == {"uart", "handler", "both"}

(***************************************************************************)
(* The points of a sweep, from 0: every baud rate in one mode after the    *)
(* other, and a quiet point before the synthetic rates.                    *)
(***************************************************************************)
UartPoints == Len(Modes) * Bauds
Total == [uart |-> UartPoints, handler |-> SynthRates + 1,
          both |-> UartPoints + SynthRates + 1]

UartPoint(i) == [source |-> "uart", mode |-> Modes[(i \div Bauds) + 1],
                 rate |-> (i % Bauds) + 1]
HandlerPoint(i) == [source |-> IF i = 0 THEN "base" ELSE "synth",
                    mode |-> "byte", rate |-> i]

PointOf(k, i) ==
  IF k = "handler" THEN HandlerPoint(i)
  ELSE IF i < UartPoints THEN UartPoint(i) ELSE HandlerPoint(i - UartPoints)

Current == PointOf(kind, point)

(***************************************************************************)
(* The port.  An operation of the port is an operator on hw.               *)
(***************************************************************************)
Hw == [ticks : BOOLEAN,         \* both PWM slices run
       paused : BOOLEAN,        \* s_paused
       baud : 0 .. Bauds,       \* 0 is UART_BAUD
       mode : ToSet(Modes),     \* s_rx_mode
       irq : BOOLEAN,           \* the UART's receive interrupt is enabled
       limited : BOOLEAN,       \* s_rx_limited
       budget : Nat,            \* s_rx_budget
       tx : BOOLEAN,            \* the DMA feeds the transmitter
       wrap0 : {"byteTick", "synth", "none", "panic"}, \* PWM_IRQ_WRAP_0
       slice : BOOLEAN,         \* SLICE_SYNTH runs
       synth : BOOLEAN,         \* s_synth_running
       firings : Nat]           \* s_synth_budget

\* What the measurement of the streams needs.
Normal == [ticks |-> TRUE, paused |-> FALSE, baud |-> 0, mode |-> "byte",
           irq |-> TRUE, limited |-> FALSE, budget |-> 0, tx |-> FALSE,
           wrap0 |-> "byteTick", slice |-> FALSE, synth |-> FALSE,
           firings |-> 0]

\* The SDK's: a second exclusive handler is a panic.
RemoveHandler(w, handler) == IF w = handler THEN "none" ELSE w
SetHandler(w, handler) == IF w \in {"none", handler} THEN handler ELSE "panic"

Pause(h) == [h EXCEPT !.paused = TRUE, !.ticks = FALSE]
Resume(h) == [h EXCEPT !.paused = FALSE, !.ticks = TRUE]

SetRxMode(h, m) == [h EXCEPT !.mode = m, !.irq = m # "dma"]
SetBaud(h, b) == SetRxMode([h EXCEPT !.baud = b], h.mode)
RxBudget(h, n) == [h EXCEPT !.budget = n, !.limited = n # 0]
TxStart(h) == [h EXCEPT !.tx = TRUE]
\* Mutant: channel A is stopped while B, still armed, starts it again.
TxStopRestarted(h) == h
TxStop(h) == [h EXCEPT !.tx = FALSE]

\* Mutant: the handler in place is not removed first.
SynthStopOver(h) ==
  IF h.synth
  THEN [h EXCEPT !.firings = 0, !.slice = FALSE, !.synth = FALSE,
                 !.wrap0 = SetHandler(@, "byteTick")]
  ELSE h

SynthStop(h) ==
  IF h.synth
  THEN [h EXCEPT !.firings = 0, !.slice = FALSE, !.synth = FALSE,
                 !.wrap0 = SetHandler(RemoveHandler(@, "synth"), "byteTick")]
  ELSE h

SynthStart(h, n) ==
  [SynthStop(h) EXCEPT
     !.firings = n, !.slice = TRUE, !.synth = TRUE,
     !.wrap0 = SetHandler(RemoveHandler(@, "byteTick"), "synth")]

\* Is this a point at which the interrupt takes the whole core?
IsFast(p) ==
  \/ p.source = "uart" /\ p.mode = "byte" /\ p.rate >= FastBaud
  \/ p.source = "synth" /\ p.rate >= FastSynth

\* Is the interrupt doing so now?
Starved ==
  /\ running /\ IsFast(Current)
  /\ hw.slice \/ (hw.tx /\ hw.irq)

(***************************************************************************)
(* A byte, or what the FIFO has gathered, is received: on_uart_rx.  The    *)
(* interrupt counts itself down, and switches itself off in the end.       *)
(***************************************************************************)
\* Mutant: one interrupt too many.
SpentLate(h) == h.budget <= 0 \/ late

Spent(h) == h.budget <= 1 \/ late

CountDown(h) ==
  IF ~h.limited THEN h
  ELSE IF Spent(h)
  THEN [h EXCEPT !.budget = 0, !.limited = FALSE, !.irq = FALSE]
  ELSE [h EXCEPT !.budget = @ - 1]

Heard(n) == heard' = IF heard + n > ByteBudget THEN ByteBudget ELSE heard + n

Fills == /\ peak' = (peak \/ Starved)
         /\ reached' = (reached \/ Starved)

OnUartRx ==
  /\ hw.irq
  /\ hw.tx \/ hw.ticks
  /\ hw' = CountDown(hw)
  /\ IF hw.tx
     THEN Fills /\ Heard(IF hw.mode = "byte" THEN 1 ELSE FifoThreshold)
     ELSE UNCHANGED <<peak, reached, heard>>
  /\ UNCHANGED <<late, cmds, status, pc, left, rows, tele, hist>>

\* A block is received: on_rx_dma.  Nothing is counted down.
OnRxDma ==
  /\ hw.mode = "dma" /\ hw.tx
  /\ Heard(DmaBlock)
  /\ UNCHANGED <<hw, late, cmds, status, pc, left, rows, tele>>
  /\ UNCHANGED <<hist, peak, reached>>

\* The synthetic load: on_synth.
OnSynth ==
  /\ hw.slice
  /\ hw' = [hw EXCEPT !.firings = @ - 1, !.slice = hw.firings # 1]
  /\ Fills
  /\ UNCHANGED <<late, cmds, status, pc, left, rows, tele, hist, heard>>

\* The transmitter may come to the end of its loops, and the deadline passes;
\* the latter no sooner than the periods a point lasts, if they are counted.
TxEnds ==
  /\ hw.tx
  /\ hw' = TxStop(hw)
  /\ UNCHANGED <<late, cmds, status, pc, left, rows, tele, window>>

DeadlinePasses ==
  /\ pc = "uart" /\ ~late /\ left = 0
  /\ late' = TRUE
  /\ UNCHANGED <<hw, cmds, status, pc, left, rows, tele, window>>

(***************************************************************************)
(* The sweep task.  StartPoint(h, k, i) is what it does from the top of    *)
(* the loop to the first delay of point i of sweep k; HandBack, what it    *)
(* does after the last one.                                                *)
(***************************************************************************)
Prepare(h, p) == RxBudget(SetRxMode(SetBaud(TxStop(h), p.rate), p.mode), 0)

StartPoint(h, k, i) ==
  LET p == PointOf(k, i)
  IN  /\ kind' = k /\ point' = i
      /\ left' = IF p.source = "uart" THEN SettlePackets
                 ELSE IF IsFast(p) THEN 0 ELSE PointPackets
      /\ hw' = CASE p.source = "uart"  -> Prepare(h, p)
                 [] p.source = "base"  -> TxStop(h)
                 [] p.source = "synth" -> SynthStart(h, SynthBudget)
      /\ pc' = IF p.source = "uart" THEN "settle" ELSE p.source
      /\ hist' = IF p.source = "uart" THEN hist ELSE i
      /\ heard' = 0 /\ reached' = FALSE

\* Mutant: the mode of the last point is kept.
HandBackInMode(h) == Resume(SetBaud(TxStop(SynthStop(h)), 0))

HandBack(h) ==
  Resume(SetRxMode(SetBaud(TxStop(SynthStop(h)), 0), "byte"))

\* Mutant: an abort ends the mode, not the sweep.
ProceedNextMode(h) ==
  IF point + 1 < Total[kind] /\ (abort => (point + 1) % Bauds = 0)
  THEN StartPoint(h, kind, point + 1)
  ELSE /\ hw' = HandBack(h)
       /\ pc' = "calm" /\ left' = CalmPackets
       /\ UNCHANGED <<kind, point, hist, heard, reached>>
\* The next point, unless there is none or the sweep is to stop.
Proceed(h) ==
  IF ~abort /\ point + 1 < Total[kind]
  THEN StartPoint(h, kind, point + 1)
  ELSE /\ hw' = HandBack(h)
       /\ pc' = "calm" /\ left' = CalmPackets
       /\ UNCHANGED <<kind, point, hist, heard, reached>>

\* Mutant: the queue is full one row early.
PublishShort ==
  rows' = IF Len(rows) >= RowQueue - 1 THEN rows
          ELSE Append(rows, [index |-> point, peak |-> peak])

Publish ==
  rows' = IF Len(rows) >= RowQueue THEN rows
          ELSE Append(rows, [index |-> point, peak |-> peak])

\* The task has the core and its delay is over.
Awake(where) == pc = where /\ left = 0 /\ ~Starved

Begin ==
  /\ pc = "idle" /\ request # "none"
  /\ abort' = FALSE /\ running' = TRUE
  /\ StartPoint(Pause(hw), request, 0)
  /\ UNCHANGED <<late, request, stopping, rows, tele, peak>>

\* The line has settled: the window opens and the stimulus starts.
Settled ==
  /\ Awake("settle")
  /\ hist' = point
  /\ hw' = TxStart(RxBudget(hw, ByteBudget))
  /\ late' = FALSE
  /\ pc' = "uart"
  /\ left' = IF IsFast(Current) THEN 0 ELSE PointPackets
  /\ UNCHANGED <<cmds, status, rows, tele, peak, heard, reached>>

\* Mutant: the waiting side relies on the interrupt.
WaitOverSpent == ~hw.limited
WaitOver == ~hw.limited \/ late

UartOver ==
  /\ Awake("uart")
  /\ WaitOver
  /\ Publish
  /\ Proceed(SetRxMode(RxBudget(TxStop(hw), 0), hw.mode))
  /\ UNCHANGED <<late, cmds, running, tele, peak>>

BaseOver ==
  /\ Awake("base")
  /\ Publish
  /\ Proceed(hw)
  /\ UNCHANGED <<late, cmds, running, tele, peak>>

\* The budget is spent; or it is not, and the task has polled 400 times.
SynthOver ==
  /\ Awake("synth")
  /\ Publish
  /\ Proceed(SynthStop(hw))
  /\ UNCHANGED <<late, cmds, running, tele, peak>>

\* The delay and the polls of engine_between_bursts are over.
CalmOver ==
  /\ Awake("calm")
  /\ hist' = -1 /\ peak' = FALSE          \* engine_reset_counters
  /\ running' = FALSE /\ request' = "none"
  /\ pc' = "idle" /\ stopping' = FALSE
  /\ UNCHANGED <<hw, late, abort, kind, point, left, rows, tele>>
  /\ UNCHANGED <<heard, reached>>

SweepTask == Begin \/ Settled \/ UartOver \/ BaseOver \/ SynthOver \/ CalmOver

(***************************************************************************)
(* The telemetry task, once per packet.  The sweep task may come between   *)
(* any two of its steps.                                                   *)
(***************************************************************************)
NoRow == [index |-> -1, peak |-> FALSE]
Resting == [pc |-> "wait", running |-> FALSE, row |-> NoRow, hist |-> -1,
            cmd |-> "none"]

TeleType == [pc : {"wait", "row", "hist", "command", "store", "send"},
             running : BOOLEAN,                             \* sw
             row : [index : Nat \cup {-1}, peak : BOOLEAN],
             hist : Nat \cup {-1},            \* whose histogram it printed
             cmd : Kinds \cup {"none"}]

\* It wakes, and copies the status (sweep_status).
Packet ==
  /\ tele.pc = "wait" /\ ~Starved
  /\ tele' = [tele EXCEPT !.pc = "row", !.running = running]
  /\ left' = IF left = 0 THEN 0 ELSE left - 1
  /\ UNCHANGED <<hw, late, cmds, status, pc, rows, window>>

\* A row, if there is one (sweep_take_row).
TakeRow ==
  /\ tele.pc = "row" /\ ~Starved
  /\ IF rows = <<>>
     THEN tele' = [tele EXCEPT !.pc = "command"] /\ UNCHANGED rows
     ELSE /\ tele' = [tele EXCEPT !.pc = "hist", !.row = Head(rows)]
          /\ rows' = Tail(rows)
  /\ UNCHANGED <<hw, late, cmds, status, pc, left, window>>

\* The histogram to go with it.
PrintHist ==
  /\ tele.pc = "hist" /\ ~Starved
  /\ tele' = [tele EXCEPT !.pc = "command", !.hist = hist]
  /\ UNCHANGED <<hw, late, cmds, status, pc, left, rows, window>>

\* A command from the host, if one has come.  sweep_request looks at the
\* status first and stores second.
Command ==
  /\ tele.pc = "command" /\ ~Starved
  /\ \E cmd \in Kinds \cup {"none", "abort"} :
       /\ abort' = (abort \/ cmd = "abort")
       /\ stopping' = (stopping \/ (cmd = "abort" /\ running))
       /\ IF cmd \in Kinds /\ ~running
          THEN tele' = [tele EXCEPT !.pc = "store", !.cmd = cmd]
          ELSE tele' = [tele EXCEPT !.pc = "send"]
  /\ UNCHANGED <<hw, late, request, status, pc, left, rows, window>>

Store ==
  /\ tele.pc = "store" /\ ~Starved
  /\ request' = tele.cmd
  /\ tele' = [tele EXCEPT !.pc = "send"]
  /\ UNCHANGED <<hw, late, abort, stopping, status, pc, left, rows, window>>

\* Mutant: the window is reset with every packet.
KeepsWindowNever == FALSE
KeepsWindow == tele.running

\* The line goes out or is dropped, and the window is reset unless there was
\* a sweep when the packet began (engine_reset_window).
Send ==
  /\ tele.pc = "send" /\ ~Starved
  /\ peak' = (peak /\ KeepsWindow)
  /\ tele' = Resting
  /\ UNCHANGED <<hw, late, cmds, status, pc, left, rows, hist, heard, reached>>

Telemetry == Packet \/ TakeRow \/ PrintHist \/ Command \/ Store \/ Send

(***************************************************************************)
(* The specification.                                                      *)
(***************************************************************************)
Init ==
  /\ hw = Normal /\ late = FALSE
  /\ request = "none" /\ abort = FALSE /\ stopping = FALSE
  /\ running = FALSE /\ kind = "uart" /\ point = 0
  /\ pc = "idle" /\ left = 0
  /\ rows = <<>> /\ tele = Resting
  /\ hist = -1 /\ peak = FALSE /\ heard = 0 /\ reached = FALSE

Next ==
  \/ OnUartRx \/ OnRxDma \/ OnSynth \/ TxEnds \/ DeadlinePasses
  \/ SweepTask
  \/ Telemetry

Fairness ==
  /\ WF_vars(OnUartRx) /\ WF_vars(OnSynth) /\ WF_vars(DeadlinePasses)
  /\ WF_vars(SweepTask)
  /\ WF_vars(Telemetry)

Spec == Init /\ [][Next]_vars /\ Fairness

(***************************************************************************)
(* Properties.                                                             *)
(***************************************************************************)

\* Every variable has its type.
TypeOK ==
  /\ hw \in Hw
  /\ late \in BOOLEAN /\ abort \in BOOLEAN /\ stopping \in BOOLEAN
  /\ running \in BOOLEAN
  /\ request \in Kinds \cup {"none"}
  /\ kind \in Kinds /\ point \in 0 .. Total[kind] - 1
  /\ pc \in {"idle", "settle", "uart", "base", "synth", "calm"}
  /\ left \in Nat
  /\ rows \in Seq([index : Nat, peak : BOOLEAN]) /\ Len(rows) <= RowQueue
  /\ tele \in TeleType
  /\ hist \in Nat \cup {-1}
  /\ peak \in BOOLEAN /\ reached \in BOOLEAN
  /\ heard \in 0 .. ByteBudget

\* Whichever way a sweep ended (sweep.c:407-412), and whichever interrupt
\* switched itself off on the way, once the byte and slot timers run again
\* everything the port set up is as the measurement needs it: rate, mode,
\* receive interrupt, handlers, no stimulus and no limit.
GivenBack == hw.ticks \/ pc \in {"idle", "calm"} => hw = Normal

\* The synthetic load and the byte tick share an interrupt, and exclusive
\* handlers (port_rp2350.c:546-550): the source that runs finds its own
\* handler, and none is set over another.
HandlerMatchesSource ==
  /\ hw.wrap0 # "panic"
  /\ hw.slice => hw.wrap0 = "synth"
  /\ hw.ticks => hw.wrap0 = "byteTick"

\* "An endless transmitter plus a saturated receiver is a board that cannot
\* be talked to again" (port_rp2350.c:424-426): no source of interrupts
\* that can take the core runs without an end to it.
LoadBounded ==
  /\ hw.tx /\ hw.irq => hw.limited /\ hw.budget > 0
  /\ hw.slice => hw.firings > 0

\* Every row a sweep publishes reaches the telemetry task, in order: the
\* queue never turns one away (sweep.c:93-95), although nobody empties it
\* while points starve the core (sweep.c:51-52).
Follows(row, before) == row.index \in {before.index + 1, 0}

RowsComplete ==
  /\ \A i \in 1 .. Len(rows) - 1 : Follows(rows[i + 1], rows[i])
  /\ rows # <<>> /\ tele.row # NoRow => Follows(Head(rows), tele.row)
  /\ rows # <<>> /\ pc = "calm" => Last(rows).index = point
  /\ rows # <<>> /\ pc \in {"settle", "uart", "base", "synth"} /\ point > 0
       => Last(rows).index = point - 1

\* A sweep comes to an end, whatever starves and whatever gets lost
\* (port.h:101-110).
SweepEnds == running ~> ~running

\* Once the bytes of the budget have been received one by one, the interrupt
\* has counted them all and the point ends by itself (sweep.c:218-221).  With
\* the FIFO threshold and with DMA it counts interrupts, not bytes.
BudgetInBytes ==
  pc = "uart" /\ Current.mode = "byte" /\ heard = ByteBudget => ~hw.limited

\* A row goes out "with the interrupt duration histogram that produced its
\* percentile" (telemetry.c:214-216).
HistogramOfRow ==
  tele.pc = "command" /\ tele.row # NoRow => tele.hist = tele.row.index

\* The ring peak of a row is no less than that of its own window, although
\* telemetry, which "would hand it the wrong numbers" (telemetry.c:289-290),
\* goes by a status as old as its packet.
PeakNotLost ==
  [][Len(rows') > Len(rows) => (reached => Last(rows').peak)]_vars

\* "One character from the host starts or stops a sweep" (telemetry.c:254):
\* after a stop that is read while a sweep runs, no further point of it
\* begins, and no other sweep before it is over.
StopHeeded ==
  [][stopping => (running' => running) /\ point' = point]_vars
================================================================================
