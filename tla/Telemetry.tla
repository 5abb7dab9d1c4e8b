------------------------------- MODULE Telemetry -------------------------------
(***************************************************************************)
(* What a telemetry packet says of the counters it is made from            *)
(* (engine_get_stats and engine_reset_window in engine.c, metrics.h, the   *)
(* trace and the sending in telemetry.c).                                  *)
(*                                                                         *)
(* The telemetry task has the lowest priority: an interrupt, the protocol  *)
(* task or the sweep task may come between any two of its reads and        *)
(* writes, and each of them is one step to it.  What a packet says of the  *)
(* rings is ByteRing's, of sweep rows Sweep's.                             *)
(***************************************************************************)
EXTENDS Integers, Sequences

CONSTANTS
  Durations,      \* cycles a receive interrupt may take
  TraceSamples,   \* BURST_TRACE_SAMPLES
  MaxInterrupts,  \* receive interrupts,
  MaxBursts,      \* bursts
  MaxResets       \* and ends of a sweep in a behaviour

ASSUME TelemetryAssumption ==
  /\ Durations \subseteq Nat \ {0} /\ Durations # {}
  /\ TraceSamples \in Nat \ {0}
  /\ {MaxInterrupts, MaxBursts, MaxResets} \subseteq Nat

VARIABLES
  isr,        \* s_isr
  interrupts, \* receive interrupts so far
  bursts,     \* s_tp.bursts
  whole,      \* s_verifier.bridge_bursts
  begun,      \* bursts begun so far
  trace,      \* s_trace_seq, s_trace_done_len, and s_trace_done as the number
              \* of the trace each sample is of
  armed,      \* s_trace_active
  pc,         \* where the telemetry task is,
  at,         \* and at which of its reads
  out,        \* s_stats
  lastSeq,    \* s_last_trace_seq
  resets,     \* sweeps over
  sent,       \* history: the trace sent last,
  lost,       \* and that one has gone with its line since
  told,       \* history: the longest interrupt a packet has told of,
  dropped,    \* that a packet has been dropped,
  longest,    \* the longest interrupt since the counters were reset,
  longestFree,\* and of those that met no packet in the making,
  due,        \* each when the packet sent last was begun
  mixed       \* history: the counters were reset while they were read

counters == <<isr, interrupts, bursts, whole, begun, trace, armed, resets>>
history == <<sent, lost, told, dropped, longest, longestFree, due, mixed>>
vars == <<counters, pc, at, out, lastSeq, history>>

Larger(a, b) == IF a > b THEN a ELSE b
Smaller(a, b) == IF a < b THEN a ELSE b

\* UINT32_MAX.
Most == 1 + CHOOSE d \in Durations : \A e \in Durations : e <= d

StatReset == [min |-> Most, max |-> 0, sum |-> 0, count |-> 0]

NoTrace == [seq |-> 0, len |-> 0, of |-> [i \in 1 .. TraceSamples |-> 0]]

Nothing == [isr |-> StatReset, whole |-> 0, bursts |-> 0,
            trace |-> NoTrace, copied |-> 0]

Init ==
  /\ isr = StatReset /\ interrupts = 0
  /\ bursts = 0 /\ whole = 0 /\ begun = 0
  /\ trace = NoTrace /\ armed = FALSE
  /\ pc = "wait" /\ at = 1 /\ resets = 0 /\ lastSeq = 0
  /\ out = Nothing
  /\ sent = NoTrace /\ lost = FALSE
  /\ told = 0 /\ dropped = FALSE
  /\ longest = 0 /\ longestFree = 0 /\ due = [all |-> 0, free |-> 0]
  /\ mixed = FALSE

(***************************************************************************)
(* Those that come between.                                                *)
(***************************************************************************)
\* Mutant: interrupts stay on.
MaskedNever == FALSE

\* Interrupts are off, between port_irq_save and port_irq_restore.
Masked == pc = "count"

\* Mutant: "else if": the first of a window is not its longest.
StatAddElse(s, v) ==
  [min |-> Smaller(s.min, v), max |-> IF v < s.min THEN s.max ELSE Larger(s.max, v),
   sum |-> s.sum + v, count |-> s.count + 1]

\* stat_add.
StatAdd(s, v) ==
  [min |-> Smaller(s.min, v), max |-> Larger(s.max, v),
   sum |-> s.sum + v, count |-> s.count + 1]

\* The receive interrupt (engine_record_isr).
RecordIsr ==
  /\ ~Masked /\ interrupts < MaxInterrupts
  /\ interrupts' = interrupts + 1
  /\ \E v \in Durations :
       /\ isr' = StatAdd(isr, v)
       /\ longest' = Larger(longest, v)
       /\ longestFree' = IF pc = "wait" THEN Larger(longestFree, v) ELSE longestFree
  /\ UNCHANGED <<bursts, whole, begun, trace, armed, resets>>
  /\ UNCHANGED <<pc, at, out, lastSeq, sent, lost, told, dropped, due, mixed>>

\* A burst begins and arms the trace (engine_on_can_slot).
BurstBegins ==
  /\ ~Masked /\ begun < MaxBursts /\ ~armed
  /\ begun' = begun + 1
  /\ bursts' = bursts + 1
  /\ armed' = TRUE
  /\ UNCHANGED <<isr, interrupts, whole, trace, resets>>
  /\ UNCHANGED <<pc, at, out, lastSeq, history>>

\* The protocol task has it reassembled (bridge_byte).
BurstReassembled ==
  /\ ~Masked /\ whole < bursts
  /\ whole' = whole + 1
  /\ UNCHANGED <<isr, interrupts, bursts, begun, trace, armed, resets>>
  /\ UNCHANGED <<pc, at, out, lastSeq, history>>

\* Its trace is full, and is copied to where the task reads it
\* (engine_on_byte_tick).
TraceFull ==
  /\ ~Masked /\ armed
  /\ armed' = FALSE
  /\ trace' = [seq |-> trace.seq + 1, len |-> TraceSamples,
               of |-> [i \in 1 .. TraceSamples |-> trace.seq + 1]]
  /\ UNCHANGED <<isr, interrupts, bursts, whole, begun, resets>>
  /\ UNCHANGED <<pc, at, out, lastSeq, history>>

\* Of the counters of both.
Zeroed == bursts' = 0 /\ whole' = 0

\* The sweep task, at the end of a sweep (engine_reset_counters).
ResetCounters ==
  /\ ~Masked /\ resets < MaxResets
  /\ resets' = resets + 1
  /\ isr' = StatReset /\ Zeroed
  /\ longest' = 0 /\ longestFree' = 0
  /\ mixed' = (mixed \/ pc = "read")
  /\ UNCHANGED <<interrupts, begun, trace, armed>>
  /\ UNCHANGED <<pc, at, out, lastSeq, sent, lost, told, dropped, due>>

(***************************************************************************)
(* engine_get_stats.                                                       *)
(***************************************************************************)
\* The statistics are copied, in two steps at least.
ReadSum ==
  /\ pc = "wait"
  /\ pc' = "count"
  /\ out' = [Nothing EXCEPT !.isr = [isr EXCEPT !.count = 0]]
  /\ due' = [all |-> longest, free |-> longestFree]
  /\ mixed' = FALSE
  /\ UNCHANGED <<counters, at, lastSeq, sent, lost, told, dropped>>
  /\ UNCHANGED <<longest, longestFree>>

ReadCount ==
  /\ pc = "count"
  /\ pc' = "read"
  /\ out' = [out EXCEPT !.isr.count = isr.count]
  /\ UNCHANGED <<counters, at, lastSeq, history>>

\* Mutant: bursts before what became of them.
ReadsBurstsFirst == <<"bursts", "whole", "seq", "len", "samples">>
\* Mutant: the number of the trace after its samples.
ReadsSeqLast == <<"whole", "bursts", "len", "samples", "seq">>

\* What is read then, and in which order.
Reads == <<"whole", "bursts", "seq", "len", "samples">>

Reading(what) == pc = "read" /\ Reads[at] = what

ReadOn ==
  IF at < Len(Reads) THEN at' = at + 1 /\ UNCHANGED pc
  ELSE pc' = "send" /\ UNCHANGED at

ReadWord ==
  /\ \/ Reading("whole") /\ out' = [out EXCEPT !.whole = whole]
     \/ Reading("bursts") /\ out' = [out EXCEPT !.bursts = bursts]
     \/ Reading("seq") /\ out' = [out EXCEPT !.trace.seq = trace.seq]
     \/ Reading("len") /\ out' = [out EXCEPT !.trace.len = trace.len]
  /\ ReadOn
  /\ UNCHANGED <<counters, lastSeq, history>>

\* memcpy.
CopySample ==
  /\ Reading("samples") /\ trace.len > 0
  /\ LET i == out.copied + 1 IN
       /\ out' = [out EXCEPT !.copied = i, !.trace.of[i] = trace.of[i]]
       /\ IF i < TraceSamples THEN UNCHANGED <<pc, at>> ELSE ReadOn
  /\ UNCHANGED <<counters, lastSeq, history>>

NoSamples ==
  /\ Reading("samples") /\ trace.len = 0
  /\ ReadOn
  /\ UNCHANGED <<counters, out, lastSeq, history>>

(***************************************************************************)
(* The rest of the packet.                                                 *)
(***************************************************************************)
\* Mutant: the number is taken from where it is counted.
RememberedLive == trace.seq

\* What becomes s_last_trace_seq.
Remembered == out.trace.seq

TraceDue == out.trace.len > 0 /\ out.trace.seq # lastSeq

\* The line is put together; it goes out, or is dropped because nobody
\* listens or it has been truncated.  The window is then cleared, unless a
\* sweep was running.  The copy is not looked at again: memset comes first.
Send ==
  /\ pc = "send"
  /\ lastSeq' = IF TraceDue THEN Remembered ELSE lastSeq
  /\ \/ /\ told' = Larger(told, out.isr.max)
        /\ IF TraceDue THEN sent' = out.trace /\ lost' = FALSE
                       ELSE UNCHANGED <<sent, lost>>
        /\ UNCHANGED dropped
     \/ /\ dropped' = TRUE
        /\ lost' = (lost \/ TraceDue)
        /\ UNCHANGED <<told, sent>>
  /\ pc' \in {"wait", "min"}
  /\ out' = Nothing /\ at' = 1
  /\ UNCHANGED <<counters, longest, longestFree, due, mixed>>

\* engine_reset_window, with stat_clear_extremes.
ClearMin ==
  /\ pc = "min" /\ pc' = "max"
  /\ isr' = [isr EXCEPT !.min = Most]
  /\ UNCHANGED <<interrupts, bursts, whole, begun, trace, armed, resets>>
  /\ UNCHANGED <<at, out, lastSeq, history>>

ClearMax ==
  /\ pc = "max" /\ pc' = "wait"
  /\ isr' = [isr EXCEPT !.max = 0]
  /\ UNCHANGED <<interrupts, bursts, whole, begun, trace, armed, resets>>
  /\ UNCHANGED <<at, out, lastSeq, history>>

TelemetryTask ==
  \/ ReadSum \/ ReadCount \/ ReadWord \/ CopySample \/ NoSamples
  \/ Send \/ ClearMin \/ ClearMax

Next ==
  \/ RecordIsr \/ BurstBegins \/ BurstReassembled \/ TraceFull
  \/ ResetCounters
  \/ TelemetryTask

\* The task runs whenever nothing else does; a sweep that starves it ends
\* (Sweep!SweepEnds).
Spec == Init /\ [][Next]_vars /\ WF_vars(TelemetryTask)

(***************************************************************************)
(* Properties.                                                             *)
(***************************************************************************)
\* Every variable has its type.
Stat == [min : Durations \cup {Most}, max : Durations \cup {0},
         sum : Nat, count : Nat]
Trace == [seq : 0 .. MaxBursts, len : {0, TraceSamples},
          of : [1 .. TraceSamples -> 0 .. MaxBursts]]

TypeOK ==
  /\ isr \in Stat /\ trace \in Trace /\ sent \in Trace
  /\ out \in [isr : Stat, whole : Nat, bursts : Nat, trace : Trace,
              copied : 0 .. TraceSamples]
  /\ {interrupts, resets, whole, bursts} \subseteq Nat
  /\ begun \in 0 .. MaxBursts /\ whole <= bursts /\ bursts <= begun
  /\ pc \in {"wait", "count", "read", "send", "min", "max"}
  /\ at \in 1 .. Len(Reads) /\ lastSeq \in 0 .. MaxBursts
  /\ armed \in BOOLEAN /\ lost \in BOOLEAN
  /\ dropped \in BOOLEAN /\ mixed \in BOOLEAN
  /\ told \in Durations \cup {0}
  /\ longest \in Durations \cup {0} /\ longestFree \in Durations \cup {0}
  /\ due \in [all : Durations \cup {0}, free : Durations \cup {0}]

\* The sum and the count of a packet belong together, although the sum is
\* two words and an interrupt may come at any time (engine.c:468-476): no
\* mean leaves the range of what was measured.
SumFitsCount ==
  pc # "count" =>
    \A d \in Durations :
      /\ (\A e \in Durations : d <= e) => d * out.isr.count <= out.isr.sum
      /\ (\A e \in Durations : e <= d) => out.isr.sum <= d * out.isr.count

\* No packet has more bursts reassembled than begun (what
\* scripts/analyze.py:133 compares): the words are read one by one, the later
\* stage first (engine.c:499, 502).
NeverMoreThanBegun ==
  pc = "send" /\ ~mixed => out.whole <= out.bursts

\* What a packet says of the counters is consistent, although they go on
\* counting while it is put together.
PacketAgrees == SumFitsCount /\ NeverMoreThanBegun

\* The copy of the trace is made without a lock under the interrupt that
\* writes it (engine.c:211, 519): if what was sent is not one trace under its
\* number, a newer one is still to be sent.
TraceMadeGood ==
  ~lost => \/ \A i \in 1 .. TraceSamples : sent.of[i] = sent.seq
           \/ trace.seq > lastSeq

\* A trace goes out, whole and under its number, unless the next one or the
\* loss of its line comes first (telemetry.c:267-276).
TraceArrives ==
  \A k \in 1 .. MaxBursts :
    trace.seq = k ~>
      \/ sent = [seq |-> k, len |-> TraceSamples, of |-> [i \in 1 .. TraceSamples |-> k]]
      \/ trace.seq > k \/ lost

\* Every interrupt that came while no packet was in the making is in the
\* longest time told of once a packet begun after it is sent
\* (engine.c:524-529, metrics.h:45-51).
FreeWorstTold ==
  pc = "wait" /\ ~dropped => told >= due.free

\* "UART RX interrupt, worst case" (README.md:30): so is every interrupt.
WorstTold ==
  pc = "wait" /\ ~dropped => told >= due.all
================================================================================
