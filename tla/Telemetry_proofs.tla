---------------------------- MODULE Telemetry_proofs ----------------------------
(***************************************************************************)
(* What a packet says holds for any durations, any length of the trace and *)
(* any number of interrupts, bursts and sweeps.                            *)
(*                                                                         *)
(* The packet is a copy that falls behind what it was made from.  The      *)
(* invariant says how far it may, at each place of the telemetry task:     *)
(* StatInv of the statistics, CountInv of the two burst counters, TraceInv *)
(* of the trace, and WorstInv of the longest interrupt.                    *)
(***************************************************************************)
EXTENDS Telemetry, TLAPS

(***************************************************************************)
(* The invariant.                                                          *)
(***************************************************************************)
\* The sum and the count are those of one set of durations.
Fits(s) ==
  \A d \in Durations :
    /\ (\A e \in Durations : d <= e) => d * s.count <= s.sum
    /\ (\A e \in Durations : e <= d) => s.sum <= d * s.count

StatInv ==
  /\ Fits(isr)
  /\ pc = "count" => out.isr.sum = isr.sum
  /\ pc # "count" => Fits(out.isr)

\* The task has read what comes before Reads[k].
Past(k) == pc = "send" \/ (pc = "read" /\ at > k)

CountInv ==
  ~mixed =>
    /\ Past(1) /\ ~Past(2) => out.whole <= bursts
    /\ Past(2) => out.whole <= out.bursts

\* One trace, under its number.
OneTrace(t) == \A i \in 1 .. TraceSamples : t.of[i] = t.seq

TraceInv ==
  /\ trace.seq + (IF armed THEN 1 ELSE 0) <= begun
  /\ trace.len = 0 <=> trace.seq = 0
  /\ OneTrace(trace)
  /\ pc = "read" => out.copied < TraceSamples
  /\ ~Past(4) => out.copied = 0
  /\ Past(3) => out.trace.seq <= trace.seq
  /\ Past(3) => \/ trace.seq > out.trace.seq
                \/ \A i \in 1 .. out.copied : out.trace.of[i] = out.trace.seq
  /\ Past(4) /\ out.trace.len > 0 => trace.len > 0
  /\ pc = "send" /\ out.trace.len > 0 => out.copied = TraceSamples
  /\ lastSeq <= trace.seq
  /\ ~lost => OneTrace(sent) \/ trace.seq > lastSeq

WorstInv ==
  ~dropped =>
    /\ pc = "wait" => longestFree <= Larger(told, isr.max) /\ due.free <= told
    /\ pc \in {"count", "read", "send"} =>
         /\ longestFree <= Larger(told, out.isr.max)
         /\ due.free <= Larger(told, out.isr.max)
    /\ pc \in {"min", "max"} => longestFree <= told /\ due.free <= told

\* The task reads from the first word on.
PlaceInv == pc \notin {"read", "send"} => at = 1

IInv == TypeOK /\ PlaceInv /\ StatInv /\ CountInv /\ TraceInv /\ WorstInv

USE TelemetryAssumption

(***************************************************************************)
(* The invariant holds at the start.                                       *)
(***************************************************************************)
LEMMA StatResetType == StatReset \in Stat /\ Fits(StatReset)
BY DEF StatReset, Stat, Fits

LEMMA NothingType ==
  /\ NoTrace \in Trace /\ OneTrace(NoTrace)
  /\ Nothing \in [isr : Stat, whole : Nat, bursts : Nat, trace : Trace,
                  copied : 0 .. TraceSamples]
  /\ Fits(Nothing.isr) /\ Nothing.trace = NoTrace /\ Nothing.copied = 0
<1>1. NoTrace \in Trace /\ OneTrace(NoTrace)
  BY DEF NoTrace, Trace, OneTrace
<1> QED  BY <1>1, StatResetType DEF Nothing

LEMMA InitInv == Init => IInv
<1> SUFFICES ASSUME Init PROVE IInv  OBVIOUS
<1>1. TypeOK
  <2>1. isr \in Stat /\ trace \in Trace /\ sent \in Trace
    BY StatResetType, NothingType DEF Init
  <2>2. out \in [isr : Stat, whole : Nat, bursts : Nat, trace : Trace,
                copied : 0 .. TraceSamples]
    BY NothingType DEF Init
  <2>3. due \in [all : Durations \cup {0}, free : Durations \cup {0}]
    BY DEF Init
  <2>4. at \in 1 .. Len(Reads) /\ {interrupts, resets, whole, bursts} \subseteq Nat
    BY DEF Init, Reads
  <2>5. /\ armed \in BOOLEAN /\ lost \in BOOLEAN
        /\ dropped \in BOOLEAN /\ mixed \in BOOLEAN
    BY Zenon DEF Init
  <2> QED  BY <2>1, <2>2, <2>3, <2>4, <2>5 DEF Init, TypeOK
<1>2. StatInv
  BY StatResetType, NothingType DEF Init, StatInv
<1>3. CountInv
  BY DEF Init, CountInv, Past
<1>4. TraceInv
  BY NothingType DEF Init, TraceInv, Past, NoTrace
<1>5. WorstInv
  BY DEF Init, WorstInv, Larger, StatReset
<1>6. PlaceInv
  BY DEF Init, PlaceInv
<1> QED  BY <1>1, <1>2, <1>3, <1>4, <1>5, <1>6 DEF IInv

(***************************************************************************)
(* The statistics.                                                         *)
(***************************************************************************)
LEMMA StatAddFits ==
  ASSUME NEW s \in Stat, Fits(s), NEW v \in Durations
  PROVE  StatAdd(s, v) \in Stat /\ Fits(StatAdd(s, v))
<1> DEFINE t == StatAdd(s, v)
<1>1. s.sum \in Nat /\ s.count \in Nat  BY DEF Stat
<1>2. t \in Stat /\ t.sum = s.sum + v /\ t.count = s.count + 1
  <2>1. Smaller(s.min, v) \in Durations \cup {Most}  BY DEF Smaller, Stat
  <2>2. Larger(s.max, v) \in Durations \cup {0}  BY DEF Larger, Stat
  <2>3. s.sum + v \in Nat /\ s.count + 1 \in Nat  BY <1>1
  <2> QED  BY <2>1, <2>2, <2>3 DEF StatAdd, Stat
<1>3. ASSUME NEW d \in Durations
      PROVE  /\ (\A e \in Durations : d <= e) => d * t.count <= t.sum
             /\ (\A e \in Durations : e <= d) => t.sum <= d * t.count
  <2>1. d \in Nat /\ v \in Nat  OBVIOUS
  <2>2. d * t.count = d * s.count + d /\ d * s.count \in Nat
    BY <1>2, <1>1, <2>1, SMT
  <2>3. (\A e \in Durations : d <= e) => d * s.count <= s.sum /\ d <= v
    BY DEF Fits
  <2>4. (\A e \in Durations : e <= d) => s.sum <= d * s.count /\ v <= d
    BY DEF Fits
  <2> QED  BY <1>2, <1>1, <2>1, <2>2, <2>3, <2>4
<1> QED  BY <1>2, <1>3 DEF Fits

(***************************************************************************)
(* The steps.                                                              *)
(***************************************************************************)

\* The sum and the count go together: interrupts are off between the two.
LEMMA StatStep ==
  ASSUME TypeOK, StatInv, [Next]_vars
  PROVE  StatInv'
<1> DEFINE Pieces == [isr : Stat, whole : Nat, bursts : Nat, trace : Trace,
                      copied : 0 .. TraceSamples]
<1>1. isr \in Stat /\ out \in Pieces  BY DEF TypeOK
<1>2. Fits(isr)  BY DEF StatInv
<1> HIDE DEF Pieces
<1>3. CASE RecordIsr
  <2>1. PICK v \in Durations : isr' = StatAdd(isr, v)  BY <1>3 DEF RecordIsr
  <2>2. Fits(isr')  BY <1>1, <1>2, <2>1, StatAddFits
  <2>3. out' = out /\ pc' = pc /\ pc # "count"  BY <1>3 DEF RecordIsr, Masked
  <2> QED  BY <2>2, <2>3 DEF StatInv
<1>4. CASE ResetCounters
  <2>1. Fits(isr')  BY <1>4, StatResetType DEF ResetCounters
  <2>2. out' = out /\ pc' = pc /\ pc # "count"
    BY <1>4 DEF ResetCounters, Masked
  <2> QED  BY <2>1, <2>2 DEF StatInv
<1>5. CASE ReadSum
  <2>1. isr' = isr /\ pc' = "count"  BY <1>5 DEF ReadSum, counters
  <2>2. out'.isr.sum = isr.sum
    BY <1>1, <1>5 DEF ReadSum, Nothing, Stat
  <2> QED  BY <1>2, <2>1, <2>2 DEF StatInv
<1>6. CASE ReadCount
  <2>1. isr' = isr /\ pc' = "read" /\ out.isr.sum = isr.sum
    BY <1>6 DEF ReadCount, counters, StatInv
  <2>2. out'.isr.sum = isr.sum /\ out'.isr.count = isr.count
    BY <1>1, <1>6, <2>1 DEF ReadCount, Stat, Pieces
  <2> QED  BY <1>2, <2>1, <2>2 DEF StatInv, Fits
<1>7. CASE ReadWord \/ CopySample
  <2>1. isr' = isr /\ pc = "read" /\ pc' \in {"read", "send"}
    BY <1>7 DEF ReadWord, CopySample, Reading, ReadOn, counters
  <2>2. out'.isr = out.isr
    BY <1>1, <1>7 DEF ReadWord, CopySample, Pieces
  <2> QED  BY <1>2, <2>1, <2>2 DEF StatInv, Fits
<1>8. CASE NoSamples
  BY <1>8 DEF NoSamples, Reading, ReadOn, counters, StatInv
<1>9. CASE Send
  <2>1. isr' = isr /\ pc' \in {"wait", "min"} /\ out' = Nothing
    BY <1>9, Zenon DEF Send, counters
  <2> QED  BY <1>2, <2>1, NothingType DEF StatInv
<1>10. CASE ClearMin \/ ClearMax
  <2>1. isr'.sum = isr.sum /\ isr'.count = isr.count
    BY <1>1, <1>10 DEF ClearMin, ClearMax, Stat
  <2>2. out' = out /\ pc' # "count" /\ pc # "count"
    BY <1>10 DEF ClearMin, ClearMax
  <2> QED  BY <1>2, <2>1, <2>2 DEF StatInv, Fits
<1>11. CASE BurstBegins \/ BurstReassembled \/ TraceFull \/ UNCHANGED vars
  <2>1. isr' = isr /\ out' = out /\ pc' = pc
    BY <1>11 DEF BurstBegins, BurstReassembled, TraceFull, vars, counters
  <2> QED  BY <2>1 DEF StatInv
<1> QED
  BY <1>3, <1>4, <1>5, <1>6, <1>7, <1>8, <1>9, <1>10, <1>11
  DEF Next, TelemetryTask

\* The task reads from the first word on.
LEMMA PlaceStep ==
  ASSUME PlaceInv, [Next]_vars
  PROVE  PlaceInv'
<1>1. CASE ReadSum \/ ReadCount \/ Send \/ ClearMin \/ ClearMax
  BY <1>1 DEF ReadSum, ReadCount, Send, ClearMin, ClearMax, PlaceInv
<1>2. CASE ReadWord \/ CopySample \/ NoSamples
  BY <1>2 DEF ReadWord, CopySample, NoSamples, Reading, ReadOn, PlaceInv
<1>3. CASE \/ RecordIsr \/ BurstBegins \/ BurstReassembled \/ TraceFull
           \/ ResetCounters \/ UNCHANGED vars
  <2>1. pc' = pc /\ at' = at
    BY <1>3 DEF RecordIsr, BurstBegins, BurstReassembled, TraceFull,
                ResetCounters, vars
  <2> QED  BY <2>1 DEF PlaceInv
<1> QED  BY <1>1, <1>2, <1>3 DEF Next, TelemetryTask

\* A burst is begun before it is reassembled.
LEMMA CountStep ==
  ASSUME TypeOK, PlaceInv, CountInv, [Next]_vars
  PROVE  CountInv'
<1> DEFINE Words == [isr : Stat, whole : Nat, bursts : Nat, trace : Trace,
                     copied : 0 .. TraceSamples]
<1>1. /\ out \in Words /\ whole \in Nat /\ bursts \in Nat /\ whole <= bursts
      /\ at \in 1 .. 5
  BY DEF TypeOK, Reads
<1> HIDE DEF Words
<1>2. CASE RecordIsr \/ TraceFull \/ ClearMin \/ ClearMax \/ UNCHANGED vars
  <2>1. /\ pc' = pc \/ pc' \notin {"read", "send"}
        /\ at' = at /\ bursts' = bursts /\ out' = out /\ mixed' = mixed
    BY <1>2 DEF RecordIsr, TraceFull, ClearMin, ClearMax, vars,
                counters, history
  <2> QED  BY <2>1 DEF CountInv, Past
<1>3. CASE BurstBegins \/ BurstReassembled
  <2>1. /\ pc' = pc /\ at' = at /\ out' = out /\ mixed' = mixed
        /\ bursts' \in Nat /\ bursts <= bursts'
    BY <1>1, <1>3 DEF BurstBegins, BurstReassembled, history
  <2>2. out.whole \in Nat  BY <1>1 DEF Words
  <2> QED  BY <1>1, <2>1, <2>2 DEF CountInv, Past
<1>4. CASE ResetCounters
  <2>1. /\ pc' = pc /\ at' = at /\ out' = out
        /\ mixed' = (mixed \/ pc = "read")
    BY <1>4 DEF ResetCounters
  <2>2. CASE pc = "send"  BY <2>1, <2>2 DEF CountInv, Past
  <2>3. CASE pc # "send"  BY <2>1, <2>3 DEF CountInv, Past
  <2> QED  BY <2>2, <2>3
<1>5. CASE ReadSum \/ ReadCount \/ Send
  <2>1. pc' \notin {"read", "send"} \/ (pc' = "read" /\ at' = 1)
    BY <1>5 DEF ReadSum, ReadCount, Send, PlaceInv
  <2> QED  BY <2>1 DEF CountInv, Past
<1>6. CASE ReadWord
  <2>1. pc = "read" /\ bursts' = bursts /\ mixed' = mixed
    BY <1>6 DEF ReadWord, Reading, counters, history
  <2>2. CASE at = 1
    <3>1. out'.whole = whole /\ at' = 2 /\ pc' = "read"
      BY <1>1, <1>6, <2>2 DEF ReadWord, Reading, ReadOn, Reads, Words
    <3> QED  BY <1>1, <2>1, <3>1 DEF CountInv, Past
  <2>3. CASE at = 2
    <3>1. out'.whole = out.whole /\ out'.bursts = bursts /\ at' = 3 /\ pc' = "read"
      BY <1>1, <1>6, <2>3 DEF ReadWord, Reading, ReadOn, Reads, Words
    <3> QED  BY <2>1, <2>3, <3>1 DEF CountInv, Past
  <2>4. CASE at > 2
    <3>1. /\ out'.whole = out.whole /\ out'.bursts = out.bursts
          /\ pc' = "send" \/ at' > 2
      BY <1>1, <1>6, <2>4 DEF ReadWord, Reading, ReadOn, Reads, Words
    <3> QED  BY <2>1, <2>4, <3>1 DEF CountInv, Past
  <2> QED  BY <1>1, <2>2, <2>3, <2>4
<1>7. CASE CopySample \/ NoSamples
  <2>1. pc = "read" /\ at = 5 /\ mixed' = mixed
    BY <1>1, <1>7 DEF CopySample, NoSamples, Reading, Reads, history
  <2>2. out'.whole = out.whole /\ out'.bursts = out.bursts
    BY <1>1, <1>7 DEF CopySample, NoSamples, Words
  <2>3. pc' = "send" \/ (pc' = pc /\ at' = at)
    BY <1>7, <2>1 DEF CopySample, NoSamples, ReadOn, Reads
  <2> QED  BY <2>1, <2>2, <2>3 DEF CountInv, Past
<1> QED
  BY <1>2, <1>3, <1>4, <1>5, <1>6, <1>7 DEF Next, TelemetryTask

\* Only an interrupt that comes while a packet is in the making escapes it.
LEMMA WorstStep ==
  ASSUME TypeOK, WorstInv, [Next]_vars
  PROVE  WorstInv'
<1> DEFINE Words == [isr : Stat, whole : Nat, bursts : Nat, trace : Trace,
                     copied : 0 .. TraceSamples]
<1>1. /\ out \in Words /\ isr \in Stat /\ told \in Nat /\ longestFree \in Nat
      /\ due \in [all : Durations \cup {0}, free : Durations \cup {0}]
  BY DEF TypeOK
<1>2. /\ out.isr.max \in Nat /\ isr.max \in Nat /\ due.free \in Nat
      /\ out.isr \in Stat
  <2>1. Durations \cup {0} \subseteq Nat  OBVIOUS
  <2>2. out.isr \in Stat  BY <1>1
  <2>3. out.isr.max \in Durations \cup {0} /\ isr.max \in Durations \cup {0}
    BY <1>1, <2>2 DEF Stat
  <2>4. due.free \in Durations \cup {0}  BY <1>1
  <2> QED  BY <2>1, <2>2, <2>3, <2>4
<1> HIDE DEF Words
<1>3. CASE RecordIsr
  <2>1. PICK v \in Durations :
          /\ isr' = StatAdd(isr, v)
          /\ longestFree' = IF pc = "wait" THEN Larger(longestFree, v)
                                           ELSE longestFree
    BY <1>3 DEF RecordIsr
  <2>2. /\ pc' = pc /\ out' = out /\ told' = told /\ dropped' = dropped
        /\ due' = due
    BY <1>3 DEF RecordIsr
  <2>3. isr'.max = Larger(isr.max, v) /\ v \in Nat  BY <2>1 DEF StatAdd
  <2>4. CASE pc = "wait"
    <3>1. longestFree' = Larger(longestFree, v)  BY <2>1, <2>4
    <3> QED
      BY <1>1, <1>2, <2>2, <2>3, <2>4, <3>1 DEF WorstInv, Larger
  <2>5. CASE pc # "wait"
    <3>1. longestFree' = longestFree  BY <2>1, <2>5
    <3> QED  BY <2>2, <2>5, <3>1 DEF WorstInv
  <2> QED  BY <2>4, <2>5
<1>4. CASE ResetCounters
  <2>1. /\ pc' = pc /\ out' = out /\ told' = told /\ dropped' = dropped
        /\ due' = due /\ longestFree' = 0 /\ isr'.max = 0
    BY <1>4 DEF ResetCounters, StatReset
  <2> QED  BY <1>1, <1>2, <2>1 DEF WorstInv, Larger
<1>5. CASE ReadSum
  <2>1. /\ pc = "wait" /\ pc' = "count" /\ out'.isr.max = isr.max
        /\ told' = told /\ dropped' = dropped /\ longestFree' = longestFree
        /\ due'.free = longestFree
    BY <1>1, <1>5 DEF ReadSum, Nothing, Stat
  <2> QED  BY <2>1 DEF WorstInv
<1>6. CASE ReadCount \/ ReadWord \/ CopySample \/ NoSamples
  <2>1. /\ pc \in {"count", "read"} /\ pc' \in {"read", "send"}
        /\ told' = told /\ dropped' = dropped
        /\ longestFree' = longestFree /\ due' = due
    BY <1>6 DEF ReadCount, ReadWord, CopySample, NoSamples, Reading, ReadOn,
                history
  <2>2. out'.isr.max = out.isr.max
    <3>1. CASE ReadCount  BY <1>1, <1>2, <3>1 DEF ReadCount, Words, Stat
    <3>2. CASE ReadWord  BY <1>1, <3>2 DEF ReadWord, Words
    <3>3. CASE CopySample  BY <1>1, <3>3 DEF CopySample, Words
    <3>4. CASE NoSamples  BY <3>4 DEF NoSamples
    <3> QED  BY <1>6, <3>1, <3>2, <3>3, <3>4
  <2> QED  BY <2>1, <2>2 DEF WorstInv
<1>7. CASE Send
  <2>1. /\ pc = "send" /\ pc' \in {"wait", "min"} /\ isr' = isr
        /\ longestFree' = longestFree /\ due' = due
    BY <1>7, Zenon DEF Send, counters
  <2>2. CASE dropped'  BY <2>2 DEF WorstInv
  <2>3. CASE ~dropped'
    <3>1. told' = Larger(told, out.isr.max) /\ dropped' = dropped
      BY <1>7, <2>3 DEF Send
    <3> QED
      BY <1>1, <1>2, <2>1, <2>3, <3>1 DEF WorstInv, Larger
  <2> QED  BY <2>2, <2>3
<1>8. CASE ClearMin
  <2>1. pc = "min" /\ pc' = "max" /\ UNCHANGED history
    BY <1>8 DEF ClearMin
  <2> QED  BY <2>1 DEF history, WorstInv
<1>9. CASE ClearMax
  <2>1. pc = "max" /\ pc' = "wait" /\ isr'.max = 0 /\ UNCHANGED history
    BY <1>1, <1>9 DEF ClearMax, Stat
  <2> QED  BY <1>1, <2>1 DEF history, WorstInv, Larger
<1>10. CASE BurstBegins \/ BurstReassembled \/ TraceFull \/ UNCHANGED vars
  <2>1. isr' = isr /\ out' = out /\ pc' = pc /\ UNCHANGED history
    BY <1>10 DEF BurstBegins, BurstReassembled, TraceFull, vars, counters
  <2> QED  BY <2>1 DEF history, WorstInv
<1> QED
  BY <1>3, <1>4, <1>5, <1>6, <1>7, <1>8, <1>9, <1>10
  DEF Next, TelemetryTask

\* A newer trace comes under a newer number.
LEMMA TraceStep ==
  ASSUME TypeOK, PlaceInv, TraceInv, [Next]_vars
  PROVE  TraceInv'
<1> DEFINE Words == [isr : Stat, whole : Nat, bursts : Nat, trace : Trace,
                     copied : 0 .. TraceSamples]
<1>1. /\ out \in Words /\ trace \in Trace /\ sent \in Trace /\ at \in 1 .. 5
      /\ armed \in BOOLEAN /\ begun \in Nat /\ lastSeq \in Nat /\ lost \in BOOLEAN
  BY DEF TypeOK, Reads
<1>2. out.trace \in Trace /\ out.copied \in 0 .. TraceSamples  BY <1>1
<1>3. \A t \in Trace : t.seq \in Nat /\ t.len \in {0, TraceSamples}
  BY DEF Trace
<1> HIDE DEF Words
<1>4. CASE RecordIsr \/ BurstReassembled \/ ResetCounters \/ UNCHANGED vars
  <2>1. /\ trace' = trace /\ armed' = armed /\ begun' = begun /\ pc' = pc
        /\ at' = at /\ out' = out /\ lastSeq' = lastSeq
        /\ sent' = sent /\ lost' = lost
    BY <1>4 DEF RecordIsr, BurstReassembled, ResetCounters, vars, counters,
                history
  <2> QED  BY <2>1 DEF TraceInv, Past
<1>5. CASE BurstBegins
  <2>1. /\ trace' = trace /\ ~armed /\ armed' /\ begun' = begun + 1 /\ pc' = pc
        /\ at' = at /\ out' = out /\ lastSeq' = lastSeq
        /\ sent' = sent /\ lost' = lost
    BY <1>5 DEF BurstBegins, history
  <2>2. trace'.seq + (IF armed' THEN 1 ELSE 0) <= begun'
    BY <1>1, <1>3, <2>1 DEF TraceInv
  <2> QED  BY <2>1, <2>2 DEF TraceInv, Past
<1>6. CASE TraceFull
  <2>1. /\ armed /\ ~armed' /\ begun' = begun /\ pc' = pc /\ at' = at
        /\ out' = out /\ lastSeq' = lastSeq /\ sent' = sent /\ lost' = lost
    BY <1>6 DEF TraceFull, history
  <2>2. /\ trace'.seq = trace.seq + 1 /\ trace'.len = TraceSamples
        /\ OneTrace(trace')
    BY <1>6 DEF TraceFull, OneTrace
  <2>3. trace.seq \in Nat /\ out.trace.seq \in Nat  BY <1>1, <1>2, <1>3
  <2>4. trace'.seq + (IF armed' THEN 1 ELSE 0) <= begun'
    BY <2>1, <2>2, <2>3 DEF TraceInv
  <2>5. lastSeq' < trace'.seq  BY <1>1, <2>1, <2>2, <2>3 DEF TraceInv
  <2>6. Past(3) => out.trace.seq < trace'.seq  BY <2>2, <2>3 DEF TraceInv
  <2>7. trace'.seq # 0 /\ trace'.len > 0 /\ trace'.len # 0  BY <2>2, <2>3
  <2>8. ~lost' => OneTrace(sent') \/ trace'.seq > lastSeq'
    BY <1>1, <2>1, <2>2, <2>3, <2>5
  <2>9. /\ pc' = "read" => out'.copied < TraceSamples
        /\ ~Past(4)' => out'.copied = 0
        /\ Past(3)' => out'.trace.seq < trace'.seq
    BY <2>1, <2>6 DEF TraceInv, Past
  <2>10. pc' = "send" /\ out'.trace.len > 0 => out'.copied = TraceSamples
    BY <2>1 DEF TraceInv
  <2>11. /\ Past(3)' => out'.trace.seq <= trace'.seq
         /\ Past(3)' => trace'.seq > out'.trace.seq
         /\ lastSeq' <= trace'.seq
    BY <1>1, <2>1, <2>2, <2>3, <2>5, <2>9
  <2> QED  BY <2>2, <2>4, <2>7, <2>8, <2>9, <2>10, <2>11 DEF TraceInv
<1>7. CASE ReadSum
  <2>1. /\ trace' = trace /\ armed' = armed /\ begun' = begun
        /\ pc' = "count" /\ at' = at /\ lastSeq' = lastSeq
        /\ sent' = sent /\ lost' = lost
    BY <1>7 DEF ReadSum, counters
  <2>2. out'.copied = 0  BY <1>7 DEF ReadSum, Nothing
  <2> QED  BY <2>1, <2>2 DEF TraceInv, Past
<1>8. CASE ReadCount
  <2>1. /\ trace' = trace /\ armed' = armed /\ begun' = begun
        /\ pc = "count" /\ pc' = "read" /\ at' = 1 /\ lastSeq' = lastSeq
        /\ sent' = sent /\ lost' = lost
    BY <1>8 DEF ReadCount, counters, history, PlaceInv
  <2>2. out'.copied = out.copied  BY <1>1, <1>8 DEF ReadCount, Words
  <2>3. out'.copied = 0  BY <2>1, <2>2 DEF TraceInv, Past
  <2> QED  BY <2>1, <2>3 DEF TraceInv, Past
<1>9. CASE ReadWord
  <2>1. /\ trace' = trace /\ armed' = armed /\ begun' = begun
        /\ pc = "read" /\ lastSeq' = lastSeq /\ sent' = sent /\ lost' = lost
    BY <1>9 DEF ReadWord, Reading, counters, history
  <2>2. out'.copied = out.copied  BY <1>1, <1>9 DEF ReadWord, Words
  <2>3. at \in 1 .. 4 /\ at' = at + 1 /\ pc' = "read"
    BY <1>1, <1>9 DEF ReadWord, Reading, ReadOn, Reads
  <2>4. out.copied = 0  BY <2>1, <2>3 DEF TraceInv, Past
  <2>5. CASE at < 3
    BY <2>1, <2>2, <2>3, <2>4, <2>5 DEF TraceInv, Past
  <2>6. CASE at = 3
    <3>1. out'.trace.seq = trace.seq
      BY <1>1, <1>2, <1>9, <2>6 DEF ReadWord, Reading, Reads, Words, Trace
    <3>2. 1 .. out'.copied = {}  BY <2>2, <2>4
    <3>3. trace.seq \in Nat  BY <1>1, <1>3
    <3> QED  BY <2>1, <2>2, <2>3, <2>4, <2>6, <3>1, <3>2, <3>3 DEF TraceInv, Past
  <2>7. CASE at = 4
    <3>1. out'.trace.seq = out.trace.seq /\ out'.trace.len = trace.len
      BY <1>1, <1>2, <1>9, <2>7 DEF ReadWord, Reading, Reads, Words, Trace
    <3>2. 1 .. out'.copied = {}  BY <2>2, <2>4
    <3> QED  BY <2>1, <2>2, <2>3, <2>4, <2>7, <3>1, <3>2 DEF TraceInv, Past
  <2> QED  BY <2>3, <2>5, <2>6, <2>7
<1>10. CASE CopySample
  <2>1. /\ trace' = trace /\ armed' = armed /\ begun' = begun
        /\ pc = "read" /\ lastSeq' = lastSeq /\ sent' = sent /\ lost' = lost
        /\ at = 5
    BY <1>1, <1>10 DEF CopySample, Reading, Reads, counters, history
  <2> DEFINE i == out.copied + 1
  <2>2. i \in 1 .. TraceSamples  BY <1>2, <2>1 DEF TraceInv
  <2>3. out'.copied = i /\ out'.trace = [out.trace EXCEPT !.of[i] = trace.of[i]]
    BY <1>1, <1>10 DEF CopySample, Words
  <2>4. /\ out'.trace.seq = out.trace.seq /\ out'.trace.len = out.trace.len
        /\ out'.trace.of = [out.trace.of EXCEPT ![i] = trace.of[i]]
    BY <1>2, <2>3 DEF Trace
  <2>5. out.trace.of \in [1 .. TraceSamples -> 0 .. MaxBursts]
    BY <1>2 DEF Trace
  <2>6. out'.trace.of[i] = trace.of[i]  BY <2>2, <2>4, <2>5
  <2>7. \A k \in 1 .. out.copied : out'.trace.of[k] = out.trace.of[k]
    BY <1>2, <2>2, <2>4, <2>5
  <2>8. \/ trace.seq > out.trace.seq
        \/ \A k \in 1 .. i : out'.trace.of[k] = out.trace.seq
    <3>1. CASE trace.seq > out.trace.seq  BY <3>1
    <3>2. CASE ~(trace.seq > out.trace.seq)
      <4>1. trace.seq = out.trace.seq
        BY <1>1, <1>2, <1>3, <2>1, <3>2 DEF TraceInv, Past
      <4>2. trace.of[i] = trace.seq  BY <2>2 DEF TraceInv, OneTrace
      <4>3. \A k \in 1 .. out.copied : out.trace.of[k] = out.trace.seq
        BY <2>1, <3>2 DEF TraceInv, Past
      <4>4. \A k \in 1 .. i : k = i \/ k \in 1 .. out.copied  BY <1>2
      <4> QED  BY <2>6, <2>7, <4>1, <4>2, <4>3, <4>4
    <3> QED  BY <3>1, <3>2
  <2>9. \/ pc' = "read" /\ at' = 5 /\ i < TraceSamples
        \/ pc' = "send" /\ at' = 5 /\ i = TraceSamples
    BY <1>2, <1>10, <2>1, <2>2 DEF CopySample, ReadOn, Reads
  <2> HIDE DEF i
  <2> QED
    BY <2>1, <2>3, <2>4, <2>8, <2>9 DEF TraceInv, Past
<1>11. CASE NoSamples
  <2>1. /\ trace' = trace /\ armed' = armed /\ begun' = begun
        /\ lastSeq' = lastSeq /\ sent' = sent /\ lost' = lost /\ out' = out
        /\ pc = "read" /\ at = 5 /\ pc' = "send" /\ at' = at /\ trace.len = 0
    BY <1>1, <1>11
    DEF NoSamples, Reading, ReadOn, Reads, counters, history
  <2>2. ~(out.trace.len > 0)  BY <2>1 DEF TraceInv, Past
  <2> QED  BY <2>1, <2>2 DEF TraceInv, Past
<1>12. CASE Send
  <2>1. /\ trace' = trace /\ armed' = armed /\ begun' = begun
        /\ pc = "send" /\ pc' \in {"wait", "min"} /\ at' = 1
        /\ lastSeq' = IF TraceDue THEN out.trace.seq ELSE lastSeq
    BY <1>12, Zenon DEF Send, Remembered, counters
  <2>2. out'.copied = 0  BY <1>12 DEF Send, Nothing
  <2>3. lastSeq' <= trace'.seq  BY <2>1 DEF TraceInv, Past
  <2>4. ~lost' => OneTrace(sent') \/ trace'.seq > lastSeq'
    <3>1. CASE TraceDue
      <4>1. ~lost' => sent' = out.trace
        BY <1>1, <1>12, <3>1 DEF Send
      <4>2. out.copied = TraceSamples
        BY <2>1, <3>1 DEF TraceDue, TraceInv
      <4>3. trace.seq > out.trace.seq \/ OneTrace(out.trace)
        BY <2>1, <4>2 DEF TraceInv, Past, OneTrace
      <4> QED  BY <2>1, <3>1, <4>1, <4>3
    <3>2. CASE ~TraceDue
      <4>1. sent' = sent /\ lost' = lost
        BY <1>1, <1>12, <3>2 DEF Send
      <4> QED  BY <2>1, <3>2, <4>1 DEF TraceInv
    <3> QED  BY <3>1, <3>2
  <2> QED  BY <2>1, <2>2, <2>3, <2>4 DEF TraceInv, Past
<1>13. CASE ClearMin \/ ClearMax
  <2>1. /\ trace' = trace /\ armed' = armed /\ begun' = begun
        /\ pc \in {"min", "max"} /\ pc' \in {"max", "wait"} /\ at' = at
        /\ out' = out /\ lastSeq' = lastSeq /\ sent' = sent /\ lost' = lost
    BY <1>13 DEF ClearMin, ClearMax, history
  <2> QED  BY <2>1 DEF TraceInv, Past
<1> QED
  BY <1>4, <1>5, <1>6, <1>7, <1>8, <1>9, <1>10, <1>11, <1>12, <1>13
  DEF Next, TelemetryTask

\* Types.
LEMMA TypeStep ==
  ASSUME TypeOK, TraceInv, [Next]_vars
  PROVE  TypeOK'
<1> DEFINE Words == [isr : Stat, whole : Nat, bursts : Nat, trace : Trace,
                     copied : 0 .. TraceSamples]
           Cycles == Durations \cup {0}
<1>1. /\ out \in Words /\ trace \in Trace /\ sent \in Trace /\ at \in 1 .. 5
      /\ out.trace \in Trace /\ isr \in Stat /\ out.isr \in Stat
      /\ begun \in 0 .. MaxBursts /\ lastSeq \in 0 .. MaxBursts
  BY DEF TypeOK, Reads
<1>2. \A t \in Trace : t.seq \in 0 .. MaxBursts /\ t.len \in {0, TraceSamples}
  BY DEF Trace
<1>3. \A v \in Durations, c \in Cycles : Larger(c, v) \in Cycles
  BY DEF Larger
<1>4. out' \in Words
  <2>1. CASE ReadSum
    <3>1. [isr EXCEPT !.count = 0] \in Stat  BY <1>1 DEF Stat
    <3>2. Nothing \in Words  BY NothingType
    <3> QED  BY <2>1, <3>1, <3>2 DEF ReadSum
  <2>2. CASE ReadCount
    <3>1. [out.isr EXCEPT !.count = isr.count] \in Stat  BY <1>1 DEF Stat
    <3>2. out' = [out EXCEPT !.isr = [out.isr EXCEPT !.count = isr.count]]
      BY <1>1, <2>2 DEF ReadCount
    <3> QED  BY <1>1, <3>1, <3>2
  <2>3. CASE ReadWord
    <3>1. CASE Reading("whole") \/ Reading("bursts")
      BY <1>1, <2>3, <3>1 DEF ReadWord, Reading, TypeOK
    <3>2. CASE Reading("seq")
      <4>1. [out.trace EXCEPT !.seq = trace.seq] \in Trace  BY <1>1 DEF Trace
      <4>2. out' = [out EXCEPT !.trace = [out.trace EXCEPT !.seq = trace.seq]]
        BY <1>1, <2>3, <3>2 DEF ReadWord, Reading
      <4> QED  BY <1>1, <4>1, <4>2
    <3>3. CASE Reading("len")
      <4>1. [out.trace EXCEPT !.len = trace.len] \in Trace  BY <1>1 DEF Trace
      <4>2. out' = [out EXCEPT !.trace = [out.trace EXCEPT !.len = trace.len]]
        BY <1>1, <2>3, <3>3 DEF ReadWord, Reading
      <4> QED  BY <1>1, <4>1, <4>2
    <3> QED  BY <2>3, <3>1, <3>2, <3>3 DEF ReadWord
  <2>4. CASE CopySample
    <3> DEFINE i == out.copied + 1
               t == [out.trace EXCEPT !.of[i] = trace.of[i]]
    <3>1. i \in 1 .. TraceSamples
      BY <1>1, <2>4 DEF TraceInv, CopySample, Reading
    <3>2. t \in Trace  BY <1>1, <3>1 DEF Trace
    <3>3. out' = [[out EXCEPT !.copied = i] EXCEPT !.trace = t]
      BY <1>1, <2>4 DEF CopySample
    <3>4. [out EXCEPT !.copied = i] \in Words  BY <1>1, <3>1
    <3> HIDE DEF t
    <3> QED  BY <3>2, <3>3, <3>4
  <2>5. CASE Send
    BY <2>5, NothingType DEF Send
  <2>6. CASE UNCHANGED out  BY <1>1, <2>6
  <2>7. \/ ReadSum \/ ReadCount \/ ReadWord \/ CopySample \/ Send
        \/ UNCHANGED out
    BY DEF Next, TelemetryTask, RecordIsr, BurstBegins, BurstReassembled,
           TraceFull, ResetCounters, NoSamples, ClearMin, ClearMax, vars
  <2> QED  BY <2>1, <2>2, <2>3, <2>4, <2>5, <2>6, <2>7
<1>5. /\ isr' \in Stat
      /\ longest' \in Cycles /\ longestFree' \in Cycles
  <2>1. longest \in Cycles /\ longestFree \in Cycles  BY DEF TypeOK
  <2>2. CASE RecordIsr
    <3>1. PICK v \in Durations :
            /\ isr' = StatAdd(isr, v)
            /\ longest' = Larger(longest, v)
            /\ longestFree' = IF pc = "wait" THEN Larger(longestFree, v)
                                             ELSE longestFree
      BY <2>2 DEF RecordIsr
    <3>2. Larger(isr.max, v) \in Cycles  BY <1>1, <1>3 DEF Stat
    <3>3. Smaller(isr.min, v) \in Durations \cup {Most}
      BY <1>1 DEF Stat, Smaller
    <3>4. isr.sum + v \in Nat /\ isr.count + 1 \in Nat
      <4>1. v \in Nat  OBVIOUS
      <4> QED  BY <1>1, <4>1 DEF Stat
    <3>5. isr' \in Stat  BY <3>1, <3>2, <3>3, <3>4 DEF StatAdd, Stat
    <3> QED  BY <1>3, <2>1, <3>1, <3>5
  <2>3. CASE ResetCounters
    BY <2>3, StatResetType DEF ResetCounters
  <2>4. CASE ClearMin \/ ClearMax
    BY <1>1, <2>1, <2>4 DEF ClearMin, ClearMax, history, Stat
  <2>5. CASE UNCHANGED <<isr, longest, longestFree>>
    BY <1>1, <2>1, <2>5
  <2>6. \/ RecordIsr \/ ResetCounters \/ ClearMin \/ ClearMax
        \/ UNCHANGED <<isr, longest, longestFree>>
    BY DEF Next, TelemetryTask, BurstBegins, BurstReassembled, TraceFull,
           ReadSum, ReadCount, ReadWord, CopySample, NoSamples, Send,
           counters, history, vars
  <2> QED  BY <2>2, <2>3, <2>4, <2>5, <2>6
<1>6. /\ trace' \in Trace /\ begun' \in 0 .. MaxBursts /\ armed' \in BOOLEAN
  <2>1. CASE TraceFull
    <3>1. trace.seq + 1 \in 0 .. MaxBursts
      <4>1. armed /\ trace.seq + 1 <= begun
        BY <2>1, <1>1, <1>2 DEF TraceFull, TraceInv
      <4> QED  BY <1>1, <1>2, <4>1
    <3>2. trace' \in Trace  BY <2>1, <3>1 DEF TraceFull, Trace
    <3> QED  BY <1>1, <2>1, <3>2 DEF TraceFull
  <2>2. CASE BurstBegins
    BY <1>1, <2>2 DEF BurstBegins
  <2>3. CASE UNCHANGED <<trace, begun, armed>>
    BY <1>1, <2>3 DEF TypeOK
  <2>4. TraceFull \/ BurstBegins \/ UNCHANGED <<trace, begun, armed>>
    BY DEF Next, TelemetryTask, RecordIsr, BurstReassembled, ResetCounters,
           ReadSum, ReadCount, ReadWord, CopySample, NoSamples, Send,
           ClearMin, ClearMax, counters, vars
  <2> QED  BY <2>1, <2>2, <2>3, <2>4
<1>7. /\ {interrupts', resets', whole', bursts'} \subseteq Nat
      /\ whole' <= bursts' /\ bursts' <= begun'
  <2>1. /\ interrupts \in Nat /\ resets \in Nat /\ whole \in Nat
        /\ bursts \in Nat /\ begun \in Nat /\ whole <= bursts /\ bursts <= begun
    BY DEF TypeOK
  <2>2. CASE RecordIsr \/ BurstBegins \/ BurstReassembled \/ ResetCounters
    BY <2>1, <2>2
    DEF RecordIsr, BurstBegins, BurstReassembled, ResetCounters, Zeroed
  <2>3. CASE UNCHANGED <<interrupts, resets, whole, bursts, begun>>
    BY <2>1, <2>3
  <2>4. \/ RecordIsr \/ BurstBegins \/ BurstReassembled \/ ResetCounters
        \/ UNCHANGED <<interrupts, resets, whole, bursts, begun>>
    BY DEF Next, TelemetryTask, TraceFull, ReadSum, ReadCount, ReadWord,
           CopySample, NoSamples, Send, ClearMin, ClearMax, counters, vars
  <2> QED  BY <2>2, <2>3, <2>4
<1>8. /\ pc' \in {"wait", "count", "read", "send", "min", "max"}
      /\ at' \in 1 .. 5
  <2>1. pc \in {"wait", "count", "read", "send", "min", "max"}  BY DEF TypeOK
  <2>2. CASE ReadWord \/ CopySample \/ NoSamples
    BY <1>1, <2>1, <2>2
    DEF ReadWord, CopySample, NoSamples, Reading, ReadOn, Reads
  <2>3. CASE Send
    <3>1. pc' \in {"wait", "min"} /\ at' = 1  BY <2>3, Zenon DEF Send
    <3> QED  BY <3>1
  <2> QED
    BY <1>1, <2>1, <2>2, <2>3
    DEF Next, TelemetryTask, RecordIsr, BurstBegins, BurstReassembled,
        TraceFull, ResetCounters, ReadSum, ReadCount, ClearMin, ClearMax, vars
<1>9. /\ lastSeq' \in 0 .. MaxBursts /\ sent' \in Trace
      /\ lost' \in BOOLEAN /\ dropped' \in BOOLEAN /\ told' \in Cycles
  <2>1. lost \in BOOLEAN /\ dropped \in BOOLEAN /\ told \in Cycles
    BY DEF TypeOK
  <2>2. CASE Send
    <3>1. lastSeq' \in 0 .. MaxBursts
      BY <1>1, <1>2, <2>2 DEF Send, Remembered
    <3>2. sent' \in Trace /\ dropped' \in BOOLEAN
      BY <1>1, <2>1, <2>2 DEF Send
    <3>3. lost' \in BOOLEAN
      <4>1. CASE lost' = FALSE  BY <4>1
      <4>2. CASE lost' = lost  BY <2>1, <4>2
      <4>3. CASE lost' = (lost \/ TraceDue)  BY <4>3
      <4> QED  BY <2>2, <4>1, <4>2, <4>3 DEF Send
    <3>4. told' \in Cycles
      <4>1. told' = told \/ told' = Larger(told, out.isr.max)
        BY <2>2 DEF Send
      <4>2. out.isr.max \in Cycles  BY <1>1 DEF Stat
      <4> QED  BY <2>1, <4>1, <4>2 DEF Larger
    <3> QED  BY <3>1, <3>2, <3>3, <3>4
  <2>3. CASE UNCHANGED <<lastSeq, sent, lost, dropped, told>>
    BY <1>1, <2>1, <2>3
  <2>4. Send \/ UNCHANGED <<lastSeq, sent, lost, dropped, told>>
    BY DEF Next, TelemetryTask, RecordIsr, BurstBegins, BurstReassembled,
           TraceFull, ResetCounters, ReadSum, ReadCount, ReadWord, CopySample,
           NoSamples, ClearMin, ClearMax, history, vars
  <2> QED  BY <2>2, <2>3, <2>4
<1>10. mixed' \in BOOLEAN
  <2>1. mixed \in BOOLEAN  BY DEF TypeOK
  <2>2. \/ mixed' = FALSE \/ mixed' = mixed
        \/ mixed' = (mixed \/ pc = "read")
    BY Zenon DEF Next, TelemetryTask, RecordIsr, BurstBegins, BurstReassembled,
           TraceFull, ResetCounters, ReadSum, ReadCount, ReadWord, CopySample,
           NoSamples, Send, ClearMin, ClearMax, history, vars
  <2> QED  BY <2>1, <2>2
<1>11. due' \in [all : Cycles, free : Cycles]
  <2>1. /\ due \in [all : Cycles, free : Cycles]
        /\ longest \in Cycles /\ longestFree \in Cycles
    BY DEF TypeOK
  <2>2. due' = due \/ due' = [all |-> longest, free |-> longestFree]
    BY DEF Next, TelemetryTask, RecordIsr, BurstBegins, BurstReassembled,
           TraceFull, ResetCounters, ReadSum, ReadCount, ReadWord, CopySample,
           NoSamples, Send, ClearMin, ClearMax, history, vars
  <2> QED  BY <2>1, <2>2
<1> QED
  BY <1>4, <1>5, <1>6, <1>7, <1>8, <1>9, <1>10, <1>11 DEF TypeOK, Reads

(***************************************************************************)
(* What follows.                                                           *)
(***************************************************************************)
\* The invariant holds whatever the tasks do.
THEOREM Invariance == Spec => []IInv
<1>1. IInv /\ [Next]_vars => IInv'
  BY TypeStep, PlaceStep, StatStep, CountStep, TraceStep, WorstStep DEF IInv
<1> QED  BY InitInv, <1>1, PTL DEF Spec

\* Every variable has its type, whatever the tasks do.
THEOREM TelemetryTypeCorrect == Spec => []TypeOK
<1>1. IInv => TypeOK  BY DEF IInv
<1> QED  BY Invariance, <1>1, PTL

\* What a packet says of the counters is consistent: no mean outside what was
\* measured, no more bursts reassembled than begun (engine_get_stats).
THEOREM PacketsAgree == Spec => []PacketAgrees
<1>1. IInv => PacketAgrees
  <2> SUFFICES ASSUME IInv PROVE PacketAgrees  OBVIOUS
  <2>1. SumFitsCount
    <3>1. pc # "count" => Fits(out.isr)  BY DEF IInv, StatInv
    <3> QED  BY <3>1, Zenon DEF Fits, SumFitsCount
  <2>2. NeverMoreThanBegun
    BY DEF IInv, CountInv, Past, NeverMoreThanBegun
  <2> QED  BY <2>1, <2>2 DEF PacketAgrees
<1> QED  BY Invariance, <1>1, PTL

\* A trace that was copied while it was written is followed by a whole one
\* (engine_on_byte_tick under engine_get_stats).
THEOREM TracesMadeGood == Spec => []TraceMadeGood
<1>1. IInv => TraceMadeGood
  BY DEF IInv, TraceInv, OneTrace, TraceMadeGood
<1> QED  BY Invariance, <1>1, PTL

\* The longest interrupt is told of, if it met no packet in the making
\* (engine_reset_window).
THEOREM FreeWorst == Spec => []FreeWorstTold
<1>1. IInv => FreeWorstTold
  <2> SUFFICES ASSUME IInv, pc = "wait", ~dropped PROVE told >= due.free
    BY DEF FreeWorstTold
  <2>1. due.free <= told  BY DEF IInv, WorstInv
  <2> QED  BY <2>1
<1> QED  BY Invariance, <1>1, PTL

================================================================================
