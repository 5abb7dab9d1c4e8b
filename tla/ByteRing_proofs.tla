----------------------------- MODULE ByteRing_proofs ----------------------------
(***************************************************************************)
(* ByteRing is type correct, its counts are conservative and it implements *)
(* BoundedFifo, for every size, word width and order of preemption.        *)
(***************************************************************************)
EXTENDS ByteRing, Arithmetic, SequenceTheorems, TLAPS

(***************************************************************************)
(* Words and slots.                                                        *)
(***************************************************************************)

\* A word has more values than the storage has bytes.
LEMMA WordsFacts == Size \in Nat /\ Size > 0 /\ Words \in Nat /\ Words > Size
<1>1. Size \in Nat \ {0} /\ Laps \in Nat /\ Laps >= 2
  BY SizeAssumption
<1>2. Size * Laps = Size + Size * (Laps - 1)
  BY <1>1
<1>3. Size * (Laps - 1) > 0
  BY <1>1
<1>4. QED
  BY <1>1, <1>2, <1>3 DEF Words

\* Words less than Size apart, in the wrapping sense, have different slots.
LEMMA SlotsDistinct ==
  ASSUME NEW x \in Word, NEW y \in Word, Minus(x, y) > 0, Minus(x, y) < Size
  PROVE  Slot(x) # Slot(y)
<1>1. CASE x >= y
  <2>1. x \in Nat /\ y \in Nat /\ x > y /\ x - y < Size
    BY <1>1, WordsFacts DEF Word, Minus
  <2>2. QED
    BY <2>1, Residues, WordsFacts DEF Slot
<1>2. CASE x < y
  <2>1. (x + Size * Laps) % Size = x % Size
    BY WholeLaps, SizeAssumption, WordsFacts DEF Word
  <2>2. x + Words \in Nat /\ y \in Nat /\ x + Words > y /\ x + Words - y < Size
    BY <1>2, WordsFacts DEF Word, Minus
  <2>3. (x + Words) % Size # y % Size
    <3> DEFINE z == x + Words
    <3>1. z \in Nat /\ y \in Nat /\ z > y /\ z - y < Size /\ Size \in Nat \ {0}
      BY <2>2, SizeAssumption, WordsFacts DEF Word
    <3> HIDE DEF z
    <3>2. z % Size # y % Size
      BY <3>1, Residues
    <3>3. QED
      BY <3>2 DEF z
  <2>4. QED
    BY <2>1, <2>3 DEF Slot, Words
<1>3. QED
  BY <1>1, <1>2, WordsFacts DEF Word

\* A slot is in the storage.
LEMMA SlotType == ASSUME NEW x \in Word PROVE Slot(x) \in 0 .. Size - 1
BY DivMod, WordsFacts DEF Word, Slot

\* Advancing head adds one to the count while there is room.
LEMMA HeadAdvance ==
  ASSUME NEW h \in Word, NEW t \in Word, Minus(h, t) < Size
  PROVE  /\ Inc(h) \in Word
         /\ Minus(Inc(h), t) = Minus(h, t) + 1
BY WordsFacts DEF Word, Minus, Inc

\* Advancing tail takes one from the count while there is something.
LEMMA TailAdvance ==
  ASSUME NEW h \in Word, NEW t \in Word, Minus(h, t) > 0
  PROVE  /\ Inc(t) \in Word
         /\ Minus(h, Inc(t)) = Minus(h, t) - 1
BY WordsFacts DEF Word, Minus, Inc

\* The difference of two words is a word, and 0 only if they are equal.
LEMMA MinusType ==
  ASSUME NEW x \in Word, NEW y \in Word
  PROVE  /\ Minus(x, y) \in Word
         /\ Minus(x, y) \in Nat /\ Minus(x, y) < Words
         /\ Minus(x, y) = 0 <=> x = y
BY WordsFacts DEF Word, Minus

\* The n-th word after tail, and how far head is from it.
LEMMA PlusFacts ==
  ASSUME NEW h \in Word, NEW t \in Word, NEW n \in Nat, n <= Minus(h, t)
  PROVE  /\ Plus(t, n) \in Word
         /\ Minus(h, Plus(t, n)) = Minus(h, t) - n
BY WordsFacts DEF Word, Minus, Plus

\* Counting from the next word, one less.
LEMMA PlusStep ==
  ASSUME NEW t \in Word, NEW i \in 1 .. Words - 1
  PROVE  Plus(Inc(t), i - 1) = Plus(t, i)
BY WordsFacts DEF Word, Plus, Inc

(***************************************************************************)
(* The inductive invariant.  Types and counts say that the slot rb_push    *)
(* writes is free; what is left to say is what the two calls in progress   *)
(* hold: the byte stored but not yet published is in the slot of head, the *)
(* byte loaded but not yet released is still in the slot of tail.          *)
(***************************************************************************)
StoredByte == push.pc = "publish" => buf[Slot(head)] = push.byte

LoadedByte == pop.pc = "advance" => buf[Slot(tail)] = pop.byte

IInv == TypeOK /\ CountsConservative /\ StoredByte /\ LoadedByte

\* It holds of an empty ring.
LEMMA InitIInv == Init => IInv
<1> SUFFICES ASSUME Init PROVE IInv
  OBVIOUS
<1>0. cleared \in BOOLEAN
  BY Zenon DEF Init
<1>1. TypeOK
  BY <1>0, WordsFacts DEF Init, TypeOK, Word, Push, Pop, Tele
<1>2. Count = 0
  BY WordsFacts DEF Init, Count, Minus
<1>3. QED
  BY <1>1, <1>2, WordsFacts DEF Init, IInv, CountsConservative, StoredByte, LoadedByte

\* No step of any party breaks it.
LEMMA StepIInv == IInv /\ [Next]_vars => IInv'
<1> SUFFICES ASSUME IInv, [Next]_vars PROVE IInv'
  OBVIOUS
<1> USE DEF IInv
<1>0. /\ head \in Word /\ tail \in Word /\ Count \in Word
      /\ Count = 0 <=> head = tail
  BY MinusType DEF TypeOK, Count
<1>1. ASSUME NEW b \in Byte, PushBegin(b) PROVE IInv'
  <2>1. TypeOK'
    BY <1>0, <1>1 DEF PushBegin, TypeOK, Push
  <2>2. CountsConservative'
    BY <1>0, <1>1, WordsFacts DEF PushBegin, CountsConservative, Count, Word, IsFull, TypeOK, Push
  <2>3. StoredByte' /\ LoadedByte'
    BY <1>1 DEF PushBegin, StoredByte, LoadedByte, TypeOK, Push
  <2>4. QED
    BY <2>1, <2>2, <2>3
<1>2. CASE PushFull
  <2>1. TypeOK'
    BY <1>2, WordsFacts DEF PushFull, TypeOK, Push, Inc, Word
  <2>2. CountsConservative'
    BY <1>2 DEF PushFull, CountsConservative, Count, TypeOK, Push
  <2>3. StoredByte' /\ LoadedByte'
    BY <1>2 DEF PushFull, StoredByte, LoadedByte, TypeOK, Push
  <2>4. QED
    BY <2>1, <2>2, <2>3
<1>3. CASE PushStore
  <2>0. Slot(head) \in 0 .. Size - 1
    BY <1>0, SlotType
  <2>1. TypeOK'
    BY <1>3, <2>0 DEF PushStore, TypeOK, Push
  <2>2. CountsConservative'
    BY <1>3 DEF PushStore, CountsConservative, Count, TypeOK, Push
  <2>3. StoredByte'
    BY <1>3, <2>0 DEF PushStore, StoredByte, TypeOK, Push
  <2>4. ASSUME pop.pc = "advance" PROVE Slot(head) # Slot(tail)
    <3>1. Count > 0 /\ Count < Size
      BY <1>0, <1>3, <2>4, WordsFacts DEF PushStore, CountsConservative, TypeOK, Push, Word
    <3>2. QED
      BY <1>0, <3>1, SlotsDistinct DEF Count
  <2>5. LoadedByte'
    BY <1>0, <1>3, <2>0, <2>4, SlotType DEF PushStore, LoadedByte, TypeOK
  <2>6. QED
    BY <2>1, <2>2, <2>3, <2>5
<1>4. CASE PushPublish
  <2>0. /\ Count < Size
        /\ Inc(head) \in Word
        /\ Minus(Inc(head), tail) = Count + 1
    <3>1. Count < Size
      BY <1>0, <1>4, WordsFacts DEF PushPublish, CountsConservative, TypeOK, Push, Word
    <3>2. QED
      BY <1>0, <3>1, HeadAdvance DEF Count
  <2>1. TypeOK'
    BY <1>4, <2>0 DEF PushPublish, TypeOK, Push
  <2>2. CountsConservative'
    BY <1>0, <1>4, <2>0, WordsFacts DEF PushPublish, CountsConservative, Count, TypeOK, Push, Word
  <2>3. StoredByte' /\ LoadedByte'
    BY <1>4 DEF PushPublish, StoredByte, LoadedByte, TypeOK, Push
  <2>4. QED
    BY <2>1, <2>2, <2>3
<1>5. CASE PushMark
  <2>1. TypeOK'
    BY <1>0, <1>5, WordsFacts DEF PushMark, Marked, CountsConservative, TypeOK, Push, Word
  <2>2. CountsConservative'
    BY <1>5 DEF PushMark, CountsConservative, Count, TypeOK, Push
  <2>3. StoredByte' /\ LoadedByte'
    BY <1>5 DEF PushMark, StoredByte, LoadedByte, TypeOK, Push
  <2>4. QED
    BY <2>1, <2>2, <2>3
<1>6. CASE PopBegin
  <2>1. TypeOK'
    BY <1>6 DEF PopBegin, TypeOK, Pop
  <2>2. CountsConservative'
    BY <1>0, <1>6, WordsFacts DEF PopBegin, CountsConservative, Count, TypeOK, Pop, Word
  <2>3. StoredByte' /\ LoadedByte'
    BY <1>6 DEF PopBegin, StoredByte, LoadedByte, TypeOK, Pop
  <2>4. QED
    BY <2>1, <2>2, <2>3
<1>7. CASE PopLoad
  <2>1. TypeOK'
    BY <1>0, <1>7, SlotType DEF PopLoad, TypeOK, Pop
  <2>2. CountsConservative'
    BY <1>7 DEF PopLoad, CountsConservative, Count, TypeOK, Pop
  <2>3. StoredByte' /\ LoadedByte'
    BY <1>7 DEF PopLoad, StoredByte, LoadedByte, TypeOK, Pop
  <2>4. QED
    BY <2>1, <2>2, <2>3
<1>8. CASE PopAdvance
  <2>0. /\ Inc(tail) \in Word
        /\ Minus(head, Inc(tail)) = Count - 1
    <3>1. Count > 0
      BY <1>8 DEF PopAdvance, CountsConservative
    <3>2. QED
      BY <1>0, <3>1, TailAdvance DEF Count
  <2>1. TypeOK'
    BY <1>8, <2>0 DEF PopAdvance, TypeOK, Pop
  <2>2. CountsConservative'
    BY <1>0, <1>8, <2>0, WordsFacts DEF PopAdvance, CountsConservative, Count, TypeOK, Push, Pop, Word
  <2>3. StoredByte' /\ LoadedByte'
    BY <1>8 DEF PopAdvance, StoredByte, LoadedByte, TypeOK, Pop
  <2>4. QED
    BY <2>1, <2>2, <2>3
<1>9. ASSUME CountLoadFirst \/ CountLoadSecond \/ ReportCount PROVE IInv'
  <2>1. tele' \in Tele /\ UNCHANGED <<buf, head, tail, peak, overflow, push, pop, out, cleared>>
    <3>1. CASE CountLoadFirst
      BY <1>0, <3>1 DEF CountLoadFirst, TypeOK, Tele
    <3>2. CASE CountLoadSecond
      <4>1. tele.word \in Word
        BY DEF TypeOK, Tele
      <4>2. Minus(tele.word, tail) \in Word /\ Minus(head, tele.word) \in Word
        BY <1>0, <4>1, MinusType
      <4>3. QED
        BY <3>2, <4>2 DEF CountLoadSecond, Tele
    <3>3. CASE ReportCount
      BY <3>3, WordsFacts DEF ReportCount, Tele, Word
    <3>4. QED
      BY <1>9, <3>1, <3>2, <3>3
  <2>2. QED
    BY <2>1 DEF TypeOK, CountsConservative, Count, StoredByte, LoadedByte
<1>10. ASSUME ClearPeak \/ ResetCounters PROVE IInv'
  <2>0. cleared' \in BOOLEAN
    BY <1>10, Zenon DEF ClearPeak, ResetCounters
  <2>1. /\ peak' \in Word /\ overflow' \in Word /\ tele' \in Tele
        /\ UNCHANGED <<buf, head, tail, push, pop, out>>
    BY <1>10, WordsFacts DEF ClearPeak, ResetCounters, TypeOK, Tele, Word
  <2>2. QED
    BY <2>0, <2>1 DEF TypeOK, CountsConservative, Count, StoredByte, LoadedByte
<1>11. CASE UNCHANGED vars
  BY <1>11 DEF vars, TypeOK, CountsConservative, Count, StoredByte, LoadedByte
<1>12. QED
  BY <1>1, <1>2, <1>3, <1>4, <1>5, <1>6, <1>7, <1>8, <1>9, <1>10, <1>11 DEF Next

\* Every reachable state satisfies the invariant.
THEOREM Invariance == Spec => []IInv
BY InitIInv, StepIInv, PTL DEF Spec

\* The words of a ring keep their types (ringbuf.h:26-33).
THEOREM TypeCorrect == Spec => []TypeOK
<1>1. IInv => TypeOK
  BY DEF IInv
<1>2. QED
  BY <1>1, Invariance, PTL

\* The counts that rb_push and rb_pop act on are out of date on the safe side
\* only: no unread byte is overwritten, no empty ring is read
\* (ringbuf.h:54-87), under every preemption and across every wrap.
THEOREM SafeCounts == Spec => []CountsConservative
<1>1. IInv => CountsConservative
  BY DEF IInv
<1>2. QED
  BY <1>1, Invariance, PTL

(***************************************************************************)
(* The high water mark, until telemetry or the sweep stores to it.         *)
(***************************************************************************)

\* rb_push raises the mark to what the count can have become by then.
LEMMA StepPeak == IInv /\ PeakCovers /\ [Next]_vars => PeakCovers'
<1> SUFFICES ASSUME IInv, PeakCovers, [Next]_vars PROVE PeakCovers'
  OBVIOUS
<1>0. /\ TypeOK /\ CountsConservative
      /\ head \in Word /\ tail \in Word
      /\ Count \in Nat /\ peak \in Nat /\ push.count \in Nat
  <2>1. TypeOK /\ CountsConservative
    BY DEF IInv
  <2>2. head \in Word /\ tail \in Word /\ peak \in Word /\ push.count \in Word
    BY <2>1 DEF TypeOK, Push
  <2>3. Count \in Nat
    BY <2>2, MinusType DEF Count
  <2>4. QED
    BY <2>1, <2>2, <2>3, WordsFacts DEF Word
<1>1. ASSUME NEW b \in Byte, PushBegin(b) PROVE PeakCovers'
  BY <1>0, <1>1 DEF PushBegin, PeakCovers, Count, TypeOK, Push
<1>2. CASE PushFull \/ PushStore
  BY <1>2 DEF PushFull, PushStore, PeakCovers, Count
<1>3. CASE PushPublish
  BY <1>0, <1>3 DEF PushPublish, PeakCovers, TypeOK, Push
<1>4. CASE PushMark
  <2>1. Count <= push.count + 1 /\ push.count + 1 <= Size
    BY <1>0, <1>4, WordsFacts DEF PushMark, CountsConservative
  <2>2. Count' = Count /\ peak' = Marked(push.count) /\ cleared' = cleared
    BY <1>4 DEF PushMark, Count
  <2>3. QED
    BY <1>0, <2>1, <2>2, WordsFacts DEF PeakCovers, Marked
<1>5. CASE PopBegin \/ PopLoad
  BY <1>5 DEF PopBegin, PopLoad, PeakCovers, Count
<1>6. CASE PopAdvance
  <2>1. Count > 0
    BY <1>0, <1>6 DEF PopAdvance, CountsConservative
  <2>2. Count' = Count - 1
    BY <1>0, <1>6, <2>1, TailAdvance DEF PopAdvance, Count
  <2>3. push' = push /\ peak' = peak /\ cleared' = cleared
    BY <1>6 DEF PopAdvance
  <2>4. QED
    BY <1>0, <2>2, <2>3 DEF PeakCovers
<1>7. CASE CountLoadFirst \/ CountLoadSecond \/ ReportCount
  BY <1>7 DEF CountLoadFirst, CountLoadSecond, ReportCount, PeakCovers, Count
<1>8. CASE ClearPeak \/ ResetCounters
  BY <1>8 DEF ClearPeak, ResetCounters, PeakCovers
<1>9. CASE UNCHANGED vars
  BY <1>9 DEF vars, PeakCovers, Count
<1>10. QED
  BY <1>1, <1>2, <1>3, <1>4, <1>5, <1>6, <1>7, <1>8, <1>9 DEF Next

\* As long as nobody else stores to the mark, it covers the occupancy whenever
\* no rb_push is between its store to head and its store to peak, and never
\* passes the size (ringbuf.h:54-72), although it is raised from a count that
\* is out of date by then.
THEOREM MarkCovers == Spec => []PeakCovers
<1>1. Init => PeakCovers
  BY WordsFacts DEF Init, PeakCovers, Count, Minus
<1>2. IInv /\ PeakCovers /\ [Next]_vars => PeakCovers'
  BY StepPeak
<1>3. QED
  BY <1>1, <1>2, Invariance, PTL DEF Spec

(***************************************************************************)
(* The refinement.  PushBegin is the step at which a byte is offered or    *)
(* refused, PushPublish the one at which it is accepted, PopAdvance the    *)
(* one at which it is taken; every other step leaves the queue alone.      *)
(***************************************************************************)

\* The bytes between two words are a sequence as long as their difference.
LEMMA BetweenType ==
  ASSUME NEW b \in [0 .. Size - 1 -> Byte], NEW h \in Word, NEW t \in Word
  PROVE  /\ Minus(h, t) \in Nat
         /\ Between(b, h, t) \in Seq(Byte)
         /\ Len(Between(b, h, t)) = Minus(h, t)
         /\ \A i \in 1 .. Minus(h, t) :
              /\ Plus(t, i - 1) \in Word
              /\ Minus(h, Plus(t, i - 1)) = Minus(h, t) - (i - 1)
              /\ Between(b, h, t)[i] = b[Slot(Plus(t, i - 1))]
<1>1. Minus(h, t) \in Nat
  BY MinusType
<1>2. ASSUME NEW i \in 1 .. Minus(h, t)
      PROVE  /\ Plus(t, i - 1) \in Word
             /\ Minus(h, Plus(t, i - 1)) = Minus(h, t) - (i - 1)
             /\ b[Slot(Plus(t, i - 1))] \in Byte
  <2>1. i - 1 \in Nat /\ i - 1 <= Minus(h, t)
    BY <1>1
  <2>2. Plus(t, i - 1) \in Word /\ Minus(h, Plus(t, i - 1)) = Minus(h, t) - (i - 1)
    BY <2>1, PlusFacts
  <2>3. QED
    BY <2>2, SlotType
<1>3. Between(b, h, t) \in [1 .. Minus(h, t) -> Byte]
  BY <1>2 DEF Between
<1>4. Between(b, h, t) \in Seq(Byte)
  BY <1>1, <1>3, SeqDef
<1>5. Len(Between(b, h, t)) = Minus(h, t)
  BY <1>1, <1>3, <1>4, LenProperties
<1>6. QED
  BY <1>1, <1>2, <1>4, <1>5 DEF Between

\* A store to a free slot keeps the bytes between head and tail.
LEMMA StoreKeeps ==
  ASSUME NEW b \in [0 .. Size - 1 -> Byte], NEW h \in Word, NEW t \in Word,
         Minus(h, t) < Size, NEW e \in Byte
  PROVE  Between([b EXCEPT ![Slot(h)] = e], h, t) = Between(b, h, t)
<1> DEFINE c == [b EXCEPT ![Slot(h)] = e]
<1>1. ASSUME NEW i \in 1 .. Minus(h, t)
      PROVE  c[Slot(Plus(t, i - 1))] = b[Slot(Plus(t, i - 1))]
  <2> DEFINE p == Plus(t, i - 1)
  <2>1. p \in Word /\ Minus(h, p) = Minus(h, t) - (i - 1)
    BY BetweenType
  <2>2. Minus(h, t) \in Nat
    BY BetweenType
  <2> HIDE DEF p
  <2>3. Minus(h, p) > 0 /\ Minus(h, p) < Size
    BY <2>1, <2>2, WordsFacts
  <2>4. Slot(h) # Slot(p) /\ Slot(p) \in 0 .. Size - 1
    BY <2>1, <2>3, SlotsDistinct, SlotType
  <2>5. c[Slot(p)] = b[Slot(p)]
    BY <2>4
  <2>6. QED
    BY <2>5 DEF p
<1>2. QED
  BY <1>1 DEF Between

\* Advancing head appends the byte in its slot.
LEMMA PublishAppends ==
  ASSUME NEW b \in [0 .. Size - 1 -> Byte], NEW h \in Word, NEW t \in Word,
         Minus(h, t) < Size
  PROVE  Between(b, Inc(h), t) = Append(Between(b, h, t), b[Slot(h)])
<1> DEFINE n == Minus(h, t)
           old == Between(b, h, t)
           new == Between(b, Inc(h), t)
           app == Append(old, b[Slot(h)])
<1>1. Inc(h) \in Word /\ Minus(Inc(h), t) = n + 1
  BY HeadAdvance
<1>2. n \in Nat /\ old \in Seq(Byte) /\ Len(old) = n
  BY BetweenType
<1>3. new \in Seq(Byte) /\ Len(new) = n + 1
  BY <1>1, BetweenType
<1>4. b[Slot(h)] \in Byte
  BY SlotType
<1>5. app \in Seq(Byte) /\ Len(app) = n + 1
  BY <1>2, <1>4, AppendProperties
<1>6. ASSUME NEW i \in 1 .. n + 1 PROVE new[i] = app[i]
  <2>1. new[i] = b[Slot(Plus(t, i - 1))]
    BY <1>1, <1>2 DEF Between
  <2>2. CASE i <= n
    <3>1. i \in 1 .. n
      BY <1>2, <2>2
    <3>2. old[i] = b[Slot(Plus(t, i - 1))]
      BY <3>1 DEF Between
    <3>3. app[i] = old[i]
      BY <1>2, <1>4, <3>1, AppendProperties
    <3>4. QED
      BY <2>1, <3>2, <3>3
  <2>3. CASE i = n + 1
    <3>1. Plus(t, n) = h
      BY WordsFacts DEF Plus, Minus, Word
    <3>2. app[n + 1] = b[Slot(h)]
      BY <1>2, <1>4, AppendProperties
    <3>3. i - 1 = n
      BY <1>2, <2>3
    <3>4. QED
      BY <2>1, <2>3, <3>1, <3>2, <3>3
  <2>4. QED
    BY <1>2, <2>2, <2>3
<1>7. QED
  BY <1>3, <1>5, <1>6, SeqEqual

\* Advancing tail takes the first byte off.
LEMMA AdvanceTakes ==
  ASSUME NEW b \in [0 .. Size - 1 -> Byte], NEW h \in Word, NEW t \in Word,
         Minus(h, t) > 0
  PROVE  /\ Between(b, h, t) # <<>>
         /\ Head(Between(b, h, t)) = b[Slot(t)]
         /\ Between(b, h, Inc(t)) = Tail(Between(b, h, t))
<1> DEFINE n == Minus(h, t)
           old == Between(b, h, t)
           new == Between(b, h, Inc(t))
<1>1. Inc(t) \in Word /\ Minus(h, Inc(t)) = n - 1
  BY TailAdvance
<1>2. n \in Nat /\ n > 0 /\ old \in Seq(Byte) /\ Len(old) = n
  BY BetweenType
<1>3. new \in Seq(Byte) /\ Len(new) = n - 1
  BY <1>1, BetweenType
<1>4. old # <<>>
  BY <1>2, EmptySeq
<1>5. Head(old) = b[Slot(t)]
  <2>1. old[1] = b[Slot(Plus(t, 0))]
    BY <1>2 DEF Between
  <2>2. Plus(t, 0) = t
    BY WordsFacts DEF Plus, Word
  <2>3. QED
    BY <1>2, <1>4, <2>1, <2>2
<1>6. Tail(old) \in Seq(Byte) /\ Len(Tail(old)) = n - 1
  BY <1>2, <1>4, HeadTailProperties
<1>7. ASSUME NEW i \in 1 .. n - 1 PROVE new[i] = Tail(old)[i]
  <2>1. Tail(old)[i] = old[i + 1]
    BY <1>2, <1>4, <1>6, HeadTailProperties
  <2>2. i + 1 \in 1 .. n /\ (i + 1) - 1 = i
    BY <1>2
  <2>3. old[i + 1] = b[Slot(Plus(t, i))]
    BY <2>2 DEF Between
  <2>4. new[i] = b[Slot(Plus(Inc(t), i - 1))]
    BY <1>1, <1>2 DEF Between
  <2>5. Plus(Inc(t), i - 1) = Plus(t, i)
    <3>1. n < Words
      BY MinusType
    <3> HIDE DEF n
    <3>2. i \in 1 .. Words - 1
      BY <1>2, <3>1, WordsFacts
    <3>3. QED
      BY <3>2, PlusStep
  <2>6. QED
    BY <2>1, <2>3, <2>4, <2>5
<1>8. QED
  BY <1>3, <1>4, <1>5, <1>6, <1>7, SeqEqual

\* The initial states map to the empty queue.
LEMMA InitFifo == Init => Fifo!Init
<1> SUFFICES ASSUME Init PROVE Fifo!Init
  OBVIOUS
<1>1. Minus(head, tail) = 0
  BY WordsFacts DEF Init, Minus
<1>2. head \in Word /\ tail \in Word /\ buf \in [0 .. Size - 1 -> Byte]
  BY WordsFacts DEF Init, Word
<1>3. Contents \in Seq(Byte) /\ Len(Contents) = 0
  BY <1>1, <1>2, BetweenType DEF Contents
<1>4. Contents = <<>>
  BY <1>3, EmptySeq
<1>5. QED
  BY <1>4 DEF Init, Fifo!Init

\* Every step maps to a step of the queue, or to none.
LEMMA StepFifo == IInv /\ [Next]_vars => [Fifo!Next]_(Fifo!vars)
<1> SUFFICES ASSUME IInv, [Next]_vars PROVE [Fifo!Next]_(Fifo!vars)
  OBVIOUS
<1>0. /\ buf \in [0 .. Size - 1 -> Byte] /\ head \in Word /\ tail \in Word
      /\ push \in Push /\ pop \in Pop
      /\ push.byte # None
      /\ Len(Contents) = Count /\ Count \in 0 .. Size
  <2>1. TypeOK /\ CountsConservative
    BY DEF IInv
  <2>2. push.byte \in Byte
    BY <2>1 DEF TypeOK, Push
  <2>3. Len(Contents) = Count /\ Count \in Nat
    BY <2>1, BetweenType DEF TypeOK, Contents, Count
  <2>4. QED
    BY <2>1, <2>2, <2>3, ByteAssumption, WordsFacts DEF TypeOK, CountsConservative
<1>s. ASSUME UNCHANGED <<buf, head, tail>> PROVE Contents' = Contents
  BY <1>s DEF Contents
<1>1. ASSUME NEW b \in Byte, PushBegin(b) PROVE Fifo!Next
  <2>1. Contents' = Contents /\ out' = out /\ overflow' = overflow
    BY <1>s, <1>1 DEF PushBegin
  <2>2. CASE IsFull(Count)
    <3>1. push.pc = "idle" /\ push'.pc = "full"
      BY <1>1, <2>2 DEF PushBegin
    <3>2. Len(Contents) = Size
      BY <1>0, <2>2, WordsFacts DEF IsFull
    <3>3. Fifo!Refuse
      BY <2>1, <3>1, <3>2 DEF Fifo!Refuse, Inc
    <3>4. QED
      BY <3>3 DEF Fifo!Next
  <2>3. CASE ~IsFull(Count)
    <3>1. push.pc = "idle" /\ push'.pc = "store" /\ push'.byte = b
      BY <1>1, <2>3 DEF PushBegin
    <3>2. Len(Contents) < Size
      BY <1>0, <2>3, WordsFacts DEF IsFull
    <3>3. Fifo!Offer(b)
      BY <2>1, <3>1, <3>2 DEF Fifo!Offer
    <3>4. QED
      BY <3>3 DEF Fifo!Next
  <2>4. QED
    BY <2>2, <2>3
<1>2. CASE PushFull
  <2>1. Contents' = Contents /\ out' = out /\ overflow' = Inc(overflow)
    BY <1>s, <1>2 DEF PushFull
  <2>2. push.pc = "full" /\ push'.pc = "idle"
    BY <1>0, <1>2 DEF PushFull, Push
  <2>3. QED
    BY <2>1, <2>2 DEF Fifo!vars
<1>3. CASE PushStore
  <2>1. Count < Size
    BY <1>0, <1>3, WordsFacts DEF PushStore, IInv, CountsConservative, Push, Word
  <2>2. Contents' = Contents
    <3>1. push.byte \in Byte
      BY <1>0 DEF Push
    <3>2. QED
      BY <1>0, <1>3, <2>1, <3>1, StoreKeeps DEF PushStore, Contents, Count
  <2>3. push.pc = "store" /\ push'.pc = "publish" /\ push'.byte = push.byte
    BY <1>0, <1>3 DEF PushStore, Push
  <2>4. out' = out /\ overflow' = overflow
    BY <1>3 DEF PushStore
  <2>5. QED
    BY <2>2, <2>3, <2>4 DEF Fifo!vars
<1>4. CASE PushPublish
  <2>1. Count < Size
    BY <1>0, <1>4, WordsFacts DEF PushPublish, IInv, CountsConservative, Push, Word
  <2>2. buf[Slot(head)] = push.byte
    BY <1>4 DEF PushPublish, IInv, StoredByte
  <2>3. Contents' = Append(Contents, push.byte)
    BY <1>0, <1>4, <2>1, <2>2, PublishAppends DEF PushPublish, Contents, Count
  <2>4. push.pc = "publish" /\ push'.pc = "mark"
    BY <1>0, <1>4 DEF PushPublish, Push
  <2>5. out' = out /\ overflow' = overflow
    BY <1>4 DEF PushPublish
  <2>6. Fifo!Accept
    BY <1>0, <2>1, <2>3, <2>4, <2>5 DEF Fifo!Accept
  <2>7. QED
    BY <2>6 DEF Fifo!Next
<1>5. CASE PushMark
  <2>1. Contents' = Contents /\ out' = out /\ overflow' = overflow
    BY <1>s, <1>5 DEF PushMark
  <2>2. push.pc = "mark" /\ push'.pc = "idle"
    BY <1>0, <1>5 DEF PushMark, Push
  <2>3. QED
    BY <2>1, <2>2 DEF Fifo!vars
<1>6. CASE PopBegin \/ PopLoad \/ CountLoadFirst \/ CountLoadSecond \/ ReportCount \/ ClearPeak
  <2>1. UNCHANGED <<buf, head, tail, push, out, overflow>>
    BY <1>6 DEF PopBegin, PopLoad, CountLoadFirst, CountLoadSecond, ReportCount, ClearPeak
  <2>2. Contents' = Contents
    BY <1>s, <2>1
  <2>3. QED
    BY <2>1, <2>2 DEF Fifo!vars
<1>7. CASE PopAdvance
  <2>1. Count > 0 /\ buf[Slot(tail)] = pop.byte
    BY <1>7 DEF PopAdvance, IInv, CountsConservative, LoadedByte
  <2>2. Contents # <<>> /\ out' = Head(Contents) /\ Contents' = Tail(Contents)
    BY <1>0, <1>7, <2>1, AdvanceTakes DEF PopAdvance, Contents, Count
  <2>3. push' = push /\ overflow' = overflow
    BY <1>7 DEF PopAdvance
  <2>4. Fifo!Take
    BY <2>2, <2>3 DEF Fifo!Take
  <2>5. QED
    BY <2>4 DEF Fifo!Next
<1>8. CASE ResetCounters
  <2>1. Contents' = Contents /\ out' = out /\ push' = push /\ overflow' = 0
    BY <1>s, <1>8 DEF ResetCounters
  <2>2. push.pc = "idle"
    BY <1>8 DEF ResetCounters
  <2>3. Fifo!Clear
    BY <2>1, <2>2 DEF Fifo!Clear
  <2>4. QED
    BY <2>3 DEF Fifo!Next
<1>9. CASE UNCHANGED vars
  <2>1. Contents' = Contents
    BY <1>s, <1>9 DEF vars
  <2>2. QED
    BY <1>9, <2>1 DEF vars, Fifo!vars
<1>10. QED
  BY <1>1, <1>2, <1>3, <1>4, <1>5, <1>6, <1>7, <1>8, <1>9 DEF Next

\* The ring is a bounded FIFO queue that refuses a byte only when it is full
\* and counts every refusal (ringbuf.h:7-15, rb_push, rb_pop), for any size,
\* any word width, any priorities and any interleaving they allow.
THEOREM Refinement == Spec => ImplementsFifo
<1>1. Spec => Fifo!Init /\ [][Fifo!Next]_(Fifo!vars)
  BY InitFifo, StepFifo, Invariance, PTL DEF Spec
<1>2. QED
  BY <1>1 DEF ImplementsFifo, Fifo!Spec
================================================================================
