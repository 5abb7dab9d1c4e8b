------------------------------- MODULE Hub_proofs -------------------------------
(***************************************************************************)
(* The telemetry server, for any number of browsers, points and samples    *)
(* and any sizes of the queues and of the history: the port's state is     *)
(* told truly, no browser misses a sample unseen, and a page that has just *)
(* been loaded shows the rows of the session.                              *)
(***************************************************************************)
EXTENDS Hub, Arithmetic, SequenceTheorems, FiniteSetTheorems, TLAPS

Readings == {"closed", "opening", "read", "put", "forget", "close", "ended"}

\* Samples and rows with numbers up to n.
SamplesTo(n) == [n : 1 .. n, row : Points \cup {NoRow}]
RowsTo(n) == [n : 1 .. n, row : Points]

Distinct(rows) ==
  \A j, k \in 1 .. Len(rows) : rows[j].row = rows[k].row => j = k

(***************************************************************************)
(* The inductive invariant: the port, the hub, who is subscribed, and each *)
(* browser's stream.                                                       *)
(***************************************************************************)

\* The descriptor is forgotten before it is closed, and the loss of the port
\* is told before either.
PortInv ==
  /\ plugged \in BOOLEAN /\ connected \in BOOLEAN /\ fd \in BOOLEAN /\ open \in BOOLEAN
  /\ reader \in [pc : Readings, to : SUBSET (Browsers \cup Stalled)]
  /\ connected => reader.pc \in {"read", "put"}
  /\ fd => reader.pc \in {"read", "put", "forget"}
  /\ reader.pc \in {"opening", "read", "put", "forget"} => open

\* The history is the last samples, without a gap; each point has one row.
KeptInv ==
  /\ received \in 0 .. MaxSamples
  /\ kept \in Seq(SamplesTo(received))
  /\ Len(kept) <= History
  /\ received > 0 => Len(kept) > 0
  /\ \A k \in 1 .. Len(kept) : kept[k].n = received - Len(kept) + k
  /\ sweepRows \in Seq(RowsTo(received))
  /\ Distinct(sweepRows)

\* Where the thread of a browser may be.
Todos == {Steps, <<"snapshot", "greet">>, <<"greet">>, <<>>}

Threads(n) ==
  [on : BOOLEAN, todo : Todos,
   snap : [rows : Seq(RowsTo(n)), kept : Seq(SamplesTo(n)), connected : BOOLEAN]]

Pages(n) == [fresh : BOOLEAN, rows : [Points -> 0 .. n], live : BOOLEAN]

\* A sample is put to those who are subscribed, and to nobody else.
SubsInv ==
  /\ reader.to \subseteq subs
  /\ reader.to # {} => reader.pc = "put"
  /\ reader.pc = "put" => received > 0
  /\ subs \subseteq Stalled \cup Browsers
  /\ serve \in [Browsers -> Threads(received)]
  /\ \A b \in Browsers : b \in subs <=> serve[b].on /\ serve[b].todo # Steps

StreamTypes ==
  /\ queue \in [Browsers -> Seq(SamplesTo(received))]
  /\ page \in [Browsers -> Pages(received)]
  /\ seen \in [Browsers -> SUBSET (1 .. received)]
  /\ gone \in [Browsers -> BOOLEAN] /\ dropped \in [Browsers -> BOOLEAN]

\* The oldest sample a browser is to see.
From(s) == IF s.snap.kept = <<>> THEN 1 ELSE s.snap.kept[1].n

\* Nothing is missing that has been put or sent: it is in the snapshot to be
\* sent or has been seen, it waits, or it is being put.
WholeOf(s, n, q, put, sn, full) ==
  s.on /\ s.todo \in {<<"greet">>, <<>>} /\ ~full =>
    From(s) .. n
      \subseteq Numbers(q) \cup (IF put THEN {n} ELSE {})
                \cup IF s.todo = <<>> THEN sn ELSE Numbers(s.snap.kept)

\* A new page has no rows before the greeting, and those of the session after.
ShownOf(s, p) ==
  /\ Distinct(s.snap.rows)
  /\ s.on /\ p.fresh =>
       IF s.todo # <<>>
         THEN \A i \in Points : p.rows[i] = 0
         ELSE \A k \in 1 .. Len(s.snap.rows) : p.rows[s.snap.rows[k].row] = s.snap.rows[k].n

Whole(b) ==
  WholeOf(serve[b], received, queue[b], b \in reader.to, seen[b], dropped[b])

Shown(b) == ShownOf(serve[b], page[b])

QueuesBounded == \A b \in Browsers : Len(queue[b]) <= QueueMax

Streams ==
  /\ SubsInv /\ StreamTypes /\ QueuesBounded
  /\ \A b \in Browsers : Whole(b) /\ Shown(b)

HubInv == PortInv /\ KeptInv /\ Streams

(***************************************************************************)
(* Sequences of samples.                                                   *)
(***************************************************************************)

LEMMA MinIs ==
  ASSUME NEW S, S \subseteq Nat, S # {}
  PROVE  Min(S) \in S /\ \A y \in S : Min(S) <= y
<1>1. \E x \in S : \A y \in S : x =< y  BY LeastNatural
<1> QED  BY <1>1 DEF Min

\* FirstWith finds the first sample with a row, when there is one.
LEMMA FirstFound ==
  ASSUME NEW T, NEW samples \in Seq(T), NEW i
  PROVE  LET k == FirstWith(samples, i) IN
           /\ k \in 0 .. Len(samples)
           /\ k = 0 => \A j \in 1 .. Len(samples) : samples[j].row # i
           /\ k # 0 => samples[k].row = i
           /\ \A j \in 1 .. Len(samples) : samples[j].row = i => k # 0 /\ k <= j
<1> DEFINE I == {j \in 1 .. Len(samples) : samples[j].row = i}
           k == FirstWith(samples, i)
<1>1. Len(samples) \in Nat  BY LenProperties
<1>2. k = IF I # {} THEN Min(I) ELSE 0
  BY DEF FirstWith, SelectInSeq
<1>3. CASE I = {}
  BY <1>1, <1>2, <1>3
<1>4. CASE I # {}
  <2>1. I \subseteq Nat  BY <1>1
  <2>2. Min(I) \in I /\ \A y \in I : Min(I) <= y  BY <1>4, <2>1, MinIs
  <2>3. FirstWith(samples, i) = Min(I)  BY <1>2, <1>4
  <2> DEFINE m == Min(I)
  <2> HIDE DEF m
  <2>4. m \in 1 .. Len(samples) /\ samples[m].row = i  BY <2>2 DEF m
  <2>5. \A j \in 1 .. Len(samples) : samples[j].row = i => m <= j  BY <2>2 DEF m
  <2>6. m # 0 /\ m \in 0 .. Len(samples)  BY <1>1, <2>4
  <2>7. FirstWith(samples, i) = m  BY <2>3 DEF m
  <2> QED  BY <2>4, <2>5, <2>6, <2>7
<1> QED  BY <1>3, <1>4

LEMMA SamplesGrow ==
  ASSUME NEW m \in Nat, NEW n \in Nat, m <= n
  PROVE  /\ SamplesTo(m) \subseteq SamplesTo(n) /\ RowsTo(m) \subseteq RowsTo(n)
         /\ RowsTo(n) \subseteq SamplesTo(n)
         /\ Seq(SamplesTo(m)) \subseteq Seq(SamplesTo(n))
         /\ Seq(RowsTo(m)) \subseteq Seq(RowsTo(n))
         /\ Seq(RowsTo(n)) \subseteq Seq(SamplesTo(n))
<1>1. /\ SamplesTo(m) \subseteq SamplesTo(n) /\ RowsTo(m) \subseteq RowsTo(n)
      /\ RowsTo(n) \subseteq SamplesTo(n)
  BY DEF SamplesTo, RowsTo
<1> QED  BY <1>1, SeqMonotonic

\* One row for each point: a new one takes the place of the old one.
LEMMA OneRowEach ==
  ASSUME NEW T, NEW rows \in Seq(T), Distinct(rows), NEW s \in T
  PROVE  RowsWith(rows, s) \in Seq(T) /\ Distinct(RowsWith(rows, s))
<1> DEFINE k == FirstWith(rows, s.row)
           left == IF k = 0 THEN rows ELSE RemoveAt(rows, k)
<1>1. /\ k \in 0 .. Len(rows)
      /\ k = 0 => \A j \in 1 .. Len(rows) : rows[j].row # s.row
      /\ k # 0 => rows[k].row = s.row
  BY FirstFound
<1>2. RowsWith(rows, s) = Append(left, s)  BY DEF RowsWith
<1>3. /\ Len(rows) \in Nat
      /\ \A j \in 1 .. Len(rows) : rows[j] \in T
  BY LenProperties, ElementOfSeq
<1>4. left \in Seq(T) /\ Distinct(left) /\ \A j \in 1 .. Len(left) : left[j].row # s.row
  <2>1. CASE k = 0  BY <1>1, <2>1
  <2>2. CASE k # 0
    <3> DEFINE a == SubSeq(rows, 1, k - 1)
               z == SubSeq(rows, k + 1, Len(rows))
    <3> HIDE DEF k
    <3>1. k \in 1 .. Len(rows)  BY <1>1, <1>3, <2>2
    <3>2. /\ a \in Seq(T) /\ Len(a) = k - 1
          /\ \A j \in 1 .. k - 1 : a[j] = rows[j]
      <4>1. \A j \in 1 .. k - 1 : rows[j] \in T  BY <1>3, <3>1
      <4>2. /\ a \in Seq(T)
            /\ Len(a) = IF 1 <= k - 1 THEN (k - 1) - 1 + 1 ELSE 0
            /\ \A j \in 1 .. (k - 1) - 1 + 1 : a[j] = rows[1 + j - 1]
        BY <3>1, <4>1, SubSeqProperties
      <4>3. a \in Seq(T) /\ Len(a) = k - 1  BY <3>1, <4>2
      <4>4. ASSUME NEW j \in 1 .. k - 1 PROVE a[j] = rows[j]
        <5>1. j \in 1 .. (k - 1) - 1 + 1 /\ 1 + j - 1 = j  BY <3>1
        <5> QED  BY <4>2, <5>1
      <4> QED  BY <4>3, <4>4
    <3>3. /\ z \in Seq(T) /\ Len(z) = Len(rows) - k
          /\ \A j \in 1 .. Len(rows) - k : z[j] = rows[k + j]
      <4>1. \A j \in k + 1 .. Len(rows) : rows[j] \in T  BY <1>3, <3>1
      <4>2. /\ z \in Seq(T)
            /\ Len(z) = IF k + 1 <= Len(rows) THEN Len(rows) - (k + 1) + 1 ELSE 0
            /\ \A j \in 1 .. Len(rows) - (k + 1) + 1 : z[j] = rows[(k + 1) + j - 1]
        BY <1>3, <3>1, <4>1, SubSeqProperties
      <4>3. z \in Seq(T) /\ Len(z) = Len(rows) - k  BY <1>3, <3>1, <4>2
      <4>4. ASSUME NEW j \in 1 .. Len(rows) - k PROVE z[j] = rows[k + j]
        <5>1. j \in 1 .. Len(rows) - (k + 1) + 1 /\ (k + 1) + j - 1 = k + j
          BY <1>3, <3>1
        <5> QED  BY <4>2, <5>1
      <4> QED  BY <4>3, <4>4
    <3>4. left = a \o z  BY <2>2 DEF RemoveAt
    <3> HIDE DEF a, z, left
    <3>5. /\ left \in Seq(T) /\ Len(left) = Len(rows) - 1
          /\ \A j \in 1 .. Len(rows) - 1 :
               left[j] = IF j <= k - 1 THEN a[j] ELSE z[j - (k - 1)]
      <4>1. Len(a) + Len(z) = Len(rows) - 1  BY <1>3, <3>1, <3>2, <3>3
      <4> QED  BY <3>2, <3>3, <3>4, <4>1, ConcatProperties
    <3>6. ASSUME NEW j \in 1 .. Len(rows) - 1
          PROVE  left[j] = rows[IF j < k THEN j ELSE j + 1]
      <4>1. CASE j < k  BY <1>3, <3>1, <3>2, <3>5, <4>1
      <4>2. CASE j >= k
        <5>1. left[j] = z[j - (k - 1)]  BY <1>3, <3>1, <3>5, <4>2
        <5>2. j - (k - 1) \in 1 .. Len(rows) - k /\ k + (j - (k - 1)) = j + 1
          BY <1>3, <3>1, <4>2
        <5> QED  BY <3>3, <4>2, <5>1, <5>2, <3>1
      <4> QED  BY <3>1, <4>1, <4>2
    <3>7. Distinct(left)
      <4> SUFFICES ASSUME NEW i \in 1 .. Len(left), NEW j \in 1 .. Len(left),
                          left[i].row = left[j].row
                   PROVE  i = j
        BY DEF Distinct
      <4> DEFINE at(x) == IF x < k THEN x ELSE x + 1
      <4>1. at(i) \in 1 .. Len(rows) /\ at(j) \in 1 .. Len(rows)
        BY <1>3, <3>1, <3>5
      <4>2. rows[at(i)].row = rows[at(j)].row  BY <3>5, <3>6
      <4>3. at(i) = at(j)  BY <4>1, <4>2 DEF Distinct
      <4> QED  BY <3>1, <3>5, <4>3, <1>3
    <3>8. ASSUME NEW j \in 1 .. Len(left) PROVE left[j].row # s.row
      <4> DEFINE at == IF j < k THEN j ELSE j + 1
      <4>1. at \in 1 .. Len(rows) /\ at # k  BY <1>3, <3>1, <3>5
      <4>2. left[j] = rows[at]  BY <3>5, <3>6
      <4>3. rows[k].row = s.row  BY <1>1, <2>2
      <4> HIDE DEF at
      <4> QED  BY <3>1, <4>1, <4>2, <4>3 DEF Distinct
    <3> QED  BY <3>5, <3>7, <3>8
  <2> QED  BY <2>1, <2>2
<1> HIDE DEF left
<1>5. /\ Append(left, s) \in Seq(T) /\ Len(Append(left, s)) = Len(left) + 1
      /\ \A j \in 1 .. Len(left) : Append(left, s)[j] = left[j]
      /\ Append(left, s)[Len(left) + 1] = s
  BY <1>4, AppendProperties
<1>6. Distinct(Append(left, s))
  <2> SUFFICES ASSUME NEW i \in 1 .. Len(left) + 1, NEW j \in 1 .. Len(left) + 1,
                      Append(left, s)[i].row = Append(left, s)[j].row
               PROVE  i = j
    BY <1>5 DEF Distinct
  <2>1. Len(left) \in Nat  BY <1>4, LenProperties
  <2>2. CASE i <= Len(left) /\ j <= Len(left)
    BY <1>4, <1>5, <2>1, <2>2 DEF Distinct
  <2>3. CASE i = Len(left) + 1 /\ j <= Len(left)
    BY <1>4, <1>5, <2>1, <2>3
  <2>4. CASE i <= Len(left) /\ j = Len(left) + 1
    BY <1>4, <1>5, <2>1, <2>4
  <2> QED  BY <2>1, <2>2, <2>3, <2>4
<1> QED  BY <1>2, <1>5, <1>6

\* There are no more rows than points: none is ever cut off.
LEMMA RowsFit ==
  ASSUME NEW n \in Nat, NEW rows \in Seq(RowsTo(n)), Distinct(rows)
  PROVE  Len(rows) <= Cardinality(Points)
<1> DEFINE f == [k \in 1 .. Len(rows) |-> rows[k].row]
<1>1. Len(rows) \in Nat  BY LenProperties
<1>2. ASSUME NEW k \in 1 .. Len(rows) PROVE rows[k].row \in Points
  <2>1. rows[k] \in RowsTo(n)  BY ElementOfSeq
  <2> QED  BY <2>1 DEF RowsTo
<1>3. f \in Injection(1 .. Len(rows), Points)
  BY <1>2 DEF Injection, IsInjective, Distinct
<1>4. Cardinality(1 .. Len(rows)) <= Cardinality(Points)
  BY <1>3, HubAssumption, FS_Injection
<1>5. Cardinality(1 .. Len(rows)) = Len(rows)
  <2>1. Cardinality(1 .. Len(rows)) = IF 1 > Len(rows) THEN 0 ELSE Len(rows) - 1 + 1
    <3>1. 1 \in Int /\ Len(rows) \in Int  BY <1>1
    <3> QED  BY <3>1, FS_Interval
  <2> QED  BY <1>1, <2>1
<1> QED  BY <1>4, <1>5

(***************************************************************************)
(* The port.                                                               *)
(***************************************************************************)

LEMMA PortStart == Init => PortInv
<1> SUFFICES ASSUME Init PROVE PortInv  OBVIOUS
<1>1. plugged \in BOOLEAN /\ ~connected /\ ~fd /\ ~open  BY DEF Init
<1>2. connected \in BOOLEAN /\ fd \in BOOLEAN /\ open \in BOOLEAN  BY DEF Init
<1>3. reader = [pc |-> "closed", to |-> {}]  BY DEF Init
<1>4. reader \in [pc : Readings, to : SUBSET (Browsers \cup Stalled)] /\ reader.pc = "closed"
  BY <1>3 DEF Readings
<1> QED  BY <1>1, <1>2, <1>4 DEF PortInv

LEMMA PortNext ==
  PortInv /\ subs \subseteq Stalled \cup Browsers /\ [Next]_vars => PortInv'
<1> SUFFICES ASSUME PortInv, subs \subseteq Stalled \cup Browsers, [Next]_vars
             PROVE  PortInv'
  OBVIOUS
<1> USE DEF PortInv, Readings, port
<1>1. CASE Plug  BY <1>1 DEF Plug
<1>2. CASE Open  BY <1>2 DEF Open
<1>3. CASE SetRaw
  <2>1. reader.pc = "opening" /\ ~fd /\ plugged' = plugged  BY <1>3 DEF SetRaw
  <2>2. CASE /\ connected' = TRUE /\ fd' = TRUE
             /\ reader' = [reader EXCEPT !.pc = "read"] /\ UNCHANGED open
    BY <2>1, <2>2
  <2>3. CASE /\ open' = FALSE /\ UNCHANGED fd
             /\ reader' = [reader EXCEPT !.pc = "closed"] /\ connected' = FALSE
    BY <2>1, <2>3
  <2>4. CASE /\ open' = FALSE /\ UNCHANGED fd
             /\ reader' = [reader EXCEPT !.pc = "ended"] /\ UNCHANGED connected
    BY <2>1, <2>4
  <2> QED  BY <1>3, <2>2, <2>3, <2>4 DEF SetRaw
<1>4. CASE \E row \in Points \cup {NoRow} : Publish(row)
  BY <1>4 DEF Publish
<1>5. CASE \E b \in Browsers \cup Stalled : Put(b)
  BY <1>5 DEF Put, Rest
<1>6. CASE PutAll  BY <1>6 DEF PutAll
<1>7. CASE Drop  BY <1>7 DEF Drop
<1>8. CASE Forget  BY <1>8 DEF Forget, ForgetFirst
<1>9. CASE Close  BY <1>9 DEF Close
<1>10. ASSUME NEW b \in Browsers,
              Connect(b) \/ Attach(b) \/ Send(b) \/ Ping(b) \/ Leave(b)
       PROVE  PortInv'
  <2>1. UNCHANGED <<port, reader>>
    BY <1>10 DEF Connect, Attach, Subscribe, Snapshot, Send, Greet, SendSample, Ping, Leave
  <2> QED  BY <2>1
<1>11. ASSUME NEW b \in Browsers, Quit(b) PROVE PortInv'
  BY <1>11 DEF Quit
<1>12. CASE UNCHANGED vars  BY <1>12 DEF vars
<1> QED
  BY <1>1, <1>2, <1>3, <1>4, <1>5, <1>6, <1>7, <1>8, <1>9, <1>10, <1>11, <1>12
     DEF Next, Reader

(***************************************************************************)
(* The history and the rows.                                               *)
(***************************************************************************)

LEMMA KeptStart == Init => KeptInv
<1> SUFFICES ASSUME Init PROVE KeptInv  OBVIOUS
<1>1. received = 0 /\ kept = <<>> /\ sweepRows = <<>>  BY DEF Init
<1>2. \A T : <<>> \in Seq(T)  BY EmptySeq
<1>3. Len(<<>>) = 0  BY EmptySeq
<1> QED  BY <1>1, <1>2, <1>3, HubAssumption DEF KeptInv, Distinct

\* The history with a new sample: the newest, still without a gap.
LEMMA HistoryKept ==
  ASSUME KeptInv, NEW m, m = received + 1,
         NEW row \in Points \cup {NoRow}, NEW s, s = [n |-> m, row |-> row],
         NEW new, new = Trim(Append(kept, s))
  PROVE  /\ new \in Seq(SamplesTo(m))
         /\ Len(new) <= History /\ Len(new) > 0
         /\ \A k \in 1 .. Len(new) : new[k].n = m - Len(new) + k
<1> DEFINE all == Append(kept, s)
<1>1. received \in Nat /\ m \in Nat  BY HubAssumption DEF KeptInv
<1>2. kept \in Seq(SamplesTo(m))  BY <1>1, SamplesGrow DEF KeptInv
<1>3. s \in SamplesTo(m)  BY <1>1 DEF SamplesTo
<1>4. /\ all \in Seq(SamplesTo(m)) /\ Len(all) = Len(kept) + 1 /\ all # <<>>
      /\ \A k \in 1 .. Len(kept) : all[k] = kept[k]
      /\ all[Len(kept) + 1] = s
  BY <1>2, <1>3, AppendProperties
<1>5. Len(kept) \in Nat  BY <1>2, LenProperties
<1>6. ASSUME NEW k \in 1 .. Len(all) PROVE all[k].n = received - Len(kept) + k
  <2>1. CASE k = Len(kept) + 1
    <3>1. all[k].n = m  BY <1>4, <2>1
    <3> QED  BY <1>1, <1>5, <2>1, <3>1
  <2>2. CASE k \in 1 .. Len(kept)  BY <1>4, <2>2 DEF KeptInv
  <2> QED  BY <1>4, <1>5, <2>1, <2>2
<1> HIDE DEF all
<1>7. CASE Len(all) > History
  <2>1. new = Tail(all)  BY <1>7 DEF Trim, all
  <2>2. /\ new \in Seq(SamplesTo(m)) /\ Len(new) = Len(all) - 1
        /\ \A k \in 1 .. Len(new) : new[k] = all[k + 1]
    <3>1. /\ Tail(all) \in Seq(SamplesTo(m)) /\ Len(Tail(all)) = Len(all) - 1
          /\ \A k \in 1 .. Len(Tail(all)) : Tail(all)[k] = all[k + 1]
      BY <1>4, HeadTailProperties
    <3>2. new \in Seq(SamplesTo(m)) /\ Len(new) = Len(all) - 1  BY <2>1, <3>1, Zenon
    <3>3. ASSUME NEW k \in 1 .. Len(new) PROVE new[k] = all[k + 1]
      BY <2>1, <3>1, Zenon
    <3> QED  BY <3>2, <3>3
  <2>3. Len(new) = Len(kept) /\ Len(kept) <= History /\ Len(new) = History
    BY <1>4, <1>5, <1>7, <2>2, HubAssumption DEF KeptInv
  <2>4. ASSUME NEW k \in 1 .. Len(new) PROVE new[k].n = m - Len(new) + k
    <3>1. k + 1 \in 1 .. Len(all)  BY <1>4, <1>5, <2>3
    <3>2. new[k].n = received - Len(kept) + (k + 1)  BY <1>6, <2>2, <3>1
    <3>3. received - Len(kept) + (k + 1) = m - Len(kept) + k  BY <1>1, <1>5
    <3> QED  BY <2>3, <3>2, <3>3
  <2>5. Len(new) > 0  BY <2>3, HubAssumption
  <2> QED  BY <2>2, <2>3, <2>4, <2>5, HubAssumption
<1>8. CASE ~(Len(all) > History)
  <2>1. new = all  BY <1>8 DEF Trim, all
  <2>2. ASSUME NEW k \in 1 .. Len(new) PROVE new[k].n = m - Len(new) + k
    <3>1. new[k].n = received - Len(kept) + k  BY <1>6, <2>1
    <3> QED  BY <1>1, <1>4, <1>5, <2>1, <3>1
  <2>3. Len(new) <= History /\ Len(new) > 0
    BY <1>4, <1>5, <1>8, <2>1, HubAssumption
  <2>4. new \in Seq(SamplesTo(m))  BY <1>4, <2>1
  <2> QED  BY <2>2, <2>3, <2>4
<1> QED  BY <1>7, <1>8

LEMMA KeptNext == KeptInv /\ [Next]_vars => KeptInv'
<1> SUFFICES ASSUME KeptInv, [Next]_vars PROVE KeptInv'  OBVIOUS
<1>1. ASSUME NEW row \in Points \cup {NoRow}, Publish(row) PROVE KeptInv'
  <2> DEFINE s == [n |-> received + 1, row |-> row]
  <2>1. /\ received < MaxSamples /\ received' = received + 1
        /\ kept' = Trim(Append(kept, s))
        /\ sweepRows' = IF row = NoRow THEN sweepRows ELSE RowsWith(sweepRows, s)
    BY <1>1 DEF Publish
  <2>2. received \in Nat /\ received + 1 \in 0 .. MaxSamples
    BY <2>1, HubAssumption DEF KeptInv
  <2>3. /\ kept' \in Seq(SamplesTo(received'))
        /\ Len(kept') <= History /\ Len(kept') > 0
        /\ \A k \in 1 .. Len(kept') : kept'[k].n = received' - Len(kept') + k
    <3> DEFINE m == received'
               new == kept'
    <3>1. m = received + 1 /\ s = [n |-> m, row |-> row] /\ new = Trim(Append(kept, s))
      BY <2>1
    <3> HIDE DEF m, new, s
    <3>2. /\ new \in Seq(SamplesTo(m))
          /\ Len(new) <= History /\ Len(new) > 0
          /\ \A k \in 1 .. Len(new) : new[k].n = m - Len(new) + k
      BY <3>1, HistoryKept
    <3> QED  BY <3>2 DEF m, new
  <2>4. sweepRows \in Seq(RowsTo(received + 1)) /\ Distinct(sweepRows)
    BY <2>2, SamplesGrow DEF KeptInv
  <2>5. sweepRows' \in Seq(RowsTo(received + 1)) /\ Distinct(sweepRows')
    <3>1. CASE row = NoRow  BY <2>1, <2>4, <3>1
    <3>2. CASE row # NoRow
      <4>1. s \in RowsTo(received + 1)  BY <2>2, <3>2 DEF RowsTo
      <4> HIDE DEF s
      <4>2. RowsWith(sweepRows, s) \in Seq(RowsTo(received + 1))
            /\ Distinct(RowsWith(sweepRows, s))
        BY <2>4, <4>1, OneRowEach
      <4> QED  BY <2>1, <3>2, <4>2
    <3> QED  BY <3>1, <3>2
  <2>6. received' \in 0 .. MaxSamples  BY <2>1, <2>2
  <2>8. kept' \in Seq(SamplesTo(received')) /\ sweepRows' \in Seq(RowsTo(received'))
    BY <2>1, <2>3, <2>5
  <2>9. Distinct(sweepRows)'  BY <2>5 DEF Distinct
  <2> QED  BY <2>3, <2>6, <2>8, <2>9 DEF KeptInv, SamplesTo, RowsTo
<1>2. CASE UNCHANGED hub  BY <1>2 DEF hub, KeptInv, Distinct
<1> QED
  BY <1>1, <1>2 DEF Next, Plug, Reader, Open, SetRaw, Put, PutAll, Drop, Forget, Close,
     Connect, Attach, Subscribe, Snapshot, Send, Greet, SendSample, Ping, Leave, Quit, vars

(***************************************************************************)
(* The browsers.                                                           *)
(***************************************************************************)

LEMMA StepsAre ==
  /\ Steps = <<"subscribe", "snapshot", "greet">>
  /\ Head(Steps) = "subscribe" /\ Tail(Steps) = <<"snapshot", "greet">>
  /\ Head(<<"snapshot", "greet">>) = "snapshot" /\ Tail(<<"snapshot", "greet">>) = <<"greet">>
  /\ Head(<<"greet">>) = "greet" /\ Tail(<<"greet">>) = <<>>
  /\ Steps # <<"snapshot", "greet">> /\ Steps # <<"greet">> /\ Steps # <<>>
  /\ <<"snapshot", "greet">> # <<"greet">> /\ <<"snapshot", "greet">> # <<>>
  /\ <<"greet">> # <<>>
BY DEF Steps

\* What a thread does next tells what it has still to do.
LEMMA BusyWith ==
  ASSUME SubsInv, NEW b \in Browsers
  PROVE  /\ Busy(b, "subscribe") => serve[b].on /\ serve[b].todo = Steps
         /\ Busy(b, "snapshot") => serve[b].on /\ serve[b].todo = <<"snapshot", "greet">>
         /\ Busy(b, "greet") => serve[b].on /\ serve[b].todo = <<"greet">>
<1>1. serve[b].todo \in Todos  BY DEF SubsInv, Threads
<1> QED  BY <1>1, StepsAre DEF Busy, Todos

LEMMA NumbersOfAppend ==
  ASSUME NEW T, NEW q \in Seq(T), NEW s \in T
  PROVE  Numbers(Append(q, s)) = Numbers(q) \cup {s.n}
<1> DEFINE z == Append(q, s)
<1>1. Len(q) \in Nat /\ DOMAIN q = 1 .. Len(q)  BY LenProperties
<1>2. /\ z \in Seq(T) /\ Len(z) = Len(q) + 1
      /\ \A k \in 1 .. Len(q) : z[k] = q[k]
      /\ z[Len(q) + 1] = s
  BY AppendProperties
<1> HIDE DEF z
<1>3. DOMAIN z = 1 .. Len(q) + 1  BY <1>2, LenProperties
<1>4. ASSUME NEW x \in Numbers(z) PROVE x \in Numbers(q) \cup {s.n}
  <2>1. PICK k \in 1 .. Len(q) + 1 : x = z[k].n  BY <1>3 DEF Numbers
  <2>2. CASE k = Len(q) + 1  BY <1>2, <2>1, <2>2
  <2>3. CASE k \in 1 .. Len(q)  BY <1>1, <1>2, <2>1, <2>3 DEF Numbers
  <2> QED  BY <1>1, <2>2, <2>3
<1>5. ASSUME NEW x \in Numbers(q) \cup {s.n} PROVE x \in Numbers(z)
  <2>1. CASE x = s.n
    <3>1. Len(q) + 1 \in DOMAIN z /\ z[Len(q) + 1].n = x  BY <1>1, <1>2, <1>3, <2>1
    <3> QED  BY <3>1 DEF Numbers
  <2>2. CASE x \in Numbers(q)
    <3>1. PICK k \in 1 .. Len(q) : x = q[k].n  BY <1>1, <2>2 DEF Numbers
    <3>2. k \in DOMAIN z /\ z[k].n = x  BY <1>1, <1>2, <1>3, <3>1
    <3> QED  BY <3>2 DEF Numbers
  <2> QED  BY <2>1, <2>2
<1> QED  BY <1>4, <1>5 DEF z

\* Taking the head leaves the others.
LEMMA NumbersOfTail ==
  ASSUME NEW T, NEW q \in Seq(T), q # <<>>
  PROVE  Numbers(q) \subseteq Numbers(Tail(q)) \cup {Head(q).n}
<1> DEFINE z == Tail(q)
<1>1. Len(q) \in Nat \ {0} /\ DOMAIN q = 1 .. Len(q)  BY LenProperties, EmptySeq
<1>2. Head(q) = q[1]  BY <1>1
<1>3. /\ z \in Seq(T) /\ Len(z) = Len(q) - 1
      /\ \A k \in 1 .. Len(z) : z[k] = q[k + 1]
  BY HeadTailProperties
<1> HIDE DEF z
<1>4. DOMAIN z = 1 .. Len(q) - 1  BY <1>3, LenProperties
<1>5. ASSUME NEW x \in Numbers(q) PROVE x \in Numbers(z) \cup {Head(q).n}
  <2>1. PICK k \in 1 .. Len(q) : x = q[k].n  BY <1>1 DEF Numbers
  <2>2. CASE k = 1  BY <1>2, <2>1, <2>2
  <2>3. CASE k - 1 \in 1 .. Len(q) - 1
    <3>1. (k - 1) + 1 = k  BY <2>1
    <3>2. k - 1 \in DOMAIN z /\ z[k - 1].n = x  BY <1>3, <1>4, <2>1, <2>3, <3>1
    <3> QED  BY <3>2 DEF Numbers
  <2> QED  BY <1>1, <2>2, <2>3
<1> QED  BY <1>5 DEF z

\* A sequence without a gap has every number from its first to its last.
LEMMA NumbersOfRun ==
  ASSUME NEW T, NEW q \in Seq(T), q # <<>>, NEW n \in Int,
         \A k \in 1 .. Len(q) : q[k].n = n - Len(q) + k
  PROVE  q[1].n .. n \subseteq Numbers(q)
<1>1. Len(q) \in Nat \ {0} /\ DOMAIN q = 1 .. Len(q)  BY LenProperties, EmptySeq
<1>2. q[1].n = n - Len(q) + 1  BY <1>1
<1>3. ASSUME NEW x \in q[1].n .. n PROVE x \in Numbers(q)
  <2>1. x \in n - Len(q) + 1 .. n  BY <1>2
  <2> DEFINE k == x - (n - Len(q))
  <2>2. k \in 1 .. Len(q) /\ n - Len(q) + k = x  BY <1>1, <2>1
  <2> HIDE DEF k
  <2>3. q[k].n = x  BY <2>2
  <2> QED  BY <1>1, <2>2, <2>3 DEF Numbers
<1> QED  BY <1>3

LEMMA NumbersWithin ==
  ASSUME NEW n \in Nat, NEW q \in Seq(SamplesTo(n))
  PROVE  Numbers(q) \subseteq 1 .. n
<1>1. DOMAIN q = 1 .. Len(q)  BY LenProperties
<1>2. \A k \in 1 .. Len(q) : q[k] \in SamplesTo(n)  BY ElementOfSeq
<1> QED  BY <1>1, <1>2 DEF Numbers, SamplesTo

LEMMA StreamsStart == Init => Streams
<1> SUFFICES ASSUME Init PROVE Streams  OBVIOUS
<1> USE HubAssumption
<1>1. /\ received = 0 /\ reader = [pc |-> "closed", to |-> {}] /\ subs = Stalled
      /\ queue = [b \in Browsers |-> <<>>]
      /\ serve = [b \in Browsers |-> Idle]
      /\ gone = [b \in Browsers |-> FALSE]
      /\ page = [b \in Browsers |-> NewPage]
      /\ seen = [b \in Browsers |-> {}]
      /\ dropped = [b \in Browsers |-> FALSE]
  BY DEF Init
<1>2. \A T : <<>> \in Seq(T)  BY EmptySeq
<1>3. Len(<<>>) = 0  BY EmptySeq
<1>4. Idle \in Threads(0) /\ Idle.on = FALSE /\ Idle.snap.rows = <<>>
  <2>1. NoSnapshot \in [rows : Seq(RowsTo(0)), kept : Seq(SamplesTo(0)), connected : BOOLEAN]
    BY <1>2 DEF NoSnapshot
  <2>2. Idle \in Threads(0)  BY <2>1 DEF Idle, Threads, Todos
  <2> QED  BY <2>2 DEF Idle, NoSnapshot
<1>5. NewPage \in Pages(0)  BY DEF NewPage, Pages
<1>6. SubsInv
  <2>1. reader.to = {} /\ reader.pc = "closed"  BY <1>1
  <2>2. serve \in [Browsers -> Threads(received)]  BY <1>1, <1>4
  <2>3. \A b \in Browsers : b \in subs <=> serve[b].on /\ serve[b].todo # Steps
    BY <1>1, <1>4
  <2> QED  BY <1>1, <2>1, <2>2, <2>3 DEF SubsInv
<1>7. StreamTypes  BY <1>1, <1>2, <1>5 DEF StreamTypes
<1>8. QueuesBounded  BY <1>1, <1>3 DEF QueuesBounded
<1>9. ASSUME NEW b \in Browsers PROVE Whole(b) /\ Shown(b)
  <2>1. serve[b] = Idle  BY <1>1
  <2> QED  BY <1>3, <1>4, <2>1 DEF Whole, WholeOf, Shown, ShownOf, Distinct
<1> QED  BY <1>6, <1>7, <1>8, <1>9 DEF Streams

LEMMA ThreadsGrow ==
  ASSUME NEW m \in Nat, NEW n \in Nat, m <= n
  PROVE  Threads(m) \subseteq Threads(n) /\ Pages(m) \subseteq Pages(n)
<1>1. Seq(RowsTo(m)) \subseteq Seq(RowsTo(n)) /\ Seq(SamplesTo(m)) \subseteq Seq(SamplesTo(n))
  BY SamplesGrow
<1>2. 0 .. m \subseteq 0 .. n  OBVIOUS
<1>3. Threads(m) \subseteq Threads(n)  BY <1>1 DEF Threads
<1>4. Pages(m) \subseteq Pages(n)  BY <1>2 DEF Pages
<1> QED  BY <1>3, <1>4

\* A step that touches no stream, and neither the samples nor the subscribers.
LEMMA StreamsKept ==
  ASSUME Streams, UNCHANGED <<received, subs, queue, serve, page, seen, dropped>>,
         gone' \in [Browsers -> BOOLEAN], reader'.to = reader.to,
         reader.to # {} => reader'.pc = "put", reader'.pc = "put" => received > 0
  PROVE  Streams'
<1>1. SubsInv'  BY DEF Streams, SubsInv
<1>2. StreamTypes' /\ QueuesBounded'  BY DEF Streams, StreamTypes, QueuesBounded
<1>3. ASSUME NEW b \in Browsers PROVE Whole(b)' /\ Shown(b)'
  BY DEF Streams, Whole, Shown
<1> QED  BY <1>1, <1>2, <1>3 DEF Streams

\* A step of one browser's stream leaves the others.
LEMMA OthersKept ==
  ASSUME Streams, NEW b \in Browsers, UNCHANGED received,
         NEW w \in Browsers, w # b,
         serve'[w] = serve[w], queue'[w] = queue[w], page'[w] = page[w],
         seen'[w] = seen[w], dropped'[w] = dropped[w],
         w \in reader'.to <=> w \in reader.to
  PROVE  Whole(w)' /\ Shown(w)'
<1>1. Whole(w) /\ Shown(w)  BY DEF Streams
<1>2. Shown(w)'  BY <1>1 DEF Shown
<1>3. (w \in reader.to)' = (w \in reader.to)  OBVIOUS
<1>4. Whole(w)'  BY <1>1, <1>3 DEF Whole
<1> QED  BY <1>2, <1>4

\* The new sample is to be put to all who are subscribed.
LEMMA PublishKeeps ==
  ASSUME Streams, PortInv, received \in Nat,
         NEW row \in Points \cup {NoRow}, Publish(row)
  PROVE  Streams'
<1> DEFINE n == received + 1
<1>1. /\ received' = n /\ reader' = [pc |-> "put", to |-> subs]
      /\ UNCHANGED streams /\ reader.pc = "read"
  BY DEF Publish
<1>2. n \in Nat /\ received <= n /\ 0 < n  OBVIOUS
<1> HIDE DEF n
<1>3. /\ UNCHANGED <<subs, queue, serve, gone, page, seen, dropped>>
      /\ reader'.to = subs /\ reader'.pc = "put"
  BY <1>1 DEF streams
<1>4. reader.to = {}  BY <1>1 DEF Streams, SubsInv
<1>5. SubsInv'
  <2>1. serve \in [Browsers -> Threads(n)]
    BY <1>2, ThreadsGrow DEF Streams, SubsInv
  <2>2. received' > 0  BY <1>1, <1>2
  <2> QED  BY <1>1, <1>3, <2>1, <2>2 DEF Streams, SubsInv
<1>6. StreamTypes'
  <2>1. queue \in [Browsers -> Seq(SamplesTo(n))]
    BY <1>2, SamplesGrow DEF Streams, StreamTypes
  <2>2. page \in [Browsers -> Pages(n)]
    BY <1>2, ThreadsGrow DEF Streams, StreamTypes
  <2>3. seen \in [Browsers -> SUBSET (1 .. n)]
    <3>1. 1 .. received \subseteq 1 .. n  BY <1>2
    <3> QED  BY <3>1 DEF Streams, StreamTypes
  <2> QED  BY <1>1, <1>3, <2>1, <2>2, <2>3 DEF Streams, StreamTypes
<1>7. QueuesBounded'  BY <1>3 DEF Streams, QueuesBounded
<1>8. ASSUME NEW b \in Browsers PROVE Whole(b)' /\ Shown(b)'
  <2>1. Whole(b) /\ Shown(b)  BY DEF Streams
  <2>2. Shown(b)'  BY <1>3, <2>1 DEF Shown
  <2> DEFINE s == serve[b]
  <2>3. serve'[b] = s /\ queue'[b] = queue[b] /\ seen'[b] = seen[b] /\ dropped'[b] = dropped[b]
    BY <1>3
  <2>4. b \in reader'.to <=> s.on /\ s.todo # Steps  BY <1>3 DEF Streams, SubsInv
  <2>5. b \notin reader.to  BY <1>4
  <2> SUFFICES ASSUME s.on, s.todo \in {<<"greet">>, <<>>}, ~dropped[b]
               PROVE  From(s) .. n \subseteq Numbers(queue[b]) \cup {n}
                        \cup IF s.todo = <<>> THEN seen[b] ELSE Numbers(s.snap.kept)
    <3>1. s.on /\ s.todo \in {<<"greet">>, <<>>} => b \in reader'.to
      BY <2>4, StepsAre
    <3> QED  BY <1>1, <2>2, <2>3, <3>1 DEF Whole, WholeOf
  <2>6. From(s) .. received \subseteq Numbers(queue[b]) \cup {}
          \cup IF s.todo = <<>> THEN seen[b] ELSE Numbers(s.snap.kept)
    BY <2>1, <2>5 DEF Whole, WholeOf
  <2>7. From(s) .. n \subseteq (From(s) .. received) \cup {n}
    <3>1. From(s) \in Int
      <4>1. s.snap.kept \in Seq(SamplesTo(received))
        BY DEF Streams, SubsInv, Threads
      <4>2. CASE s.snap.kept = <<>>  BY <4>2 DEF From
      <4>3. CASE s.snap.kept # <<>>
        <5>1. 1 \in 1 .. Len(s.snap.kept)
          <6>1. Len(s.snap.kept) \in Nat \ {0}  BY <4>1, <4>3, EmptySeq
          <6> QED  BY <6>1
        <5>2. s.snap.kept[1] \in SamplesTo(received)  BY <4>1, <5>1, ElementOfSeq
        <5> QED  BY <4>3, <5>2 DEF From, SamplesTo
      <4> QED  BY <4>2, <4>3
    <3>2. From(s) .. received + 1 \subseteq (From(s) .. received) \cup {received + 1}
      BY <3>1
    <3> QED  BY <3>2 DEF n
  <2> QED  BY <2>6, <2>7
<1> QED  BY <1>5, <1>6, <1>7, <1>8 DEF Streams

\* The sample waits in the queue now, or the queue was full.
LEMMA PutKeeps ==
  ASSUME Streams, KeptInv, PortInv, NEW b \in Browsers \cup Stalled, Put(b)
  PROVE  Streams'
<1>1. /\ reader.pc = "put" /\ b \in reader.to
      /\ reader' = [reader EXCEPT !.to = reader.to \ {b}]
      /\ queue' = IF Room(b) THEN [queue EXCEPT ![b] = Append(@, Last(kept))] ELSE queue
      /\ dropped' = [w \in Browsers |-> dropped[w] \/ (w = b /\ ~Room(b))]
      /\ UNCHANGED <<received, kept, subs, serve, gone, page, seen>>
  BY DEF Put, Rest, hub
<1>2. reader'.pc = "put" /\ reader'.to = reader.to \ {b}  BY <1>1 DEF PortInv
<1>3. Last(kept) \in SamplesTo(received) /\ Last(kept).n = received
  <2>1. received > 0 /\ kept \in Seq(SamplesTo(received)) /\ Len(kept) > 0
    BY <1>1 DEF Streams, SubsInv, KeptInv
  <2>2. Len(kept) \in Nat /\ Len(kept) \in 1 .. Len(kept)  BY <2>1, LenProperties
  <2>3. kept[Len(kept)] \in SamplesTo(received)  BY <2>1, <2>2, ElementOfSeq
  <2>4. kept[Len(kept)].n = received - Len(kept) + Len(kept)  BY <2>2 DEF KeptInv
  <2>5. received - Len(kept) + Len(kept) = received  BY <2>2, HubAssumption DEF KeptInv
  <2> QED  BY <2>3, <2>4, <2>5 DEF Last
<1>4. /\ queue \in [Browsers -> Seq(SamplesTo(received))]
      /\ \A w \in Browsers : Len(queue[w]) <= QueueMax
      /\ dropped \in [Browsers -> BOOLEAN]
  BY DEF Streams, StreamTypes, QueuesBounded
<1>5. Room(b) => b \in Browsers /\ Len(queue[b]) < QueueMax  BY DEF Room
<1>6. ASSUME Room(b)
      PROVE  /\ queue'[b] = Append(queue[b], Last(kept))
             /\ queue'[b] \in Seq(SamplesTo(received))
             /\ Len(queue'[b]) <= QueueMax
             /\ Numbers(queue'[b]) = Numbers(queue[b]) \cup {received}
  <2>1. queue'[b] = Append(queue[b], Last(kept))  BY <1>1, <1>4, <1>5, <1>6
  <2>2. queue[b] \in Seq(SamplesTo(received))  BY <1>4, <1>5, <1>6
  <2> DEFINE q == Append(queue[b], Last(kept))
  <2>3. q \in Seq(SamplesTo(received)) /\ Len(q) = Len(queue[b]) + 1
    BY <1>3, <2>2, AppendProperties
  <2>4. Numbers(q) = Numbers(queue[b]) \cup {received}
    BY <1>3, <2>2, NumbersOfAppend
  <2>5. Len(q) <= QueueMax
    <3>1. Len(queue[b]) \in Nat  BY <2>2, LenProperties
    <3> QED  BY <1>5, <1>6, <2>3, <3>1, HubAssumption
  <2> HIDE DEF q
  <2>6. queue'[b] = q  BY <2>1 DEF q
  <2> QED  BY <2>1, <2>3, <2>4, <2>5, <2>6
<1>7. SubsInv'  BY <1>1, <1>2 DEF Streams, SubsInv
<1>8. StreamTypes' /\ QueuesBounded'
  <2>1. \A w \in Browsers : w # b => queue'[w] = queue[w]  BY <1>1, <1>4
  <2>2. ~Room(b) => queue' = queue  BY <1>1
  <2>3. \A w \in Browsers : queue'[w] \in Seq(SamplesTo(received)) /\ Len(queue'[w]) <= QueueMax
    BY <1>4, <1>6, <2>1, <2>2
  <2>4. queue' \in [Browsers -> Seq(SamplesTo(received))]
    <3>1. CASE Room(b)
      <4>1. Append(queue[b], Last(kept)) \in Seq(SamplesTo(received))
        BY <1>6, <3>1
      <4>2. queue' = [queue EXCEPT ![b] = Append(queue[b], Last(kept))]
        BY <1>1, <3>1
      <4> QED  BY <1>4, <4>1, <4>2
    <3>2. CASE ~Room(b)  BY <1>4, <2>2, <3>2
    <3> QED  BY <3>1, <3>2
  <2>5. dropped' \in [Browsers -> BOOLEAN]  BY <1>1
  <2> QED  BY <1>1, <2>3, <2>4, <2>5 DEF Streams, StreamTypes, QueuesBounded
<1>9. ASSUME NEW w \in Browsers PROVE Whole(w)' /\ Shown(w)'
  <2>1. Whole(w) /\ Shown(w)  BY DEF Streams
  <2>2. CASE w # b
    <3>1. queue'[w] = queue[w]  BY <1>1, <1>4, <2>2
    <3>2. dropped'[w] = dropped[w]  BY <1>1, <1>4, <2>2
    <3>3. w \in reader'.to <=> w \in reader.to  BY <1>2, <2>2
    <3> QED
      <4>1. Shown(w)'  BY <1>1, <2>1 DEF Shown
      <4>2. (w \in reader.to)' = (w \in reader.to)  BY <3>3
      <4>3. Whole(w)'  BY <1>1, <2>1, <3>1, <3>2, <4>2 DEF Whole
      <4> QED  BY <4>1, <4>3
  <2>3. CASE w = b
    <3>1. Shown(w)'  BY <1>1, <2>1 DEF Shown
    <3>2. CASE Room(b)
      <4>1. /\ Numbers(queue'[w]) = Numbers(queue[w]) \cup {received}
            /\ dropped'[w] = dropped[w]
            /\ w \in reader.to /\ w \notin reader'.to
        BY <1>1, <1>2, <1>4, <1>6, <2>3, <3>2
      <4>2. Whole(w)'  BY <1>1, <2>1, <4>1 DEF Whole, WholeOf
      <4> QED  BY <3>1, <4>2
    <3>3. CASE ~Room(b)
      <4>1. dropped'[w]  BY <1>1, <2>3, <3>3
      <4>2. Whole(w)'  BY <4>1 DEF Whole, WholeOf
      <4> QED  BY <3>1, <4>2
    <3> QED  BY <3>2, <3>3
  <2> QED  BY <2>2, <2>3
<1> QED  BY <1>7, <1>8, <1>9 DEF Streams

\* A browser that connects has nothing before it has subscribed.
LEMMA ConnectKeeps ==
  ASSUME Streams, received \in Nat, NEW b \in Browsers, Connect(b)
  PROVE  Streams'
<1> DEFINE s == [on |-> TRUE, todo |-> Steps, snap |-> NoSnapshot]
<1>1. /\ ~serve[b].on
      /\ serve' = [serve EXCEPT ![b] = s]
      /\ \/ page' = [page EXCEPT ![b] = NewPage]
         \/ page' = [page EXCEPT ![b].fresh = FALSE]
      /\ gone' = [gone EXCEPT ![b] = FALSE]
      /\ seen' = [seen EXCEPT ![b] = {}]
      /\ dropped' = [dropped EXCEPT ![b] = FALSE]
      /\ UNCHANGED <<received, reader, subs, queue>>
  BY DEF Connect, hub
<1>2. /\ serve \in [Browsers -> Threads(received)]
      /\ page \in [Browsers -> Pages(received)]
      /\ seen \in [Browsers -> SUBSET (1 .. received)]
      /\ gone \in [Browsers -> BOOLEAN] /\ dropped \in [Browsers -> BOOLEAN]
  BY DEF Streams, SubsInv, StreamTypes
<1>3. s \in Threads(received)
  <2>1. \A T : <<>> \in Seq(T)  BY EmptySeq
  <2>2. NoSnapshot \in [rows : Seq(RowsTo(received)), kept : Seq(SamplesTo(received)),
                        connected : BOOLEAN]
    BY <2>1 DEF NoSnapshot
  <2> QED  BY <2>2 DEF Threads, Todos
<1>4. s.on /\ s.todo = Steps /\ s.snap.rows = <<>>  BY DEF NoSnapshot
<1> HIDE DEF s
<1>5. serve'[b] = s /\ serve' \in [Browsers -> Threads(received)]
      /\ \A w \in Browsers : w # b => serve'[w] = serve[w]
  BY <1>1, <1>2, <1>3
<1>6. SubsInv'
  <2>1. \A w \in Browsers : w \in subs <=> serve'[w].on /\ serve'[w].todo # Steps
    <3>1. b \notin subs  BY <1>1 DEF Streams, SubsInv
    <3> QED  BY <1>4, <1>5, <3>1 DEF Streams, SubsInv
  <2> QED  BY <1>1, <1>5, <2>1 DEF Streams, SubsInv
<1>7. page'[b] \in Pages(received) /\ (page'[b].fresh => \A i \in Points : page'[b].rows[i] = 0)
      /\ page' \in [Browsers -> Pages(received)]
      /\ \A w \in Browsers : w # b => page'[w] = page[w]
  <2>1. CASE page' = [page EXCEPT ![b] = NewPage]
    <3>1. NewPage \in Pages(received)
      <4>1. [i \in Points |-> 0] \in [Points -> 0 .. received]
        OBVIOUS
      <4> QED  BY <4>1 DEF NewPage, Pages
    <3>2. \A i \in Points : NewPage.rows[i] = 0  BY DEF NewPage
    <3> QED  BY <1>2, <2>1, <3>1, <3>2
  <2>2. CASE page' = [page EXCEPT ![b].fresh = FALSE]
    <3>1. page[b] \in Pages(received)  BY <1>2
    <3>2. [page[b] EXCEPT !.fresh = FALSE] \in Pages(received)
          /\ ~[page[b] EXCEPT !.fresh = FALSE].fresh
      BY <3>1 DEF Pages
    <3>3. page'[b] = [page[b] EXCEPT !.fresh = FALSE]  BY <1>2, <2>2
    <3> QED  BY <1>2, <2>2, <3>2, <3>3
  <2> QED  BY <1>1, <2>1, <2>2
<1>8. StreamTypes'
  BY <1>1, <1>2, <1>7 DEF Streams, StreamTypes
<1>9. QueuesBounded'  BY <1>1 DEF Streams, QueuesBounded
<1>10. ASSUME NEW w \in Browsers PROVE Whole(w)' /\ Shown(w)'
  <2>1. CASE w # b
    <3>1. /\ serve'[w] = serve[w] /\ queue'[w] = queue[w] /\ page'[w] = page[w]
          /\ seen'[w] = seen[w] /\ dropped'[w] = dropped[w]
          /\ (w \in reader'.to <=> w \in reader.to)
      BY <1>1, <1>2, <1>5, <1>7, <2>1
    <3> QED  BY <1>1, <2>1, <3>1, OthersKept
  <2>2. CASE w = b
    <3>1. Whole(w)'  BY <1>4, <1>5, <2>2, StepsAre DEF Whole, WholeOf
    <3>2. Distinct(s.snap.rows)
      <4>1. Len(s.snap.rows) = 0  BY <1>4, EmptySeq
      <4> QED  BY <4>1 DEF Distinct
    <3>3. ShownOf(s, page'[b])  BY <1>4, <1>7, <3>2, StepsAre DEF ShownOf
    <3>4. Shown(w)'  BY <1>5, <2>2, <3>3 DEF Shown
    <3> QED  BY <3>1, <3>4
  <2> QED  BY <2>1, <2>2
<1> QED  BY <1>6, <1>8, <1>9, <1>10 DEF Streams

LEMMA SubscribeKeeps ==
  ASSUME Streams, NEW b \in Browsers, Subscribe(b)
  PROVE  Streams'
<1> DEFINE s == [serve[b] EXCEPT !.todo = <<"snapshot", "greet">>]
<1>1. serve[b].on /\ serve[b].todo = Steps  BY BusyWith DEF Streams, Subscribe
<1>2. /\ subs' = subs \cup {b}
      /\ serve' = [serve EXCEPT ![b].todo = Tail(@)]
      /\ UNCHANGED <<received, reader, queue, gone, page, seen, dropped>>
  BY DEF Subscribe, Done, hub
<1>3. serve \in [Browsers -> Threads(received)]  BY DEF Streams, SubsInv
<1>4. serve' = [serve EXCEPT ![b] = s]  BY <1>1, <1>2, <1>3, StepsAre
<1>5. s \in Threads(received) /\ s.on /\ s.todo = <<"snapshot", "greet">>
      /\ s.snap = serve[b].snap
  BY <1>1, <1>3 DEF Threads, Todos
<1> HIDE DEF s
<1>6. serve'[b] = s /\ serve' \in [Browsers -> Threads(received)]
      /\ \A w \in Browsers : w # b => serve'[w] = serve[w]
  BY <1>3, <1>4, <1>5
<1>7. SubsInv'
  <2>1. \A w \in Browsers : w \in subs' <=> serve'[w].on /\ serve'[w].todo # Steps
    BY <1>2, <1>5, <1>6, StepsAre DEF Streams, SubsInv
  <2>2. reader'.to \subseteq subs' /\ subs' \subseteq Stalled \cup Browsers
    BY <1>2 DEF Streams, SubsInv
  <2>3. reader'.to # {} => reader'.pc = "put"  BY <1>2 DEF Streams, SubsInv
  <2>4. reader'.pc = "put" => received' > 0  BY <1>2 DEF Streams, SubsInv
  <2> QED  BY <1>2, <1>6, <2>1, <2>2, <2>3, <2>4 DEF SubsInv
<1>8. StreamTypes' /\ QueuesBounded'
  BY <1>2 DEF Streams, StreamTypes, QueuesBounded
<1>9. ASSUME NEW w \in Browsers PROVE Whole(w)' /\ Shown(w)'
  <2>1. CASE w # b  BY <1>2, <1>6, <2>1, OthersKept
  <2>2. CASE w = b
    <3>1. Whole(w)'  BY <1>5, <1>6, <2>2, StepsAre DEF Whole, WholeOf
    <3>2. Shown(b)  BY DEF Streams
    <3>3. ShownOf(s, page[b])  BY <1>1, <1>5, <3>2, StepsAre DEF Shown, ShownOf
    <3>4. Shown(w)'  BY <1>2, <1>6, <2>2, <3>3 DEF Shown
    <3> QED  BY <3>1, <3>4
  <2> QED  BY <2>1, <2>2
<1> QED  BY <1>7, <1>8, <1>9 DEF Streams

\* The snapshot has all there was; what comes after it waits.
LEMMA SnapshotKeeps ==
  ASSUME Streams, KeptInv, connected \in BOOLEAN, NEW b \in Browsers, Snapshot(b)
  PROVE  Streams'
<1> DEFINE snap == [rows |-> sweepRows, kept |-> kept, connected |-> connected]
           s == [serve[b] EXCEPT !.todo = <<"greet">>, !.snap = snap]
<1>1. serve[b].on /\ serve[b].todo = <<"snapshot", "greet">>
  BY BusyWith DEF Streams, Snapshot
<1>2. /\ serve' = [serve EXCEPT ![b].todo = Tail(@), ![b].snap = snap]
      /\ UNCHANGED <<received, reader, subs, queue, gone, page, seen, dropped>>
  BY DEF Snapshot, hub
<1>3. serve \in [Browsers -> Threads(received)]  BY DEF Streams, SubsInv
<1>4. serve' = [serve EXCEPT ![b] = s]  BY <1>1, <1>2, <1>3, StepsAre
<1>5. /\ s \in Threads(received) /\ s.on /\ s.todo = <<"greet">>
      /\ s.snap.rows = sweepRows /\ s.snap.kept = kept
  <2>1. snap \in [rows : Seq(RowsTo(received)), kept : Seq(SamplesTo(received)),
                  connected : BOOLEAN]
    BY DEF KeptInv
  <2>2. serve[b] \in Threads(received)  BY <1>3
  <2> HIDE DEF snap
  <2>3. s \in Threads(received) /\ s.on /\ s.todo = <<"greet">> /\ s.snap = snap
    BY <1>1, <2>1, <2>2 DEF Threads, Todos
  <2> QED  BY <2>3 DEF snap
<1> HIDE DEF s
<1>6. serve'[b] = s /\ serve' \in [Browsers -> Threads(received)]
      /\ \A w \in Browsers : w # b => serve'[w] = serve[w]
  BY <1>3, <1>4, <1>5
<1>7. SubsInv'
  <2>1. \A w \in Browsers : w \in subs <=> serve'[w].on /\ serve'[w].todo # Steps
    BY <1>1, <1>5, <1>6, StepsAre DEF Streams, SubsInv
  <2> QED  BY <1>2, <1>6, <2>1 DEF Streams, SubsInv
<1>8. StreamTypes' /\ QueuesBounded'
  BY <1>2 DEF Streams, StreamTypes, QueuesBounded
<1>9. ASSUME NEW w \in Browsers PROVE Whole(w)' /\ Shown(w)'
  <2>1. CASE w # b  BY <1>2, <1>6, <2>1, OthersKept
  <2>2. CASE w = b
    <3>1. From(s) .. received \subseteq Numbers(kept)
      <4>1. received \in Nat /\ kept \in Seq(SamplesTo(received))
        BY HubAssumption DEF KeptInv
      <4>2. CASE kept = <<>>
        <5>1. received = 0  BY <4>1, <4>2, EmptySeq DEF KeptInv
        <5>2. From(s) = 1  BY <1>5, <4>2 DEF From
        <5> QED  BY <5>1, <5>2
      <4>3. CASE kept # <<>>
        <5>1. From(s) = kept[1].n  BY <1>5, <4>3 DEF From
        <5>2. kept[1].n .. received \subseteq Numbers(kept)
          BY <4>1, <4>3, NumbersOfRun DEF KeptInv
        <5> QED  BY <5>1, <5>2
      <4> QED  BY <4>2, <4>3
    <3>2. WholeOf(s, received, queue[b], b \in reader.to, seen[b], dropped[b])
      BY <1>5, <3>1, StepsAre DEF WholeOf
    <3>3. Whole(w)'  BY <1>2, <1>6, <2>2, <3>2 DEF Whole
    <3>4. Shown(b)  BY DEF Streams
    <3>5. ShownOf(s, page[b])
      BY <1>1, <1>5, <3>4, StepsAre DEF Shown, ShownOf, KeptInv
    <3>6. Shown(w)'  BY <1>2, <1>6, <2>2, <3>5 DEF Shown
    <3> QED  BY <3>3, <3>6
  <2> QED  BY <2>1, <2>2
<1> QED  BY <1>7, <1>8, <1>9 DEF Streams

\* The rows of the page after the greeting: first those of the session.
LEMMA RowsTaken ==
  ASSUME NEW n \in Nat, NEW a \in Seq(RowsTo(n)), Distinct(a),
         NEW z \in Seq(SamplesTo(n)), NEW rows \in [Points -> 0 .. n]
  PROVE  LET new == TakeRows(rows, a \o z)
         IN  /\ new \in [Points -> 0 .. n]
             /\ (\A i \in Points : rows[i] = 0)
                  => \A k \in 1 .. Len(a) : new[a[k].row] = a[k].n
<1> DEFINE all == a \o z
           new == TakeRows(rows, all)
<1>1. a \in Seq(SamplesTo(n))  BY SamplesGrow
<1>2. /\ all \in Seq(SamplesTo(n)) /\ Len(all) = Len(a) + Len(z)
      /\ \A k \in 1 .. Len(a) + Len(z) : all[k] = IF k <= Len(a) THEN a[k] ELSE z[k - Len(a)]
  BY <1>1, ConcatProperties
<1>3. Len(a) \in Nat /\ Len(z) \in Nat  BY LenProperties
<1>4. \A k \in 1 .. Len(all) : all[k] \in SamplesTo(n)  BY <1>2, ElementOfSeq
<1> HIDE DEF all
<1>5. ASSUME NEW i \in Points
      PROVE  LET k == FirstWith(all, i)
             IN  /\ k \in 0 .. Len(all)
                 /\ k # 0 => all[k].row = i
                 /\ \A j \in 1 .. Len(all) : all[j].row = i => k # 0 /\ k <= j
  BY <1>2, FirstFound
<1>6. new \in [Points -> 0 .. n]
  <2>1. ASSUME NEW i \in Points
        PROVE  (IF rows[i] # 0 \/ FirstWith(all, i) = 0 THEN rows[i]
                ELSE all[FirstWith(all, i)].n) \in 0 .. n
    <3> DEFINE k == FirstWith(all, i)
    <3>1. k \in 0 .. Len(all)  BY <1>5
    <3> HIDE DEF k
    <3>2. k # 0 => all[k].n \in 0 .. n
      <4>1. k # 0 => k \in 1 .. Len(all)  BY <1>2, <1>3, <3>1
      <4> QED  BY <1>4, <4>1 DEF SamplesTo
    <3> QED  BY <3>2 DEF k
  <2> QED  BY <2>1 DEF TakeRows
<1>7. ASSUME \A i \in Points : rows[i] = 0, NEW j \in 1 .. Len(a)
      PROVE  new[a[j].row] = a[j].n
  <2> DEFINE i == a[j].row
             k == FirstWith(all, i)
  <2>1. a[j] \in RowsTo(n)  BY ElementOfSeq
  <2>2. i \in Points  BY <2>1 DEF RowsTo
  <2>3. j \in 1 .. Len(all) /\ all[j] = a[j]  BY <1>2, <1>3
  <2> HIDE DEF i
  <2>4. k # 0 /\ k <= j /\ k \in 0 .. Len(all) /\ all[k].row = i
    BY <1>5, <2>2, <2>3 DEF i
  <2>5. new[i] = all[k].n  BY <1>7, <2>2, <2>4 DEF TakeRows
  <2> HIDE DEF k, new
  <2>6. k \in 1 .. Len(a) /\ all[k] = a[k]  BY <1>2, <1>3, <2>4
  <2>7. k = j  BY <2>4, <2>6 DEF Distinct, i
  <2> QED  BY <2>5, <2>6, <2>7 DEF i
<1> QED  BY <1>6, <1>7 DEF all

LEMMA GreetKeeps ==
  ASSUME Streams, received \in Nat, NEW b \in Browsers, Greet(b)
  PROVE  Streams'
<1> DEFINE snap == serve[b].snap
           s == [serve[b] EXCEPT !.todo = <<>>]
           p == [page[b] EXCEPT !.live = snap.connected,
                                !.rows = TakeRows(page[b].rows, snap.rows \o snap.kept)]
<1>1. serve[b].on /\ serve[b].todo = <<"greet">>  BY BusyWith DEF Streams, Greet
<1>2. /\ page' = [page EXCEPT ![b].live = snap.connected,
                              ![b].rows = TakeRows(@, Greeting(snap))]
      /\ seen' = [seen EXCEPT ![b] = Numbers(snap.kept)]
      /\ serve' = [serve EXCEPT ![b].todo = Tail(@)]
      /\ UNCHANGED <<received, reader, subs, queue, gone, dropped>>
  BY DEF Greet, Done, hub
<1>3. /\ serve \in [Browsers -> Threads(received)]
      /\ page \in [Browsers -> Pages(received)]
      /\ seen \in [Browsers -> SUBSET (1 .. received)]
  BY DEF Streams, SubsInv, StreamTypes
<1>4. serve' = [serve EXCEPT ![b] = s]  BY <1>1, <1>2, <1>3, StepsAre
<1>5. s \in Threads(received) /\ s.on /\ s.todo = <<>> /\ s.snap = snap
  <2>1. serve[b] \in Threads(received)  BY <1>3
  <2> QED  BY <1>1, <2>1 DEF Threads, Todos
<1>6. /\ snap.rows \in Seq(RowsTo(received)) /\ snap.kept \in Seq(SamplesTo(received))
      /\ snap.connected \in BOOLEAN
  BY <1>3 DEF Threads
<1>7. Distinct(snap.rows) /\ (page[b].fresh => \A i \in Points : page[b].rows[i] = 0)
  <2>1. Shown(b)  BY DEF Streams
  <2> QED  BY <1>1, <2>1, StepsAre DEF Shown, ShownOf
<1> HIDE DEF s
<1>8. serve'[b] = s /\ serve' \in [Browsers -> Threads(received)]
      /\ \A w \in Browsers : w # b => serve'[w] = serve[w]
  BY <1>3, <1>4, <1>5
<1>9. LET new == TakeRows(page[b].rows, snap.rows \o snap.kept)
      IN  /\ new \in [Points -> 0 .. received]
          /\ page[b].fresh =>
               \A k \in 1 .. Len(snap.rows) : new[snap.rows[k].row] = snap.rows[k].n
  <2> DEFINE rows == page[b].rows
             a == snap.rows
             z == snap.kept
  <2>1. rows \in [Points -> 0 .. received]  BY <1>3 DEF Pages
  <2> HIDE DEF rows, a, z
  <2>2. LET new == TakeRows(rows, a \o z)
        IN  /\ new \in [Points -> 0 .. received]
            /\ (\A i \in Points : rows[i] = 0)
                 => \A k \in 1 .. Len(a) : new[a[k].row] = a[k].n
    BY <1>6, <1>7, <2>1, RowsTaken DEF a, z
  <2> QED  BY <1>7, <2>2 DEF rows, a, z
<1>10. page' = [page EXCEPT ![b] = p]
  BY <1>2, <1>3 DEF Greeting, Pages
<1>11. /\ p \in Pages(received)
       /\ p.fresh = page[b].fresh
       /\ p.rows = TakeRows(page[b].rows, snap.rows \o snap.kept)
  <2> DEFINE new == TakeRows(page[b].rows, snap.rows \o snap.kept)
             c == snap.connected
  <2>1. page[b] \in Pages(received) /\ new \in [Points -> 0 .. received] /\ c \in BOOLEAN
    BY <1>3, <1>6, <1>9
  <2> HIDE DEF new, c
  <2>2. LET x == [page[b] EXCEPT !.live = c, !.rows = new]
        IN  x \in Pages(received) /\ x.fresh = page[b].fresh /\ x.rows = new
    BY <2>1 DEF Pages
  <2> QED  BY <2>2 DEF new, c
<1> HIDE DEF p
<1>12. page'[b] = p /\ page' \in [Browsers -> Pages(received)]
       /\ \A w \in Browsers : w # b => page'[w] = page[w]
  BY <1>3, <1>10, <1>11
<1>13. seen'[b] = Numbers(snap.kept) /\ seen' \in [Browsers -> SUBSET (1 .. received)]
       /\ \A w \in Browsers : w # b => seen'[w] = seen[w]
  <2>1. Numbers(snap.kept) \subseteq 1 .. received  BY <1>6, NumbersWithin
  <2> QED  BY <1>2, <1>3, <2>1
<1>14. SubsInv'
  <2>1. \A w \in Browsers : w \in subs <=> serve'[w].on /\ serve'[w].todo # Steps
    BY <1>1, <1>5, <1>8, StepsAre DEF Streams, SubsInv
  <2> QED  BY <1>2, <1>8, <2>1 DEF Streams, SubsInv
<1>15. StreamTypes' /\ QueuesBounded'
  BY <1>2, <1>12, <1>13 DEF Streams, StreamTypes, QueuesBounded
<1>16. ASSUME NEW w \in Browsers PROVE Whole(w)' /\ Shown(w)'
  <2>1. CASE w # b  BY <1>2, <1>8, <1>12, <1>13, <2>1, OthersKept
  <2>2. CASE w = b
    <3>1. Whole(b)  BY DEF Streams
    <3>2. WholeOf(s, received, queue[b], b \in reader.to, seen'[b], dropped[b])
      <4>1. From(s) = From(serve[b])  BY <1>5 DEF From
      <4> QED  BY <1>1, <1>5, <1>13, <3>1, <4>1, StepsAre DEF Whole, WholeOf
    <3>3. Whole(w)'  BY <1>2, <1>8, <2>2, <3>2 DEF Whole
    <3>4. ShownOf(s, p)
      BY <1>5, <1>7, <1>9, <1>11 DEF ShownOf
    <3>5. Shown(w)'  BY <1>8, <1>12, <2>2, <3>4 DEF Shown
    <3> QED  BY <3>3, <3>5
  <2> QED  BY <2>1, <2>2
<1> QED  BY <1>14, <1>15, <1>16 DEF Streams

\* A row the page has stays; a sample sent is seen and no longer waits.
LEMMA SendKeeps ==
  ASSUME Streams, received \in Nat, NEW b \in Browsers, SendSample(b)
  PROVE  Streams'
<1> DEFINE h == Head(queue[b])
           rows == TakeRow(page[b].rows, h)
           p == [page[b] EXCEPT !.rows = rows]
<1>1. /\ serve[b].on /\ serve[b].todo = <<>> /\ queue[b] # <<>>
      /\ page' = [page EXCEPT ![b].rows = TakeRow(@, h)]
      /\ seen' = [seen EXCEPT ![b] = @ \cup {h.n}]
      /\ queue' = [queue EXCEPT ![b] = Tail(@)]
      /\ UNCHANGED <<received, reader, subs, serve, gone, dropped>>
  BY DEF SendSample, Live, hub
<1>2. /\ serve \in [Browsers -> Threads(received)]
      /\ queue \in [Browsers -> Seq(SamplesTo(received))]
      /\ page \in [Browsers -> Pages(received)]
      /\ seen \in [Browsers -> SUBSET (1 .. received)]
      /\ \A w \in Browsers : Len(queue[w]) <= QueueMax
  BY DEF Streams, SubsInv, StreamTypes, QueuesBounded
<1>3. /\ h \in SamplesTo(received) /\ Tail(queue[b]) \in Seq(SamplesTo(received))
      /\ Len(Tail(queue[b])) = Len(queue[b]) - 1
      /\ Numbers(queue[b]) \subseteq Numbers(Tail(queue[b])) \cup {h.n}
  BY <1>1, <1>2, HeadTailProperties, NumbersOfTail
<1>4. Len(queue[b]) \in Nat  BY <1>2, LenProperties
<1>5. h.n \in 1 .. received /\ h.row \in Points \cup {NoRow}  BY <1>3 DEF SamplesTo
<1> HIDE DEF h
<1>6. /\ rows \in [Points -> 0 .. received]
      /\ \A i \in Points : page[b].rows[i] # 0 => rows[i] = page[b].rows[i]
  <2>1. page[b].rows \in [Points -> 0 .. received]  BY <1>2 DEF Pages
  <2>2. CASE h.row = NoRow \/ page[b].rows[h.row] # 0
    BY <2>1, <2>2 DEF TakeRow
  <2>3. CASE ~(h.row = NoRow \/ page[b].rows[h.row] # 0)
    <3>1. rows = [page[b].rows EXCEPT ![h.row] = h.n]  BY <2>3 DEF TakeRow
    <3>2. h.row \in Points /\ h.n \in 0 .. received  BY <1>5, <2>3
    <3> QED  BY <2>1, <2>3, <3>1, <3>2
  <2> QED  BY <2>2, <2>3
<1>7. page' = [page EXCEPT ![b] = p]
  BY <1>1, <1>2 DEF Pages
<1>8. p \in Pages(received) /\ p.fresh = page[b].fresh /\ p.rows = rows
  <2> HIDE DEF rows
  <2> QED  BY <1>2, <1>6 DEF Pages
<1> HIDE DEF p, rows
<1>9. page'[b] = p /\ page' \in [Browsers -> Pages(received)]
      /\ \A w \in Browsers : w # b => page'[w] = page[w]
  BY <1>2, <1>7, <1>8
<1>10. /\ seen'[b] = seen[b] \cup {h.n} /\ seen' \in [Browsers -> SUBSET (1 .. received)]
       /\ \A w \in Browsers : w # b => seen'[w] = seen[w]
  BY <1>1, <1>2, <1>5
<1>11. /\ queue'[b] = Tail(queue[b]) /\ queue' \in [Browsers -> Seq(SamplesTo(received))]
       /\ \A w \in Browsers : w # b => queue'[w] = queue[w]
  BY <1>1, <1>2, <1>3
<1>12. SubsInv'  BY <1>1 DEF Streams, SubsInv
<1>13. StreamTypes'
  BY <1>1, <1>9, <1>10, <1>11 DEF Streams, StreamTypes
<1>14. QueuesBounded'
  <2> SUFFICES ASSUME NEW w \in Browsers PROVE Len(queue'[w]) <= QueueMax
    BY DEF QueuesBounded
  <2>1. CASE w # b  BY <1>2, <1>11, <2>1
  <2>2. CASE w = b
    <3>1. Len(Tail(queue[b])) <= QueueMax  BY <1>2, <1>3, <1>4, HubAssumption
    <3> QED  BY <1>11, <2>2, <3>1
  <2> QED  BY <2>1, <2>2
<1>15. ASSUME NEW w \in Browsers PROVE Whole(w)' /\ Shown(w)'
  <2>1. CASE w # b  BY <1>1, <1>9, <1>10, <1>11, <2>1, OthersKept
  <2>2. CASE w = b
    <3>1. Whole(b) /\ Shown(b)  BY DEF Streams
    <3>2. WholeOf(serve[b], received, queue'[b], b \in reader.to, seen'[b], dropped[b])
      BY <1>1, <1>3, <1>10, <1>11, <3>1 DEF Whole, WholeOf
    <3>3. Whole(w)'  BY <1>1, <2>2, <3>2 DEF Whole
    <3>4. ShownOf(serve[b], p)
      <4>1. Distinct(serve[b].snap.rows)  BY <3>1 DEF Shown, ShownOf
      <4>2. ASSUME p.fresh, NEW k \in 1 .. Len(serve[b].snap.rows)
            PROVE  p.rows[serve[b].snap.rows[k].row] = serve[b].snap.rows[k].n
        <5> DEFINE r == serve[b].snap.rows[k]
        <5>1. serve[b].snap.rows \in Seq(RowsTo(received))  BY <1>2 DEF Threads
        <5>2. r \in RowsTo(received)  BY <5>1, ElementOfSeq
        <5>3. page[b].rows[r.row] = r.n
          BY <1>1, <1>8, <3>1, <4>2 DEF Shown, ShownOf
        <5> HIDE DEF r
        <5>4. r.row \in Points /\ r.n \in 1 .. received  BY <5>2 DEF RowsTo
        <5>5. page[b].rows[r.row] # 0  BY <5>3, <5>4
        <5>6. p.rows[r.row] = r.n  BY <1>6, <1>8, <5>3, <5>4, <5>5
        <5> QED  BY <5>6 DEF r
      <4> QED  BY <1>1, <4>1, <4>2 DEF ShownOf
    <3>5. Shown(w)'  BY <1>1, <1>9, <2>2, <3>4 DEF Shown
    <3> QED  BY <3>3, <3>5
  <2> QED  BY <2>1, <2>2
<1> QED  BY <1>12, <1>13, <1>14, <1>15 DEF Streams

LEMMA PingKeeps ==
  ASSUME Streams, connected \in BOOLEAN, NEW b \in Browsers, Ping(b)
  PROVE  Streams'
<1> DEFINE p == [page[b] EXCEPT !.live = connected]
<1>1. /\ page' = [page EXCEPT ![b].live = connected]
      /\ UNCHANGED <<received, reader, subs, queue, serve, gone, seen, dropped>>
  BY DEF Ping, Told, hub
<1>2. page \in [Browsers -> Pages(received)]  BY DEF Streams, StreamTypes
<1>3. page' = [page EXCEPT ![b] = p]  BY <1>1, <1>2
<1>4. p \in Pages(received) /\ p.fresh = page[b].fresh /\ p.rows = page[b].rows
  BY <1>2 DEF Pages
<1> HIDE DEF p
<1>5. page'[b] = p /\ page' \in [Browsers -> Pages(received)]
      /\ \A w \in Browsers : w # b => page'[w] = page[w]
  BY <1>2, <1>3, <1>4
<1>6. SubsInv' /\ StreamTypes' /\ QueuesBounded'
  BY <1>1, <1>5 DEF Streams, SubsInv, StreamTypes, QueuesBounded
<1>7. ASSUME NEW w \in Browsers PROVE Whole(w)' /\ Shown(w)'
  <2>1. Whole(w) /\ Shown(w)  BY DEF Streams
  <2>2. Whole(w)'  BY <1>1, <2>1 DEF Whole
  <2>3. page'[w].fresh = page[w].fresh /\ page'[w].rows = page[w].rows
    BY <1>4, <1>5
  <2>4. Shown(w)'  BY <1>1, <2>1, <2>3 DEF Shown, ShownOf
  <2> QED  BY <2>2, <2>4
<1> QED  BY <1>6, <1>7 DEF Streams

\* A thread that ends takes its queue with it.
LEMMA QuitKeeps ==
  ASSUME Streams, PortInv, NEW b \in Browsers, Quit(b)
  PROVE  Streams'
<1>1. /\ serve' = [serve EXCEPT ![b] = Idle]
      /\ subs' = subs \ {b}
      /\ queue' = [queue EXCEPT ![b] = <<>>]
      /\ reader' = [reader EXCEPT !.to = reader.to \ {b}]
      /\ UNCHANGED <<received, gone, page, seen, dropped>>
  BY DEF Quit, hub
<1>2. reader'.pc = reader.pc /\ reader'.to = reader.to \ {b}  BY <1>1 DEF PortInv
<1>3. /\ serve \in [Browsers -> Threads(received)]
      /\ queue \in [Browsers -> Seq(SamplesTo(received))]
  BY DEF Streams, SubsInv, StreamTypes
<1>4. \A T : <<>> \in Seq(T)  BY EmptySeq
<1>5. Len(<<>>) = 0  BY EmptySeq
<1>6. Idle \in Threads(received) /\ Idle.on = FALSE /\ Idle.snap.rows = <<>>
  <2>1. NoSnapshot \in [rows : Seq(RowsTo(received)), kept : Seq(SamplesTo(received)),
                        connected : BOOLEAN]
    BY <1>4 DEF NoSnapshot
  <2>2. Idle \in Threads(received)  BY <2>1 DEF Idle, Threads, Todos
  <2> QED  BY <2>2 DEF Idle, NoSnapshot
<1>7. serve'[b] = Idle /\ serve' \in [Browsers -> Threads(received)]
      /\ \A w \in Browsers : w # b => serve'[w] = serve[w]
  BY <1>1, <1>3, <1>6
<1>8. queue'[b] = <<>> /\ queue' \in [Browsers -> Seq(SamplesTo(received))]
      /\ \A w \in Browsers : w # b => queue'[w] = queue[w]
  BY <1>1, <1>3, <1>4
<1>9. SubsInv'
  <2>1. \A w \in Browsers : w \in subs' <=> serve'[w].on /\ serve'[w].todo # Steps
    BY <1>1, <1>6, <1>7 DEF Streams, SubsInv
  <2>2. reader'.to \subseteq subs' /\ subs' \subseteq Stalled \cup Browsers
    BY <1>1, <1>2 DEF Streams, SubsInv
  <2>3. reader'.to # {} => reader'.pc = "put"  BY <1>2 DEF Streams, SubsInv
  <2>4. reader'.pc = "put" => received' > 0  BY <1>1, <1>2 DEF Streams, SubsInv
  <2> QED  BY <1>1, <1>7, <2>1, <2>2, <2>3, <2>4 DEF SubsInv
<1>10. StreamTypes'  BY <1>1, <1>8 DEF Streams, StreamTypes
<1>11. QueuesBounded'
  BY <1>5, <1>8, HubAssumption DEF Streams, QueuesBounded
<1>12. ASSUME NEW w \in Browsers PROVE Whole(w)' /\ Shown(w)'
  <2>1. CASE w # b
    <3>1. w \in reader'.to <=> w \in reader.to  BY <1>2, <2>1
    <3> QED  BY <1>1, <1>7, <1>8, <2>1, <3>1, OthersKept
  <2>2. CASE w = b
    BY <1>5, <1>6, <1>7, <2>2 DEF Whole, WholeOf, Shown, ShownOf, Distinct
  <2> QED  BY <2>1, <2>2
<1> QED  BY <1>9, <1>10, <1>11, <1>12 DEF Streams

LEMMA StreamsNext ==
  PortInv /\ KeptInv /\ Streams /\ [Next]_vars => Streams'
<1> SUFFICES ASSUME PortInv, KeptInv, Streams, [Next]_vars PROVE Streams'  OBVIOUS
<1>1. received \in Nat /\ connected \in BOOLEAN
  BY HubAssumption DEF PortInv, KeptInv
<1>2. CASE Plug \/ Open \/ SetRaw \/ PutAll \/ Drop \/ Forget \/ Close
  <2>1. UNCHANGED <<received, subs, queue, serve, gone, page, seen, dropped>>
    BY <1>2 DEF Plug, Open, SetRaw, PutAll, Drop, Forget, Close, hub, streams
  <2>2. /\ reader'.to = reader.to
        /\ reader'.pc = "put" => reader.pc = "put"
        /\ reader.to # {} => reader'.pc = "put"
    <3> USE DEF PortInv, Streams, SubsInv
    <3>1. CASE Plug  BY <3>1 DEF Plug
    <3>2. CASE Open  BY <3>2 DEF Open
    <3>3. CASE SetRaw
      <4>1. reader.pc = "opening" /\ \E pc \in {"read", "closed", "ended"} :
              reader' = [reader EXCEPT !.pc = pc]
        BY <3>3 DEF SetRaw
      <4> QED  BY <4>1
    <3>4. CASE PutAll  BY <3>4 DEF PutAll
    <3>5. CASE Drop  BY <3>5 DEF Drop
    <3>6. CASE Forget  BY <3>6 DEF Forget
    <3>7. CASE Close  BY <3>7 DEF Close
    <3> QED  BY <1>2, <3>1, <3>2, <3>3, <3>4, <3>5, <3>6, <3>7
  <2>3. gone' \in [Browsers -> BOOLEAN]  BY <2>1 DEF Streams, StreamTypes
  <2>4. reader'.pc = "put" => received > 0  BY <2>2 DEF Streams, SubsInv
  <2> QED  BY <2>1, <2>2, <2>3, <2>4, StreamsKept
<1>3. CASE \E row \in Points \cup {NoRow} : Publish(row)
  BY <1>1, <1>3, PublishKeeps
<1>4. CASE \E b \in Browsers \cup Stalled : Put(b)  BY <1>4, PutKeeps
<1>5. ASSUME NEW b \in Browsers, Connect(b) PROVE Streams'
  BY <1>1, <1>5, ConnectKeeps
<1>6. ASSUME NEW b \in Browsers, Attach(b) PROVE Streams'
  BY <1>1, <1>6, SubscribeKeeps, SnapshotKeeps DEF Attach
<1>7. ASSUME NEW b \in Browsers, Send(b) PROVE Streams'
  BY <1>1, <1>7, GreetKeeps, SendKeeps DEF Send
<1>8. ASSUME NEW b \in Browsers, Ping(b) PROVE Streams'
  BY <1>1, <1>8, PingKeeps
<1>9. ASSUME NEW b \in Browsers, Leave(b) PROVE Streams'
  <2>1. /\ UNCHANGED <<received, reader, subs, queue, serve, page, seen, dropped>>
        /\ gone' = [gone EXCEPT ![b] = TRUE]
    BY <1>9 DEF Leave, hub
  <2>2. gone' \in [Browsers -> BOOLEAN]  BY <2>1 DEF Streams, StreamTypes
  <2>3. /\ reader.to # {} => reader.pc = "put"
        /\ reader.pc = "put" => received > 0
    BY DEF Streams, SubsInv
  <2> QED  BY <2>1, <2>2, <2>3, StreamsKept
<1>10. ASSUME NEW b \in Browsers, Quit(b) PROVE Streams'
  BY <1>10, QuitKeeps
<1>11. CASE UNCHANGED vars
  <2>1. /\ UNCHANGED <<received, reader, subs, queue, serve, page, seen, dropped>>
        /\ UNCHANGED gone
    BY <1>11 DEF vars, hub, streams
  <2>2. gone' \in [Browsers -> BOOLEAN]  BY <2>1 DEF Streams, StreamTypes
  <2>3. /\ reader.to # {} => reader.pc = "put"
        /\ reader.pc = "put" => received > 0
    BY DEF Streams, SubsInv
  <2> QED  BY <2>1, <2>2, <2>3, StreamsKept
<1> QED
  BY <1>2, <1>3, <1>4, <1>5, <1>6, <1>7, <1>8, <1>9, <1>10, <1>11 DEF Next, Reader

(***************************************************************************)
(* The properties.                                                         *)
(***************************************************************************)

LEMMA HubKept == Spec => []HubInv
<1>1. Init => HubInv  BY PortStart, KeptStart, StreamsStart DEF HubInv
<1>2. HubInv /\ [Next]_vars => HubInv'
  <2> SUFFICES ASSUME HubInv, [Next]_vars PROVE HubInv'  OBVIOUS
  <2>1. PortInv /\ KeptInv /\ Streams /\ subs \subseteq Stalled \cup Browsers
    BY DEF HubInv, Streams, SubsInv
  <2> QED  BY <2>1, PortNext, KeptNext, StreamsNext DEF HubInv
<1> QED  BY <1>1, <1>2, PTL DEF Spec

\* Whoever is told that the board is connected, or finds a descriptor to write
\* to, finds the port open; and every variable has its type (serial_reader,
\* send_command).
THEOREM ServerIsSound == Spec => []Sound
<1>1. HubInv => Sound
  <2> SUFFICES ASSUME HubInv PROVE Sound  OBVIOUS
  <2>1. PortHonest  BY DEF HubInv, PortInv, PortHonest, Readings
  <2>2. received \in Nat  BY HubAssumption DEF HubInv, KeptInv
  <2>3. SamplesTo(received) \subseteq Sample /\ RowsTo(received) \subseteq Sample
    BY HubAssumption DEF HubInv, KeptInv, SamplesTo, RowsTo, Sample
  <2>4. Seq(SamplesTo(received)) \subseteq Seq(Sample) /\ Seq(RowsTo(received)) \subseteq Seq(Sample)
    BY <2>3, SeqMonotonic
  <2>5. Len(sweepRows) <= Cardinality(Points)
    BY <2>2, RowsFit DEF HubInv, KeptInv
  <2>6. subs \subseteq Stalled \cup {b \in Browsers : serve[b].on}
    BY DEF HubInv, Streams, SubsInv
  <2>7. ASSUME NEW b \in Browsers
        PROVE  /\ queue[b] \in Seq(Sample) /\ Len(queue[b]) <= QueueMax
               /\ gone[b] \in BOOLEAN /\ dropped[b] \in BOOLEAN
               /\ seen[b] \subseteq 1 .. received
               /\ page[b].rows \in [Points -> 0 .. received] /\ page[b].live \in BOOLEAN
    BY <2>4 DEF HubInv, Streams, StreamTypes, QueuesBounded, Pages
  <2>8. TypeOK
    BY <2>4, <2>5, <2>6, <2>7 DEF HubInv, PortInv, KeptInv, Streams, SubsInv, Readings, TypeOK
  <2> QED  BY <2>1, <2>8 DEF Sound
<1> QED  BY <1>1, HubKept, PTL

\* A browser that connects while samples come in misses none that its own
\* queue had room for (Hub.publish, Hub.subscribe, Handler._sse).
THEOREM NoSampleIsMissed == Spec => []NoGap
<1>1. HubInv => NoGap
  <2> SUFFICES ASSUME HubInv, NEW b \in Browsers, Live(b), ~dropped[b]
               PROVE  From(serve[b]) .. received \subseteq seen[b] \cup Coming(b)
    BY DEF NoGap, From
  <2>1. Whole(b)  BY DEF HubInv, Streams
  <2> QED  BY <2>1 DEF Whole, WholeOf, Live, Coming
<1> QED  BY <1>1, HubKept, PTL

\* A page that has just been loaded shows the rows of the session as they were
\* when it was greeted: the history that follows does not spoil them.
THEOREM SessionIsShown == Spec => []SessionShown
<1>1. HubInv => SessionShown
  <2> SUFFICES ASSUME HubInv, NEW b \in Browsers, Live(b), page[b].fresh,
                      NEW k \in DOMAIN serve[b].snap.rows
               PROVE  page[b].rows[serve[b].snap.rows[k].row] >= serve[b].snap.rows[k].n
    BY DEF SessionShown
  <2> DEFINE rows == serve[b].snap.rows
  <2>1. rows \in Seq(RowsTo(received))  BY DEF HubInv, Streams, SubsInv, Threads
  <2>2. k \in 1 .. Len(rows)  BY <2>1, LenProperties
  <2>3. rows[k] \in RowsTo(received)  BY <2>1, <2>2, ElementOfSeq
  <2>4. page[b].rows[rows[k].row] = rows[k].n
    BY <2>2 DEF HubInv, Streams, Shown, ShownOf, Live
  <2> HIDE DEF rows
  <2>5. rows[k].n \in Int  BY <2>3 DEF RowsTo
  <2>6. page[b].rows[rows[k].row] >= rows[k].n  BY <2>4, <2>5
  <2> QED  BY <2>6 DEF rows
<1> QED  BY <1>1, HubKept, PTL

================================================================================
