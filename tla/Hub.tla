---------------------------------- MODULE Hub ----------------------------------
(***************************************************************************)
(* The telemetry server (server/app.py) between the board's serial port    *)
(* and the pages in the browsers (dashboard/index.html, sweep.html).       *)
(*                                                                         *)
(* One thread reads the port and publishes; one thread per connected       *)
(* browser sends.  A step is what one thread does between two points where *)
(* another can tell: what a lock covers, one put on a queue, one write.    *)
(*                                                                         *)
(* A sample is known by its number; some carry the row of a sweep point.   *)
(***************************************************************************)
EXTENDS Integers, Sequences, FiniteSets, SequencesExt

CONSTANTS
  Browsers,     \* who may watch
  Stalled,      \* others, that have subscribed and read nothing any more
  Points,       \* points of a sweep
  QueueMax,     \* maxsize of a browser's queue
  History,      \* HISTORY
  MaxSamples,   \* samples in a behaviour
  NoRow         \* the sample carries no row

ASSUME HubAssumption ==
  /\ Stalled \cap Browsers = {}
  /\ QueueMax \in Nat \ {0} /\ History \in Nat \ {0} /\ MaxSamples \in Nat
  /\ IsFiniteSet(Points) /\ Cardinality(Points) <= 256
  /\ NoRow \notin Points

VARIABLES
  plugged,      \* the board is there
  reader,       \* where serial_reader is, and the subscribers it has yet to
                \* put its sample to
  connected,    \* HUB.connected
  fd,           \* HUB.fd is not None
  open,         \* the port's descriptor is open
  received,     \* HUB.received, which numbers the samples
  kept,         \* HUB.history
  sweepRows,    \* HUB.sweep_rows
  subs,         \* HUB._subs, by browser
  queue,        \* the queue of each
  serve,        \* where the thread of each browser is, and its snapshot
  gone,         \* the browser no longer gets what is sent
  page,         \* what the page has taken
  seen,         \* history: samples the page got on this connection
  dropped       \* history: a put to this connection found the queue full

port == <<plugged, connected, fd, open>>
hub == <<received, kept, sweepRows>>
streams == <<subs, queue, serve, gone, page, seen, dropped>>
vars == <<port, reader, hub, streams>>

Sample == [n : 1 .. MaxSamples, row : Points \cup {NoRow}]

NoSnapshot == [rows |-> <<>>, kept |-> <<>>, connected |-> FALSE]
Idle == [on |-> FALSE, todo |-> <<>>, snap |-> NoSnapshot]

\* fresh: the page was loaded for this connection.
NewPage == [fresh |-> TRUE, rows |-> [i \in Points |-> 0], live |-> FALSE]

Init ==
  /\ plugged \in BOOLEAN
  /\ reader = [pc |-> "closed", to |-> {}]
  /\ connected = FALSE /\ fd = FALSE /\ open = FALSE
  /\ received = 0 /\ kept = <<>> /\ sweepRows = <<>>
  /\ subs = Stalled
  /\ queue = [b \in Browsers |-> <<>>]
  /\ serve = [b \in Browsers |-> Idle]
  /\ gone = [b \in Browsers |-> FALSE]
  /\ page = [b \in Browsers |-> NewPage]
  /\ seen = [b \in Browsers |-> {}]
  /\ dropped = [b \in Browsers |-> FALSE]

(***************************************************************************)
(* serial_reader.                                                          *)
(***************************************************************************)
Plug == plugged' = ~plugged /\ UNCHANGED <<connected, fd, open, reader, hub, streams>>

\* The port is found and opened.
Open ==
  /\ reader.pc = "closed" /\ plugged
  /\ reader' = [reader EXCEPT !.pc = "opening"]
  /\ open' = TRUE
  /\ UNCHANGED <<plugged, connected, fd, hub, streams>>

\* It takes its settings; or the board has gone and open_raw closes the port
\* and raises: an OSError, which the reader waits out, or a termios.error,
\* which is none and ends the thread.
SetRaw ==
  /\ reader.pc = "opening"
  /\ \/ /\ connected' = TRUE /\ fd' = TRUE
        /\ reader' = [reader EXCEPT !.pc = "read"]
        /\ UNCHANGED open
     \/ /\ ~plugged
        /\ open' = FALSE
        /\ \/ reader' = [reader EXCEPT !.pc = "closed"]
              /\ connected' = FALSE
           \/ reader' = [reader EXCEPT !.pc = "ended"] /\ UNCHANGED connected
        /\ UNCHANGED fd
  /\ UNCHANGED <<plugged, hub, streams>>

\* Mutant: rows are only ever added.
RowsWithKept(rows, s) == Append(rows, s)

\* Where the first sample with this row is, 0 if there is none.
FirstWith(samples, i) == SelectInSeq(samples, LAMBDA s : s.row = i)

\* The rows with a new one, in place of the one with its index if there is one.
\* There are never more than Points of them: the oldest are not cut off.
RowsWith(rows, s) ==
  LET k == FirstWith(rows, s.row)
  IN  Append(IF k = 0 THEN rows ELSE RemoveAt(rows, k), s)

\* The newest of the samples.
Trim(samples) ==
  IF Len(samples) > History THEN Tail(samples) ELSE samples

\* A line is a sample: what publish does under the lock.  The line may have
\* been read before the board went.
Publish(row) ==
  LET s == [n |-> received + 1, row |-> row] IN
  /\ reader.pc = "read"
  /\ received < MaxSamples
  /\ received' = s.n
  /\ kept' = Trim(Append(kept, s))
  /\ sweepRows' = IF row = NoRow THEN sweepRows ELSE RowsWith(sweepRows, s)
  /\ reader' = [pc |-> "put", to |-> subs]
  /\ UNCHANGED <<port, streams>>

\* Nothing is taken from a stalled browser's queue: it is full.
Room(b) == b \notin Stalled /\ Len(queue[b]) < QueueMax

\* Mutant: a full queue ends the loop.
RestIfRoom(b) == IF Room(b) THEN reader.to \ {b} ELSE {}

\* Whose turn it is after b: a full queue is passed over.
Rest(b) == reader.to \ {b}

\* put_nowait to one of the subscribers there were, in any order.  The queue
\* of one that has gone since is nobody's.
Put(b) ==
  /\ reader.pc = "put" /\ b \in reader.to
  /\ reader' = [reader EXCEPT !.to = Rest(b)]
  /\ queue' = IF Room(b) THEN [queue EXCEPT ![b] = Append(@, Last(kept))] ELSE queue
  /\ dropped' = [w \in Browsers |-> dropped[w] \/ (w = b /\ ~Room(b))]
  /\ UNCHANGED <<port, hub, subs, serve, gone, page, seen>>

PutAll ==
  /\ reader.pc = "put" /\ reader.to = {}
  /\ reader' = [reader EXCEPT !.pc = "read"]
  /\ UNCHANGED <<port, hub, streams>>

\* The read fails.
Drop ==
  /\ reader.pc = "read" /\ ~plugged
  /\ connected' = FALSE
  /\ reader' = [reader EXCEPT !.pc = "forget"]
  /\ UNCHANGED <<plugged, fd, open, hub, streams>>

\* Mutant: the descriptor is closed first.
ForgetByClosing == fd' = fd /\ open' = FALSE

\* What comes first on the way out.
ForgetFirst == fd' = FALSE /\ open' = open

Forget ==
  /\ reader.pc = "forget"
  /\ ForgetFirst
  /\ reader' = [reader EXCEPT !.pc = "close"]
  /\ UNCHANGED <<plugged, connected, hub, streams>>

Close ==
  /\ reader.pc = "close"
  /\ fd' = FALSE /\ open' = FALSE
  /\ reader' = [reader EXCEPT !.pc = "closed"]
  /\ UNCHANGED <<plugged, connected, hub, streams>>

Reader ==
  \/ Open \/ SetRaw
  \/ \E b \in Browsers \cup Stalled : Put(b)
  \/ PutAll \/ Drop \/ Forget \/ Close

(***************************************************************************)
(* The thread of a browser: Handler._sse.  Before its loop it has some      *)
(* steps to do.  The greeting is one: a page that is lost in the middle of *)
(* it gets all of it when it connects again.                               *)
(***************************************************************************)

\* Mutant: the snapshot is taken before there is a queue.
StepsSnapshotFirst == <<"snapshot", "subscribe", "greet">>

Steps == <<"subscribe", "snapshot", "greet">>

Busy(b, step) ==
  /\ serve[b].on /\ serve[b].todo # <<>> /\ Head(serve[b].todo) = step

Live(b) == serve[b].on /\ serve[b].todo = <<>>

Done(b) == serve' = [serve EXCEPT ![b].todo = Tail(@)]

\* The page connects: it has just been loaded, or its EventSource tries again.
Connect(b) ==
  /\ ~serve[b].on
  /\ serve' = [serve EXCEPT ![b] = [on |-> TRUE, todo |-> Steps, snap |-> NoSnapshot]]
  /\ \/ page' = [page EXCEPT ![b] = NewPage]
     \/ page' = [page EXCEPT ![b].fresh = FALSE]
  /\ gone' = [gone EXCEPT ![b] = FALSE]
  /\ seen' = [seen EXCEPT ![b] = {}]
  /\ dropped' = [dropped EXCEPT ![b] = FALSE]
  /\ UNCHANGED <<port, reader, hub, subs, queue>>

Subscribe(b) ==
  /\ Busy(b, "subscribe")
  /\ subs' = subs \cup {b}
  /\ Done(b)
  /\ UNCHANGED <<port, reader, hub, queue, gone, page, seen, dropped>>

Snapshot(b) ==
  /\ Busy(b, "snapshot")
  /\ serve' = [serve EXCEPT ![b].todo = Tail(@),
                            ![b].snap = [rows |-> sweepRows, kept |-> kept,
                                         connected |-> connected]]
  /\ UNCHANGED <<port, reader, hub, subs, queue, gone, page, seen, dropped>>

\* take, of a row: the first with its index stays (sweep.html:254, 261).
TakeRow(rows, s) ==
  IF s.row = NoRow \/ rows[s.row] # 0 THEN rows ELSE [rows EXCEPT ![s.row] = s.n]

\* The rows taken from several samples, in their order.
TakeRows(rows, samples) ==
  [i \in Points |->
     LET k == FirstWith(samples, i)
     IN  IF rows[i] # 0 \/ k = 0 THEN rows[i] ELSE samples[k].n]

Numbers(samples) == {samples[k].n : k \in DOMAIN samples}

\* Mutant: the history is sent first.
GreetingHistoryFirst(snap) == snap.kept \o snap.rows

\* The rows of the session are sent first.
Greeting(snap) == snap.rows \o snap.kept

\* Hello, rows, history.
Greet(b) ==
  /\ Busy(b, "greet") /\ ~gone[b]
  /\ LET snap == serve[b].snap IN
       /\ page' = [page EXCEPT ![b].live = snap.connected,
                               ![b].rows = TakeRows(@, Greeting(snap))]
       /\ seen' = [seen EXCEPT ![b] = Numbers(snap.kept)]
  /\ Done(b)
  /\ UNCHANGED <<port, reader, hub, subs, queue, gone, dropped>>

\* A sample from the queue.
SendSample(b) ==
  /\ Live(b) /\ ~gone[b] /\ queue[b] # <<>>
  /\ page' = [page EXCEPT ![b].rows = TakeRow(@, Head(queue[b]))]
  /\ seen' = [seen EXCEPT ![b] = @ \cup {Head(queue[b]).n}]
  /\ queue' = [queue EXCEPT ![b] = Tail(@)]
  /\ UNCHANGED <<port, reader, hub, subs, serve, gone, dropped>>

\* Mutant: the state of the port is told once, on connecting.
ToldOnce(b) == page[b].live
Told(b) == connected

\* A ping every ten seconds, whether samples come or not.
Ping(b) ==
  /\ Live(b) /\ ~gone[b]
  /\ page' = [page EXCEPT ![b].live = Told(b)]
  /\ UNCHANGED <<port, reader, hub, subs, queue, serve, gone, seen, dropped>>

\* The browser goes: away, or out of reach.
Leave(b) ==
  /\ serve[b].on /\ ~gone[b]
  /\ gone' = [gone EXCEPT ![b] = TRUE]
  /\ UNCHANGED <<port, reader, hub, subs, queue, serve, page, seen, dropped>>

\* Mutant: there is something to write only when there is a sample.
WritesSamples(b) == queue[b] # <<>> \/ serve[b].todo # <<>>

\* The thread has something to write, a sample or a ping.
Writes(b) == TRUE

\* A write fails, and the thread ends.  (It may be a later one that does.)
Quit(b) ==
  /\ serve[b].on /\ gone[b]
  /\ Live(b) \/ Busy(b, "greet")
  /\ Writes(b)
  /\ serve' = [serve EXCEPT ![b] = Idle]
  /\ subs' = subs \ {b}
  /\ queue' = [queue EXCEPT ![b] = <<>>]
  /\ reader' = [reader EXCEPT !.to = @ \ {b}]
  /\ UNCHANGED <<port, hub, gone, page, seen, dropped>>

Attach(b) == Subscribe(b) \/ Snapshot(b)

Send(b) == Greet(b) \/ SendSample(b)

Next ==
  \/ Plug
  \/ \E row \in Points \cup {NoRow} : Publish(row)
  \/ Reader
  \/ \E b \in Browsers :
       Connect(b) \/ Attach(b) \/ Send(b) \/ Ping(b) \/ Leave(b) \/ Quit(b)

(***************************************************************************)
(* The threads run, and a browser that is there reads what it is sent.     *)
(* Nothing makes the board or a browser come.                              *)
(***************************************************************************)
Fairness ==
  /\ WF_vars(Reader)
  /\ \A b \in Browsers :
       /\ WF_vars(Attach(b)) /\ WF_vars(Send(b)) /\ WF_vars(Ping(b))
       /\ WF_vars(Quit(b))

Spec == Init /\ [][Next]_vars /\ Fairness

(***************************************************************************)
(* Properties.                                                             *)
(***************************************************************************)

\* Every variable has its type.
TypeOK ==
  /\ plugged \in BOOLEAN /\ connected \in BOOLEAN
  /\ fd \in BOOLEAN /\ open \in BOOLEAN
  /\ reader.pc \in {"closed", "opening", "read", "put", "forget", "close", "ended"}
  /\ reader.to \subseteq subs
  /\ received \in 0 .. MaxSamples
  /\ kept \in Seq(Sample) /\ Len(kept) <= History
  /\ sweepRows \in Seq(Sample) /\ Len(sweepRows) <= Cardinality(Points)
  /\ subs \subseteq Stalled \cup {b \in Browsers : serve[b].on}
  /\ \A b \in Browsers :
       /\ queue[b] \in Seq(Sample) /\ Len(queue[b]) <= QueueMax
       /\ gone[b] \in BOOLEAN /\ dropped[b] \in BOOLEAN
       /\ seen[b] \subseteq 1 .. received
       /\ page[b].rows \in [Points -> 0 .. received] /\ page[b].live \in BOOLEAN

\* The port's state is never better than it is: whoever is told that the board
\* is connected, or finds a descriptor to write a command to, finds the port
\* open (app.py:113-117, 208-210, 236-245).
PortHonest == connected \/ fd => open

\* Both.
Sound == TypeOK /\ PortHonest

\* The samples on their way to a browser.
Coming(b) ==
  Numbers(queue[b]) \cup IF b \in reader.to THEN {received} ELSE {}

\* A browser that connects while samples come in misses none: from the oldest
\* in the history it was sent, each is shown, waiting or being put, unless its
\* own queue was full (app.py:61-91, 428-436).
NoGap ==
  \A b \in Browsers :
    Live(b) /\ ~dropped[b] =>
      LET snap == serve[b].snap.kept
          from == IF snap = <<>> THEN 1 ELSE snap[1].n
      IN  from .. received \subseteq seen[b] \cup Coming(b)

\* A page that has just been loaded shows the rows of the session, each as new
\* as it was when the browser connected or newer (app.py:430-436,
\* sweep.html:248-267).
SessionShown ==
  \A b \in Browsers :
    Live(b) /\ page[b].fresh =>
      \A k \in DOMAIN serve[b].snap.rows :
        LET r == serve[b].snap.rows[k] IN page[b].rows[r.row] >= r.n

\* A point that the board has reported appears on every page that keeps up,
\* however slow the other browsers are (app.py:84-91).
RowsArrive ==
  \A b \in Browsers, i \in Points :
    (\E k \in DOMAIN sweepRows : sweepRows[k].row = i) /\ Live(b)
      ~> page[b].rows[i] # 0 \/ dropped[b] \/ gone[b]

\* A browser that has gone is unsubscribed, even if the board is silent
\* (app.py:438-456).
GoneNoticed == \A b \in Browsers : gone[b] ~> b \notin subs

\* The ping "tells the page the board went quiet" (app.py:447-451): a page
\* that is watching learns that the port is lost.
QuietTold ==
  \A b \in Browsers :
    ~connected /\ Live(b) ~> ~page[b].live \/ connected \/ gone[b]

\* "Read forever, reopening whenever the board is unplugged or reflashed"
\* (app.py:188).
ReadsForever == reader.pc # "ended"
================================================================================
