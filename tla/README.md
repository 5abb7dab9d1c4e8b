# A TLA+ model of the R5F FreeRTOS protocol simulator

The program is a protocol bridge on a single core (RP2350, FreeRTOS). Two
streams share one UART in loopback: 69 byte sensor frames, back to back, and
once a second a burst of 1024 unframed bytes from a simulated CAN side. Three
interrupts, four tasks and three byte rings have to keep the streams whole. A
sweep mode takes the line away, tries other baud rates and ways to receive, and
gives it back; a telemetry task prints counters, and a small Python server fans
them out to browsers.

The references `file:line` below are to `src/firmware/src/` unless they say
otherwise.

## Inventory

| part | state it keeps | operations | interacts with |
|---|---|---|---|
| byte ring (`engine/ringbuf.h`) | storage, `head`, `tail`, `peak`, `overflow` | `rb_push`, `rb_pop`, `rb_count`, `rb_clear_peak` | one producer, one consumer, one of them an interrupt; telemetry and the sweep as third parties |
| CAN slot generator (`engine/isotp.c`) | `active`, `slot`, `since_burst`, `burst_pos` | `isotp_slot` every 135 us | pushes 8 bytes per Consecutive Frame into the bridge ring; raises requests in idle slots |
| arbiter (`engine_on_byte_tick`) | `s_tx_remaining`, `s_tx_from_bridge` | every 86.8 us gives the line to one stream | pops the bridge ring or the sensor ring, writes the UART, samples the burst trace |
| sensor task (`engine_sensor_task`) | frame counter | every tick fills its ring with whole frames | is preempted by the arbiter that drains the ring |
| receive interrupt (`engine_on_rx_byte`, `_block`, `_synth_tick`) | byte counters | pushes what the UART, the DMA or the synthetic load brings | fills the receive ring over the protocol task |
| verifier (`engine/frame.c`) | hunt state, frame buffer, burst count, last counter, snapshot | `frame_rx_byte` | run by the protocol task; read by telemetry; reset by the sweep |
| requests (`answer_request`) | `s_req_pending`, counters | the slot interrupt asks, the protocol task answers from the snapshot | interrupt and task share the flag |
| sweep (`sweep.c`) | request, abort flag, status, queue of 16 rows | one task; `sweep_request`, `sweep_abort`, `sweep_take_row` from telemetry | pauses the engine, reconfigures the port, resets the counters, hands the line back |
| port (`port/port_rp2350.c`) | receive mode, byte budget, deadline, DMA channels, handlers | three receive modes, DMA transmit, synthetic load | interrupts end a measurement by themselves |
| telemetry (`telemetry.c`) | one line buffer | 10 Hz: snapshot, row, command, trace, window reset | lowest priority, so every interrupt and task can come between its reads |
| statistics (`engine/metrics.h`) | min, max, sum, count; a histogram | `stat_add`, `stat_clear_extremes`, snapshot | raised by the receive interrupt, read and cleared by telemetry, zeroed by the sweep |
| server (`src/server/app.py`) | history, sweep rows, one queue per browser, the port's descriptor | publish, subscribe, snapshot, commands | reader thread, one thread per browser |
| pages (`src/dashboard/`) | rows taken, connected or not | take a row, take a ping, reconnect | `EventSource` to the server |

What is hard here: every structure is shared without a lock and relies on who
preempts whom; the arbiter relies on rates (nothing counts a burst to its end);
the ring sizes rely on arithmetic over rates; the sweep has to end and to give
back everything it took even when no task runs; counters are cleared by tasks
while interrupts raise them. `PROJECT.json` lists these hazards by line.

What makes each part correct:

* ring: a bounded FIFO for its two sides, a mark that covers the occupancy;
* transmit side: no stream cut, the line never idle, the backlog within the
  ring, trace and ring ready for the next burst;
* verifier: no fault on a clean line, every burst reassembled, faults noticed
  and forgotten on a bad one;
* requests: each answered or failed once, from a recent frame, and none stuck;
* sweep: ends, restores what it took, reports each point once and with its own
  figures;
* telemetry and server: snapshots that were once true, rows delivered once.

## Modules

| module | models | how it corresponds |
|---|---|---|
| `BoundedFifo` | what a ring promises | a queue, the byte on offer, the byte handed out last, the refusals counted |
| `ByteRing` | `ringbuf.h`, `ringbuf.c` | one access to a shared word per action; `push`, `pop`, `tele` say where each call is; `Rank` says who preempts whom |
| `Line` | `isotp.c`, arbiter, trace, sensor task | three countdown timers; a timer at zero must be served before time goes on; the rings are byte counts, since `ByteRing` shows they are FIFOs |
| `Receiver` | `frame.c`, `frame.h` | operators on the record `rx`, one per function, the checksum and its table included (recursive functions, so that they can be proved about); error counters are "not zero" |
| `Bridge` | `engine.c` end to end | `Line` with what its bytes are, the UART as a queue of at most two bytes, receive interrupt, protocol task, requests, hand-back by the sweep |
| `Noisy` | `frame.c` on a bad line | `Receiver` fed by a sender of frames and bursts, with bytes lost, changed and missing in a row |
| `RxDma` | the receive ring under the DMA channel | the storage, the ring's words, the channel's write address and transfer count; blocks, pushes and mode changes in any order |
| `Sweep` | `sweep.c`, the port operations it uses, `telemetry.c` | the port as a record `hw`, one operator per port function; one action per delay of the sweep task and per access of telemetry to what both share |
| `Telemetry` | `engine_get_stats`, `engine_reset_window`, `metrics.h`, the sending in `telemetry.c` | one read or write of the telemetry task per action; interrupts, bursts and resets between any two |
| `Hub` | `server/app.py`, the pages | one step per lock, put or write; one reader, one thread per browser |
| `Arithmetic` | | lemmas about quotients, remainders, powers of two and least elements, and induction over functions defined by recursion, that the proofs share |
| `ByteRing_proofs`, `Line_proofs`, `Bridge_proofs`, `RxDma_proofs`, `Sweep_proofs`, `Telemetry_proofs`, `Hub_proofs` | | the theorems below |
| `MCByteRing`, `MCLine`, `MCBridge` | | values of the constants for TLC, and in `MCLine` a stutter at the end of a bounded run |

`Bridge` composes `Line` and `Receiver`; `Noisy` takes `Receiver` alone. The
others stand beside them: what `RxDma`, `Telemetry` and `Sweep` need of the ring
is what `ByteRing` shows of it. `Bridge_proofs` extends `Line_proofs` and uses its
invariants as they are; it extends `Noisy` too, since what a byte does to the
verifier is the same on a good line and on a bad one.

Definitions whose comment begins with "Mutant:" are wrong on purpose. Nothing
uses them; put in the place of the definition that follows them they must make
TLC report the property that `PROJECT.json` pairs them with, which shows that
the property can fail.

### ByteRing

The producer's local copy of `head` is not a variable because nobody else
stores `head`; its copy of `tail` is, as `push.count`. `rb_pop` on an empty
ring changes nothing and is no step. A handler on this core runs to completion
unless something of higher rank comes, so `Runs(r)` keeps a party waiting while
one of higher rank is in an operation. `AnyOrder` gives all parties the same
rank: its behaviours include those of every other assignment, and it is what
the run uses. A machine word has `Size * Laps` values, so that indices
wrap after `Laps` rounds as they do after 2^32 / size. `cleared` is set when
telemetry or the sweep stores the high water mark: `PeakCovers` speaks of a ring
before that, because of divergence 5.

### Line

Handlers take no time (the receive interrupt is under a hundredth of a byte
time by the project's own measurement), but the byte tick may come between any
two pushes of the slot interrupt it preempts, and both between any two pushes of
the sensor task. Timers are started one after the other and have different
periods, so `Init` takes the byte tick at every phase of a set, and the frame on
the line at every byte. `Line_real` uses the cycle counts of `config.h` divided
by 30, their common divisor.

`RateAssumption` is the comments' arithmetic about rates and sizes, as relations
between the constants: two slots take less time than the bytes of one Consecutive
Frame; a burst, the frame it waits for and a kernel tick fit into the idle slots;
the trace is full before the next burst; the sensor ring lasts for a kernel tick
over a whole frame; the bridge ring holds a burst. The last is generous (the
bridge ring of 4096 bytes holds four bursts). `LongTrace`, that the trace has samples for all
slots of a burst, is a hypothesis of `TraceShows` alone and is checked of the
constants of `config.h` in `MCLine`. `TraceShowsPeak` is about a trace that is
complete and not being replaced.

### Receiver, Bridge and Noisy

A byte has `Bits` bits instead of 8 and a checksum twice as many; the generator
is `Poly`, the table is built and used as `frame_crc_init` and `frame_crc16` do.
The frame counter, the payload and bridge patterns and the header bytes are as
in the code. `HeaderOnce` says of the numbers that the two header bytes follow
one another nowhere in a frame but at its start, whatever the counter, the
checksum bytes included, and that no burst begins with the second.

In `Bridge` the tasks take no time and run in priority order on the tick;
interrupts come between any two of their steps. The position of a bridge byte in
its burst is taken from the count of bytes sent, which is the same as the byte
that was queued as long as none is lost (`NoFaults` checks it). `SweepHandsBack`
is the end of `sweep_task`, after the line has been given back: it waits for
`engine_between_bursts` and clears the counters, at most `HandBacks` times;
`handed` counts them. `waited` counts the wake-ups of the protocol task since a
request came. `BridgeAssumption` says that the receive ring holds what comes in a
kernel tick and two byte times (the firmware's holds 4096 bytes, a tick brings
twelve). `HandBackAssumption` is what clearing the verifier in the middle of a
frame rests on: `HeaderOnce`, that the rest of a frame taken for bridge bytes
does not count for a burst (each of at most five jumps in the pattern moves the
count by less than half the values of a byte, the payload by its length), and
that a kernel tick brings less than a burst.

`Noisy` has faults where the code may meet them: a byte the receive interrupt
is late for or the ring has no room for (`Lose`), any number of them
(`Outage`), and a byte the wire of the external loopback changed (`Change`).
`since` counts the bytes from the last fault on. What was noticed is forgotten
with a fault that comes when the verifier is in step again: it has to be noticed
for itself. One that comes sooner shares the errors of the one before. `NoisyAssumption` is
`HeaderOnce`: with a header in the middle of every frame the verifier need never
be in step again.

### RxDma

Bytes are numbered. The DMA channel writes at its own address and knows nothing
of `head` and `tail`; `on_rx_dma` moves `head` by a block and looks for an
overflow after the fact. Pushes by the receive interrupt and by the synthetic
load, reads by the protocol task and changes of mode by the sweep come in any
order; interrupts and tasks take one step each, since what comes between the
accesses of a push is `ByteRing`'s. `stray` and `sound` remember where the
channel was started elsewhere than at `head` (divergence 2): `InOrder` is about
the bytes from `sound` on.

### Sweep

`hw` holds what the port has set up (mode, rate, receive interrupt, byte budget,
transmitter, the handler of the shared PWM interrupt, the synthetic slice) and
`engine_pause`'s flag and timers. The sweep task has priority over telemetry and
gives up the core only in its delays, so what it does from one delay to the next
is one step for telemetry; the interrupts that can come in between are off or
silent at that time: `TxStop` comes before, `TxStart` is the last call, and the
limit is set before it.

At a fast UART point in byte mode, and at a fast synthetic rate, the interrupt
takes the whole core (`Starved`): only interrupts run, there is no kernel tick
and no task. That is what the firmware's own comments and log say of these
points, and the reason the interrupt counts itself down. `left` is the number of
telemetry periods a delay lasts at least; at a starved point it is zero, because
when the core comes back all the time has passed.

`TxEnds` and the transmitter are the SDK's and the wire's: the DMA loops end or
they do not, and nothing depends on it. `SynthOver` may give up on the load
before it is spent, as the 400 polls allow. `heard`, `reached` and `stopping`
are history, read by properties only. The model starts when the sensor task's
calibration is over: a command in the first quarter of a second is left out.

### Telemetry

The telemetry task has the lowest priority, so the receive interrupt
(`RecordIsr`), a burst and its reassembly, the end of a trace and the sweep's
`engine_reset_counters` may come between any two of its accesses. The copy of
the statistics is made with interrupts off, but in two steps, so that a mutant
without `port_irq_save` shows. The packet is `out`; `Send` lets its line go out
or be dropped (nobody listens, or it was truncated), then the window is cleared.
`told`, `due`, `longest` and `longestFree` are history: the longest interrupt
any packet has told of, and the longest there was when the last packet was
begun, with and without those that met a packet in the making.

### Hub

`serial_reader` opens the port, sets it up, reads and publishes; when a read
fails it forgets and closes the descriptor. What `publish` does under the lock is
one step, each `put_nowait` another, in any order of subscribers. A browser's
thread subscribes, takes its snapshot and greets, in that order, and then sends
what is in its queue, or a ping. A browser's slot is one connection at a time: a
page that connects while its old thread has not noticed that it is gone would
have two threads, and the old one can reach nobody. `Stalled` browsers have
subscribed and read nothing any more: their queues are full. The rows of a
session are at most 256, as `sweep_rows` keeps no more (`HubAssumption`).

## Runs

| run | result | what it shows |
|---|---|---|
| `ByteRing_any` | holds | types, `CountsConservative`, `PeakCovers`, and `BoundedFifo` implemented, for all ranks, two bytes of storage, four values of a word, with telemetry and the sweep as third parties |
| `Line_real` | holds | `StreamsWhole`, `LineFull`, `PeakBounded`, `ReadyForNext`, `TraceShowsPeak` with the real constants |
| `Bridge_whole` | holds | types; no fault on a clean line until a hand-back (`NoFaults`), bursts reassembled in time across one, the request ledger, freshness of answers, an answer by the next wake-up, the table of the checksum is its polynomial division (`TableDivides`) |
| `Noisy_line` | holds | a fault is noticed within a frame, whether or not one before it was (`NoSilentFault`), the verifier is in step again after a burst and three frames (`Heals`) |
| `RxDma_modes` | holds | bytes are read as they came in unless lapped (`InOrder`), a lapped reader is told (`OverflowTells`), pushes never write over unread bytes, in either mode (`OnlyDmaLaps`), every byte is counted once or lost to a known cause (`BytesCounted`) |
| `Sweep_all` | holds | `GivenBack`, `HandlerMatchesSource`, `LoadBounded`, `RowsComplete`, `BudgetInBytes`, `PeakNotLost`, `StopHeeded`, `SweepEnds`, for all three kinds of sweep, any command at any packet |
| `Telemetry_packets` | holds | a packet's figures are consistent (`PacketAgrees`), a torn trace is followed by a whole one (`TraceMadeGood`), traces arrive (`TraceArrives`), the longest interrupt is told of if it met no packet (`FreeWorstTold`) |
| `Hub_watch` | holds | the port's state is told truly (`Sound`), no sample missed unseen (`NoGap`), the session's rows shown as new as they were (`SessionShown`), rows reach the pages (`RowsArrive`), who is gone is unsubscribed (`GoneNoticed`), a lost port is told of (`QuietTold`) |
| `Sweep_hist` | violated | `HistogramOfRow`: the next point has cleared it |
| `RxDma_place` | violated | `WritesIntoTheRing`: the channel starts at the first slot, the ring reads from `head` |
| `Telemetry_worst` | violated | `WorstTold`: an interrupt between the copy and the clearing is in no packet |
| `Hub_reader` | violated | `ReadsForever`: a `termios.error` while opening ends the reader's thread |

The type invariants of `Line`, `RxDma`, `Sweep` and `Telemetry` are in no run of
their own, which spend their time on the properties above: they are theorems.
`BridgeTypeOK` includes that of `Line`, `Sound` that of `Hub`, and `Noisy` has
none: `InStep` is about the same record. All violated properties are invariants.

### Bounds

* `ByteRing_any`: two bytes fill, empty and wrap in a few steps; the word wraps
  after two laps. The theorems remove the bound.
* `Line_real` follows one burst (`MaxBursts`) from `Period` on: the sensor
  stream before it is periodic, and `Init` has every byte of a frame. `Period`
  is 1010 slots instead of 7407: the ring is empty some 660 slots after a burst
  began (`ReadyForNext` checks that the next one finds it so), and idle slots
  repeat. `SampledPhases` takes 15 of the 434 phases of the byte tick, both ends
  included. `AtBound` stutters where the run ends, so that deadlock is checked.
* `Bridge_whole` has bursts of 16 bytes in 4 data frames, frames of 6 bytes with
  one byte of payload, bytes of 8 values, a checksum of 6 bits; rates are chosen
  so that a burst builds up a backlog, a frame delays it, and several kernel
  ticks pass in a burst. Bursts go on for ever (`Endless`) and the state space
  closes, with a hand-back between any two (`HandBacks` is 1: a second one finds
  what the first found).
* `Noisy_line` has two faults (`MaxFaults`), so that one may come while the
  verifier is still out of step from another. `NoticeWithin` is a frame,
  `HealWithin` a burst and three frames. The same small frame and checksum as in
  `Bridge`: with this polynomial every single changed byte is detected, as with
  the real one.
* `RxDma_modes` has a ring of two blocks of two bytes, a FIFO of two and eight
  bytes or synthetic ticks: enough to lap the reader twice, to change modes with
  the channel anywhere in the ring, and to lose bytes at each place one can be
  lost.
* `Sweep_all` has every mode at 3 baud rates, the last of which starves, and 5
  synthetic rates, three of which do. `RowQueue` and
  `PointPackets` are 4, which keeps what the firmware relies on and `PaceAssumption`
  says: there is a place more than synthetic points in a row that starve (16
  places; the repository's log shows ten such points without a packet), and a
  point that does not starve lasts as many telemetry periods as there are
  places, so that it drains what the points before it left, one row per packet
  (the firmware's last 20 and 30). The budgets are 4 bytes and
  3 firings, enough to be spent, to be cut by the deadline, and to be left
  unspent.
* `Telemetry_packets` has two durations, two interrupts, two bursts with a trace
  of two samples each, and one end of a sweep, any of them between any two
  accesses. The theorems remove the bound.
* `Hub_watch` has one browser that comes and goes and one that is stalled, two
  points, a queue of one place, a history of two and three samples, so that the
  queue overflows, the history drops its oldest, and a point is measured twice.

### Fairness

`Bridge` needs none: that a request is dealt with is said as a bound
(`AnsweredByNextWake`), and time cannot pass a timer at zero.

`Sweep` assumes weak fairness of the receive interrupt, of the synthetic one, of
time (`DeadlinePasses`), of the sweep task and of telemetry, each by itself: an
interrupt that is enabled and has a source fires, a clock goes on, and a task
whose delay is over runs when nothing above it does. Neither the transmitter nor
DMA blocks are owed anything, nor is any command. `SweepEnds` needs it, and it is
the deadline that carries it: in DMA mode nothing counts down.

`Telemetry` assumes weak fairness of the telemetry task: it runs whenever nothing
else does, and a sweep that starves it ends (`SweepEnds`). `TraceArrives` needs
it. No interrupt and no burst is owed.

`Hub` assumes weak fairness of the reader's thread, and for each browser of its
thread's steps: the greeting and the samples, the ping, and the end of a thread
whose write fails. The operating system runs threads that can run, and the ping
comes every ten seconds. Nothing makes the board or a browser come, or stay.

## What is proved

Every safety invariant and every action property that a run checks is a theorem
for all values of the constants, except those under "Only model-checked".
Each theorem is a temporal one, `Spec => []P` or `Spec => [][A]_vars`, from an
inductive invariant: it holds at the start, every step keeps it (one lemma or one
step of the proof per action), and it implies the property.

### `ByteRing_proofs`

For every `Size > 0`, every word of at least two laps, every set of parties and
every ranking:

* `TypeCorrect`, `SafeCounts`: `Spec => []TypeOK`, `Spec => []CountsConservative`;
* `Refinement`: `Spec => Fifo!Spec`, the ring is a bounded FIFO;
* `MarkCovers`: `PeakCovers`, until telemetry or the sweep stores the mark.

`CountsConservative` is nearly inductive: the count a push decided on is never
below the real one, so the slot it writes is free, and a pop that saw a byte
still has it. The refinement also needs the contents of the two slots in flight:
`StoredByte` (stored, not yet published) and `LoadedByte` (loaded, not yet
released). `IInv` is the four together. A store to the slot of `head` does not
touch what is between `tail` and `head` because words less than `Size` apart
have different slots (`SlotsDistinct`), across the wrap too: that is where
`Size` dividing the range of a word is needed, and the reason for `Residues` and
`WholeLaps` in `Arithmetic`. `PushPublish` and `PopAdvance` are then `Append` and `Tail` on the
abstract queue (`PublishAppends`, `AdvanceTakes`).

### `Line_proofs`

For all byte, slot and kernel tick times, frames, bursts, blocks, rings, periods
and traces that meet `LineAssumption` and `RateAssumption`: `LineIsFull`,
`StreamsAreWhole`, `NextFindsReady`, `PeakIsBounded`, `TypeIsRight`, and
`TraceShows` for a `LongTrace`.

None of these is about a single variable, and none is inductive: they hold
because of time. A ring that is read a byte per `ByteTime` runs dry at the byte
tick due in `tick + ByteTime * bytes`; each part of the invariant compares that
with the time to what refills the ring, and time passing takes the same from both
sides.

* `SensorInv`: what the sensor ring holds over a frame lasts until the task runs.
* `BridgeInv`: every byte of a burst is to come, in the ring or sent (`Account`);
  the ring lasts beyond the next Consecutive Frame (`KeepsUp`), which is where a
  Flow Control, a slot without bytes, matters; after the last it is empty, and
  the arbiter has seen it, a kernel tick and a byte time before the next burst
  (`Drains`). `StreamsWhole` is its part `OneOwner`.
* `TraceInv`: a trace is taken before the next burst.
* `PeakHigh` and `PeakLow`: at the last Consecutive Frame the line has taken
  what fits between the first and the last, less a frame's wait, and no more.
* `ShowInv`: the trace still runs when the last Consecutive Frame comes in, which
  is when the ring is fullest, and takes a sample within `TraceEvery` ticks.

`GrowsFaster` turns slots into bytes: the slots still to come of a burst take no
more time than the bytes they bring, although some bring none.

### `Bridge_proofs`

For all of the above, any frame, checksum polynomial and width of a byte, and a
receive ring that meets `BridgeAssumption`:

* `BridgeKeepsLine`: the steps of the bridge are steps of `Line`
  (`StepsOfLine`), so the transmit side's properties hold of the bridge, from its
  own start, with the hand-back by the sweep among its steps;
* `LedgerIsBalanced`, `AnswerIsPrompt`: the requests, hand-backs included
  (`RequestInv`);
* `NoFaultIsFound`: `NoFaults`, until the sweep hands back;
* `BurstsAreReassembled`, `SnapshotIsFresh`: `Reassembled` and `SnapshotFresh`,
  hand-backs included;
* `BuffersHold`: whatever bytes the verifier takes for a frame after a
  hand-back, its buffer and the receive ring are not overrun;
* `BridgeTypeCorrect`: `BridgeTypeOK`;
* `TableStandsForDivision`: `TableDivides`, the checksum by the table is the
  remainder of the polynomial division, bit by bit;

and, with `NoisyAssumption` and any number of faults of any kind,

* `VerifierHeals`: `NoisySpec => []Heals`.

**The clean line.** `NoFaultIsFound` and what follows are the end to end claim of
the program, and rest on `WayInv`.
`QueueInv` is about time again: the bytes on their way (`Flying`, the ring
followed by the UART) are no more than come in what has passed of a kernel tick
and two byte times (`Few`), so the receive ring is never full. `FlightInv` says
that there is a path of places in the two streams, one step per byte on its way,
from the place the verifier has heard to the place the sender is at. A place is
how many frames were sent, how far the next one is, how far the burst is, and
the parity of the bursts. `Follows` is what the verifier's state must be at a
place, with no fault, and `Hears` that a byte of either stream takes it to the
next place, which is one lemma for each state of the verifier and the end of a
frame. `Timely` adds when: those of a burst that is through are drained before
the next one begins; it needs the `Margin` of `Drains`. That a good frame passes
only needs the checksum to be a function of the bytes before it.

**After a hand-back.** The sweep clears the verifier wherever it is, and it may
then count an error: `Follows` is lost, and `Tracks` takes its place. Either the
verifier is on the frame or burst that is sent (`OnFrame`), with its count of
the burst in step with the bytes, or ahead by rounds of the pattern because of
what it had counted before, or turned over early for the same reason (`InCount`);
or it goes through the rest of the frame it was cleared in, taking it for bytes
of a burst (`Skips`), and `InWaste` bounds by `Wasted` what it counts of it, so
that it is less than a burst. `TracksFrame`, `TracksBurst` and `TracksWaste` show
that a byte keeps `Tracks`. `FewFly`, that less than a burst is ever on its way,
relates the place the verifier has heard to the sender's.

**The checksum.** `frame_crc_init` and `frame_crc16` are recursive functions of
the model. `^` is defined bit by bit, and its laws (it commutes, associates, is
its own inverse, stays a word) are inductions over the width, as is that a shift
with the generator distributes over it. So the eight shifts of a word are those
of its high byte, which the table holds, and its low byte moved up
(`ByteDivides`); `ChecksumIs` goes byte by byte over a frame. That a checksum
byte is a byte, and so `BridgeTypeCorrect`, comes out of the same lemmas. The
library's induction theorems take an operator and cannot be used: `InductionOn`
and `Recursion` in `Arithmetic` speak of a set and of a function instead.

**The bad line.** `Heals` counts bytes since the last fault, and `NoisyInv` says
which of four phases the verifier can be in after how many. `Astray`: it
gathers bytes behind a header that was none, no more of them since the fault than
it holds. `Hunts`: it looks for a header, and by `HuntLimit` the one of the next
frame comes in time (a burst may be in between; `HeaderOnce` is why it does not
take another). `Gathers`: it is on a frame, by `GatherLimit` early enough.
`Steady`: it follows the sender, and any error it counts is of the byte that
brought it there, within a burst and three frames. A fault leads to any of them,
with the count at zero.

### `RxDma_proofs`

For any ring, block and FIFO: `LappedIsTold` (`OverflowTells`), `BytesAreInOrder`
(`InOrder`), `PushesLapNothing`, `BytesAreCounted` (the two action properties) and
`TypeIsRight`.

`Ahead` bounds by a block how far the channel may be past what was announced,
through every change of mode; `Honest` is the count the overflow check keeps.
`PlaceInv` says where the bytes are: each one from `sound` on that nothing has
since been written over is in its slot (`Placed`), those the channel has written
and not announced included. A write disturbs no other because places less than a
ring apart have different slots (`Residues` again).

### `Sweep_proofs`

For any number of rates, any set of them starving, any budgets, delays and queue:

* `SweepTypeCorrect`: `Spec => []TypeOK`;
* `LineGivenBack`: `GivenBack`, what a sweep took is back on every path;
* `HandlersMatch`: `HandlerMatchesSource`, no handler set over another;
* `LoadsBounded`: `LoadBounded`, no source of interrupts without an end;
* `BudgetIsInBytes`: `BudgetInBytes`, byte by byte the budget ends the point;
* `StopIsHeeded`, `PeakIsNotLost`: the two action properties;
* `RowsAreComplete`: `RowsComplete`, which also needs `PaceAssumption`.

What the port has set up depends on the delay the task is in, and `HwInv` says
how. It is `Normal` before and after a sweep, `Quiet` while nothing drives the
line, `Listening` at a UART point (a limit that is set has budget left; no
transmitter with the interrupt on without a limit) and `Driven` at a synthetic
one (its handler in place, firings left while the slice runs). Each port
operation takes one of these to another, a lemma each; the steps of the task and
of the interrupts are then short. `ModeInv` relates budget and bytes heard.
`WindowInv` is about the packet that began before the sweep and will reset the
window: it does so before anything fills the ring. `QueueInv` counts rows against
the telemetry periods that have passed of a delay, each of which took one
(`Fits`): points that starve take none and are few, the others last long enough
to drain the queue. Without it the queue turns a row away; with it, `RowsInv`,
that the indices in the queue and in the packet follow one another up to the
point the sweep is at, is kept.

### `Telemetry_proofs`

For any set of durations, any length of the trace, any number of interrupts,
bursts and sweeps: `TelemetryTypeCorrect`, `PacketsAgree`, `TracesMadeGood`,
`FreeWorst`.

The packet is a copy that falls behind what it was made from, and the invariant
says how far it may at each place of the task. `StatInv`: the sum of a copy
whose count has yet to be taken is still that of the counters. `CountInv`:
bursts only go up between the two reads, unless they were zeroed. `TraceInv`:
what was copied is of the number that was read, or a newer trace is there by
now. `WorstInv`: what the task has cleared it has told of. `Past` is how far the
task has read.

### `Hub_proofs`

For any number of browsers, samples and points up to the 256 the server keeps,
any queue and any history: `ServerIsSound` (`Sound`, types included),
`NoSampleIsMissed` (`NoGap`), `SessionIsShown` (`SessionShown`).

`PortInv` is where the reader is when the descriptor is open, known and told of.
`KeptInv`: the history is the last samples without a gap, and a point has one
row. `SubsInv` ties who is subscribed to where its thread is. `Whole`, for each
browser: of the samples it is to see, each is in the snapshot to be sent or seen,
waits in the queue, or is being put. It holds across the moment between
subscribing and taking the snapshot, when samples may be in both. `Shown`: a new
page has no rows before the greeting and those of the session after it.

### Assumed

`SizeAssumption`, `ByteAssumption`, `RoleAssumption`, `LineAssumption`,
`RateAssumption`, `ReceiverAssumption`, `BridgeAssumption`, `RxDmaAssumption`,
`HandBackAssumption`, `NoisyAssumption`, `SweepAssumption`, `PaceAssumption`,
`TelemetryAssumption`, `HubAssumption`: all
about constants, and TLC evaluates each in the runs of its module, with the
numbers of `config.h` for `Line`. The runs of `Bridge` and `Noisy` have small
frames. For the firmware's (header 0xA5 0x5A, polynomial 0x1021, 64 bytes of
payload) `HeaderOnce` was computed from `frame.c` for all 256 counters; the other
two parts of `HandBackAssumption` are 5 * 127 + 64 = 699 against 1024 bytes, and
15 byte times against 896.

### Only model-checked

* `NoSilentFault` (`Noisy`) depends on which changes the polynomial detects. It is
  not true of every polynomial, and for a given one it is a fact about that
  number, not about the code.
* `SweepEnds`, `TraceArrives`, `RowsArrive`, `GoneNoticed` and `QuietTold`:
  liveness under fairness, and with it `ENABLED`, are out of the prover's reach.
* That no run ends in a deadlock.

## Where the code and its documents disagree

A run shows each of the first four.

1. `telemetry.c:214-216`: a row goes out with the histogram that produced its
   percentile. The row may have waited in the queue while later points cleared
   it: rows 26 to 36 of the repository's log have the histogram of another
   (`Sweep_hist`).
2. `engine.c:284-286`: in DMA mode the hardware writes straight into the ring.
   `rx_dma_start` starts the channel at the first slot of the storage; `head` is
   wherever the mode before left it, and the reader gets what was there
   (`RxDma_place`).
3. `metrics.h:45-46`, repository `README.md:30`: the worst case of the last
   window. An interrupt that comes after `engine_get_stats` has copied the
   statistics and before `engine_reset_window` clears them is in no window
   (`Telemetry_worst`).
4. `src/server/app.py:188`: the reader reads for ever, reopening the port.
   `open_raw` lets a `termios.error` through, which is no `OSError`: the thread
   ends, and the server serves on without a board (`Hub_reader`).

The others were met while modelling.

5. `ringbuf.h:31` calls `peak` a mark stored by the producer only;
   `rb_clear_peak` (telemetry) stores it too, from a count the producer may have
   overtaken (`ringbuf.h:93`), so the mark may be below the occupancy.
6. `engine.c:468-469`: every scalar can be read without stopping anything;
   `rb_count` is two of them, and a third party's difference may be larger than
   the ring.
7. `sweep.c:414-419`: clearing between bursts avoids false faults; it cuts a
   sensor frame instead (`engine.c:337`), and a reassembly error is reported.
8. `sweep.c:218-221`: the interrupt counts the bytes down and the point ends by
   itself. `on_uart_rx` takes one off per interrupt (`port/port_rp2350.c:118`),
   which is 16 bytes in FIFO mode, and `on_rx_dma` none; those points last until
   the deadline.
9. `telemetry.c:289-290`: the sweep resets the window. It does not reset the
   ring peak (`sweep.c:185`), and telemetry does not while a sweep is on: in the
   log the peak stays at 4096 from row 7 on, through points that lose nothing.
10. `telemetry.c:254`: a character stops a sweep. One that comes after the
    request and before the task's next look at it is cleared by the task
    (`sweep.c:386`).
11. `engine.c:76-77`: the trace is double buffered, so that it is read at
    leisure. The copy goes on while the next one is moved in
    (`engine.c:212`, `519`), and one packet may have parts of two. `TraceMadeGood`
    is what remains true.
12. `engine.c:499`: later stages are read first; requests are read before
    responses (`engine.c:507`), and a packet may show one more answered than
    sent.
13. `src/server/app.py:80` lets a row replace the one with its index;
    `src/dashboard/sweep.html:254` keeps the first it got, until the page is
    loaded again.
14. Repository `README.md:70-72`: the peak is between 796 and 864. The true band
    is about 803 to 872 (`PeakBounded`), since the first two and last two slots
    deliver nothing.
15. `isotp.h:52`, `config.h:78-82`: the period is counted from start to start;
    `isotp_slot` counts idle slots only, so bursts start 1.0197 s apart.
16. `telemetry.c:203-207`: progress rides along on every packet, but only while a
    sweep runs or has got beyond its first point: of one that was stopped in its
    first point no packet says that it is over.
17. `sweep.c:127`: of a histogram with one sample, the 99.9th percentile's rank
    is computed as zero, and the first bin is reported whatever the sample was.

## Not modelled

* Formatting: the JSON of a packet, `cpu_json`, log lines. A truncated line is
  one that is dropped.
* The arithmetic of a row (`finish`: rates, percentiles, load).
* `send_command`, `power_cycle` and static files in the server (one request, no
  state of their own; the descriptor they find is in `PortHonest`), and replay
  and demo, which publish as the reader does.
* The drawing of the pages, and `src/scripts/`: reports over captured logs,
  build and installation.
* Register writes that only configure hardware; the kernel and the SDK, which are
  external and modelled from their use.
* A command during the sensor task's calibration.

## Plan

The modules and the runs are complete, and so are the proofs of the invariants
that can be proved. What is left:

1. Steps that are never out of turn, as theorems where TLC finds no deadlock: of
   every reachable state of `Line` and of `ByteRing`, that the guard of some
   action holds, written out instead of `ENABLED`.
2. `NoSilentFault`, given of the polynomial that it tells the frames with a byte
   lost or changed from whole ones.
3. Lemmas that two proof modules state each for itself (`ConcatAppend`) moved to
   one place.
