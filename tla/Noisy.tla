--------------------------------- MODULE Noisy ---------------------------------
(***************************************************************************)
(* The verifier (Receiver) on a line that is not kind to it: a byte is     *)
(* lost when the receive interrupt is late (port_uart_overrun) or the ring *)
(* is full (rb_push), and the wire of the external loopback may change     *)
(* one.  The sender sends frames with a burst between them now and then.   *)
(***************************************************************************)
EXTENDS Receiver

CONSTANTS
  MaxFaults       \* faults in a behaviour

\* A header is one: else the verifier might take the middle of every frame for
\* the beginning of one, and never be in step.
ASSUME NoisyAssumption == MaxFaults \in Nat /\ HeaderOnce

\* So many bytes after a fault it has been counted, and so many after the
\* last nothing is counted any more: a burst, and three frames.
NoticeWithin == FrameLen
HealWithin == BurstBytes + 3 * FrameLen

VARIABLES
  source,     \* what is being sent, the bytes sent of it, the frame counter
  verifier,   \* s_verifier; its error flags are those of the last byte
  faults,     \* faults so far
  since,      \* bytes sent since then, up to a bound
  noticed,    \* an error has been counted since the line was last in order
  outage      \* since then, more than a byte was lost in a row

noisyVars == <<source, verifier, faults, since, noticed, outage>>

NoisyInit ==
  /\ source = [kind |-> "frame", sent |-> 0, counter |-> 0]
  /\ verifier = RxInit
  /\ faults = 0 /\ since = 0 /\ noticed = FALSE /\ outage = FALSE

Length(kind) == IF kind = "frame" THEN FrameLen ELSE BurstBytes

Byte ==
  IF source.kind = "frame" THEN FrameOf(source.counter)[source.sent + 1]
  ELSE BridgeByteAt(source.sent)

\* A burst is never sent right after another: the line is the sensor's for
\* most of a period.
Sent ==
  IF source.sent + 1 < Length(source.kind)
  THEN source' = [source EXCEPT !.sent = @ + 1]
  ELSE IF source.kind = "burst"
  THEN source' = [source EXCEPT !.kind = "frame", !.sent = 0]
  ELSE \E kind \in {"frame", "burst"} :
         source' = [kind |-> kind, sent |-> 0,
                    counter |-> (source.counter + 1) % Bytes]

NoErrors(r) ==
  [r EXCEPT !.crc = FALSE, !.gaps = FALSE, !.resyncs = FALSE, !.payload = FALSE,
            !.isotp = FALSE]

\* The verifier gets a byte; its flags show what it counts for it.
Hear(b) == verifier' = RxByte(NoErrors(verifier), b)

\* A fault while the verifier may still be out of step from another is told by
\* the same errors; one that comes later has to be noticed for itself.
Recovering == since < HealWithin

Good ==
  /\ Sent /\ Hear(Byte)
  /\ noticed' = (noticed \/ ~Clean(verifier'))
  /\ since' = IF since < HealWithin THEN since + 1 ELSE since
  /\ UNCHANGED <<faults, outage>>

Fault ==
  /\ faults < MaxFaults
  /\ faults' = faults + 1
  /\ since' = 0

Lose ==
  /\ Fault
  /\ Sent
  /\ noticed' = (noticed /\ Recovering)
  /\ outage' = (outage /\ Recovering)
  /\ UNCHANGED verifier

\* Any number of bytes is lost in a row.
Outage ==
  /\ Fault
  /\ \E kind \in {"frame", "burst"}, counter \in ByteRange :
       \E sent \in 0 .. Length(kind) - 1 :
         source' = [kind |-> kind, sent |-> sent, counter |-> counter]
  /\ noticed' = (noticed /\ Recovering)
  /\ outage' = TRUE
  /\ UNCHANGED verifier

Change ==
  /\ Fault
  /\ Sent
  /\ \E b \in ByteRange \ {Byte} : Hear(b)
  /\ noticed' = ((noticed /\ Recovering) \/ ~Clean(verifier'))
  /\ outage' = (outage /\ Recovering)

NoisyNext == Good \/ Lose \/ Outage \/ Change

NoisySpec == NoisyInit /\ [][NoisyNext]_noisyVars

(***************************************************************************)
(* Properties.                                                             *)
(***************************************************************************)

\* A byte that is lost or changed does not go unnoticed, however many faults
\* were noticed before it (frame.c:72-126).
NoSilentFault == faults > 0 /\ ~outage /\ since >= NoticeWithin => noticed

\* No error is counted any more, and every frame and every burst is taken.
InStep ==
  /\ Clean(verifier)
  /\ verifier.have
  /\ verifier.last = (source.counter - 1) % Bytes
  /\ source.kind = "burst" => verifier.bridge = source.sent /\ verifier.state = "sync0"

\* The verifier finds its way back: so many bytes after the last fault it is
\* in step with what is sent, and stays so (frame.c:72-177).
Heals == since >= HealWithin => InStep
================================================================================
