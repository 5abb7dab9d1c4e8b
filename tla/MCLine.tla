-------------------------------- MODULE MCLine ---------------------------------
(***************************************************************************)
(* The constants of config.h for TLC: 30 core cycles make one unit.        *)
(***************************************************************************)
EXTENDS Line

\* Every 31st phase between the byte tick and the slot, and the two extremes.
SampledPhases == {31 * k : k \in 0 .. 13} \union {ByteTime - 1}

ASSUME TraceIsLong == LongTrace

\* The run has followed MaxBursts bursts and ends before the next: a stutter,
\* so that any other end is a deadlock.
AtBound ==
  /\ ~Endless /\ bursts = MaxBursts
  /\ Starts /\ slot = 0
  /\ UNCHANGED vars

BoundedSpec == Init /\ [][Next \/ AtBound]_vars
================================================================================
