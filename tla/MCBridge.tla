------------------------------- MODULE MCBridge --------------------------------
(***************************************************************************)
(* A bridge small enough for TLC.                                          *)
(***************************************************************************)
EXTENDS Bridge

\* Every phase of the byte tick against the slot and the kernel tick.
AllPhases == 0 .. ByteTime - 1
================================================================================
