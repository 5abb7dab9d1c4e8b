------------------------------ MODULE MCByteRing -------------------------------
(***************************************************************************)
(* The ranks of the parties to a ring for TLC.                             *)
(***************************************************************************)
EXTENDS ByteRing

\* Everybody interleaves with everybody: covers every assignment of ranks.
AnyOrder == [r \in AllRoles |-> 0]
================================================================================
