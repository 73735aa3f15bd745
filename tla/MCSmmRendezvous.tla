-------------------------- MODULE MCSmmRendezvous --------------------------
(***************************************************************************)
(* SmmRendezvous for TLC.                                                   *)
(***************************************************************************)
EXTENDS SmmRendezvous

\* Each processor has MTRRs of its own.
OwnCore == [c \in Cpu |-> c]

\* Processors 0 and 1 are threads of one core.
Threads01 == [c \in Cpu |-> IF c = 1 THEN 0 ELSE c]
=============================================================================
