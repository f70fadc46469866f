------------------------------- MODULE AuditLog -------------------------------
(***************************************************************************)
(* What the audit journal promises: a log that only grows at its end.  A    *)
(* position that was acknowledged keeps its event for ever; events beyond   *)
(* the last acknowledged one may still be lost.                             *)
(***************************************************************************)
EXTENDS Naturals, Sequences

CONSTANT Events

VARIABLES
  log,    \* the events, by sequence number
  acked   \* the last sequence number handed to a caller

Init == log = <<>> /\ acked = 0

Extend == \E e \in Events : log' = Append(log, e) /\ UNCHANGED acked

Acknowledge == acked' \in (acked + 1)..Len(log) /\ UNCHANGED log

Lose == \E n \in acked..Len(log) : log' = SubSeq(log, 1, n) /\ UNCHANGED acked

Next == Extend \/ Acknowledge \/ Lose

Spec == Init /\ [][Next]_<<log, acked>>
===============================================================================
