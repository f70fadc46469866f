---------------------------- MODULE MCAuditJournal ----------------------------
(***************************************************************************)
(* Small instances of AuditJournal for TLC.                                 *)
(***************************************************************************)
EXTENDS AuditJournal

CONSTANTS p1, p2
===============================================================================
