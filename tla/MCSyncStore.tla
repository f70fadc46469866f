----------------------------- MODULE MCSyncStore -----------------------------
(***************************************************************************)
(* Small instances of SyncStore for TLC.                                    *)
(***************************************************************************)
EXTENDS SyncStore

CONSTANTS p1, p2, p3, s1, s2

SameScope   == [p \in Procs |-> s1]
MixedScopes == [p \in Procs |-> CASE p = p1 -> s1 [] p = p2 -> s2 [] OTHER -> NoScope]
=============================================================================
