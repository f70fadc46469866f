----------------------------- MODULE MCDavService -----------------------------
(***************************************************************************)
(* Small instances of DavService for TLC.                                   *)
(***************************************************************************)
EXTENDS DavService

CONSTANTS n1, n2

OneOfEach == [n \in Names |-> IF n = n1 THEN "contact" ELSE "task"]
=============================================================================
