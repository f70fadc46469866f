----------------------------- MODULE MCAndroidSync -----------------------------
(***************************************************************************)
(* Small instances of AndroidSync for TLC.                                  *)
(***************************************************************************)
EXTENDS AndroidSync

CONSTANTS n1, p1, n2, u1, u2

Contacts == [u \in Uids |-> "contact"]
Events   == [u \in Uids |-> "event"]

(* One resource has an identity of the server's and a provisional one. *)
Aliases == [u \in Uids |-> IF u = u1 THEN {n1, p1} ELSE {n2}]

Service(scheme, host) ==
  {[scheme |-> scheme, userinfo |-> FALSE, host |-> host, port |-> {}]}

GoodLink == {[endpoint |-> Service("https", "dav"), token |-> "clean"]}

(* ... and accounts nothing can be sent for. *)
SomeLinks ==
  GoodLink \cup
  {[endpoint |-> {}, token |-> "clean"],
   [endpoint |-> Service("http", "dav"), token |-> "clean"],
   [endpoint |-> Service("https", "dav"), token |-> "blank"]}
=============================================================================
