-------------------------- MODULE DurableCheckpoint --------------------------
(***************************************************************************)
(* What the checkpoint store promises its clients, with no file in sight.   *)
(* There is one settled state: the last whose publication was reported to   *)
(* succeed.  Attempts since then that got no answer, or a failure, are in   *)
(* doubt.  A store shows its owner the settled state or one in doubt, never *)
(* anything else; only one store is open at a time; a store only ever holds *)
(* history of its own scope; and a reported success settles the matter.     *)
(***************************************************************************)
EXTENDS SyncState

CONSTANTS Procs, ScopeOf, Closed

VARIABLES view, settled, doubtful

vars == <<view, settled, doubtful>>

Init ==
  /\ view = [p \in Procs |-> Closed]
  /\ settled = EmptyState
  /\ doubtful = {}

Open(p) ==
  /\ \A q \in Procs : view[q] = Closed
  /\ \E s \in {settled} \cup doubtful :
       /\ Bindable(s, ScopeOf[p])
       /\ view' = [view EXCEPT ![p] = Bound(s, ScopeOf[p])]
  /\ UNCHANGED <<settled, doubtful>>

(* From here on the new state may be found by a later Open. *)
Attempt(p, s) ==
  /\ view[p] # Closed
  /\ s.scope = view[p].scope
  /\ doubtful' = doubtful \cup {s}
  /\ UNCHANGED <<view, settled>>

(* Success is reported, and the owner sees exactly what was settled. *)
Settle(p, s) ==
  /\ view[p] # Closed
  /\ s.scope = view[p].scope
  /\ s \in doubtful
  /\ settled' = s
  /\ doubtful' = {}
  /\ view' = [view EXCEPT ![p] = s]

(* The owner closes its store or crashes. *)
End(p) ==
  /\ view[p] # Closed
  /\ view' = [view EXCEPT ![p] = Closed]
  /\ UNCHANGED <<settled, doubtful>>

Next ==
  \E p \in Procs :
    \/ Open(p) \/ End(p)
    \/ \E s \in doubtful' : Attempt(p, s)
    \/ \E s \in doubtful : Settle(p, s)

Spec == Init /\ [][Next]_vars
=============================================================================
