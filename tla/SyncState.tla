------------------------------ MODULE SyncState ------------------------------
(***************************************************************************)
(* The sync bookkeeping record of crates/sync (SyncState) and, for each     *)
(* operation of SyncStore, the candidate state it computes before anything  *)
(* reaches the disk.  Identities stand for their whole ObservedResource or  *)
(* Tombstone row: no property here depends on a row's UID, ETag or date.    *)
(***************************************************************************)
EXTENDS Naturals

CONSTANTS
  Ids,        \* resource identities
  OpIds,      \* operation identifiers a client may enqueue
  Scopes,     \* binding scopes (domain, binding, endpoint, account, Space)
  NoScope,    \* the scope of a legacy, unscoped checkpoint
  NoWork      \* no pending operation under this operation identifier

ASSUME SentinelAssumption == NoScope \notin Scopes

OperationKinds == {"Create", "Update", "Archive", "Delete"}
Work == [kind : OperationKinds, target : Ids]

ASSUME NoWorkAssumption == NoWork \notin Work

SyncStates ==
  [generation : Nat,
   scope      : Scopes \cup {NoScope},
   observed   : SUBSET Ids,
   pending    : [OpIds -> Work \cup {NoWork}],
   tombstones : SUBSET Ids]

(* What `open` presents when neither file exists. *)
EmptyState ==
  [generation |-> 0,
   scope      |-> NoScope,
   observed   |-> {},
   pending    |-> [o \in OpIds |-> NoWork],
   tombstones |-> {}]

-----------------------------------------------------------------------------
(* bind_scope: may a store opened for `expected` take over state s, and as  *)
(* what.  A state that already records something never changes hands.       *)

(* Seeded fault: only observed rows count as history. *)
HoldsRows(s) == s.observed # {}

HoldsHistory(s) ==
  \/ s.generation # 0
  \/ s.observed # {}
  \/ s.pending # [o \in OpIds |-> NoWork]
  \/ s.tombstones # {}

Bindable(s, expected) ==
  \/ s.scope = expected
  \/ /\ s.scope = NoScope
     /\ ~HoldsHistory(s)

Bound(s, expected) ==
  IF s.scope = NoScope THEN [s EXCEPT !.scope = expected] ELSE s

-----------------------------------------------------------------------------
(* The candidates.  Each operation stages the whole new record and numbers  *)
(* it with the next generation.                                             *)

NextGeneration(s) == [s EXCEPT !.generation = @ + 1]

Observed(s, i) == NextGeneration([s EXCEPT !.observed = @ \cup {i}])

(* A tombstone blocks an ordinary refresh that contains its identity. *)
RefreshBlocked(s, rows) == rows \cap s.tombstones # {}

(* Rows missing from a complete listing become tombstones. *)
(* Seeded fault: they are only dropped. *)
RefreshedTraceless(s, rows) == NextGeneration([s EXCEPT !.observed = rows])

Refreshed(s, rows) ==
  NextGeneration([s EXCEPT !.tombstones = @ \cup (s.observed \ rows),
                           !.observed = rows])

(* The explicit variant first forgets the tombstones of the listed rows. *)
(* Seeded fault: the tombstones stay. *)
ResurrectedUnforgotten(s, rows) == Refreshed(s, rows)

Resurrected(s, rows) ==
  Refreshed([s EXCEPT !.tombstones = @ \ rows], rows)

Enqueued(s, o, w) == NextGeneration([s EXCEPT !.pending[o] = w])

Retires(w) == w.kind \in {"Archive", "Delete"}

(* mark_applied: rows is the optional observed row that came with the reply. *)
(* Seeded fault: the tombstone is filed under the operation's identifier.   *)
AppliedMisfiled(s, o, rows) ==
  LET w    == s.pending[o]
      seen == s.observed \cup rows
      gone == IF Retires(w) THEN seen \cap {w.target} ELSE {}
  IN NextGeneration([s EXCEPT !.pending[o] = NoWork,
                              !.observed = seen \ gone,
                              !.tombstones = @ \cup (IF gone = {} THEN {} ELSE {o})])

Applied(s, o, rows) ==
  LET w    == s.pending[o]
      seen == s.observed \cup rows
      gone == IF Retires(w) THEN seen \cap {w.target} ELSE {}
  IN NextGeneration([s EXCEPT !.pending[o] = NoWork,
                              !.observed = seen \ gone,
                              !.tombstones = @ \cup gone])

Tombstoned(s, i) ==
  NextGeneration([s EXCEPT !.observed = @ \ {i},
                           !.tombstones = @ \cup {i}])
=============================================================================
