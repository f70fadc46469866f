--------------------------- MODULE AnytypeRepository ---------------------------
(***************************************************************************)
(* The repository adapter of crates/anytype-adapter: a cache rebuilt from   *)
(* the whole Space before every read and every conditional write, the write *)
(* calls, and the bounded reads that resolve a call that timed out.         *)
(*                                                                          *)
(* A page and the full reads of its objects are one step here: a change of  *)
(* one object between the two is the same as a change just before or after. *)
(***************************************************************************)
EXTENDS AnytypeSpace

CONSTANTS
  MaxReads,          \* reads that may resolve one ambiguous call
  SystemProperties,  \* do full reads carry read-only system properties?
  Faults,            \* what may go wrong
  NoCondition        \* WriteCondition::Unconditional

FaultKinds == {"io", "timeout", "late", "crash", "commit", "audit"}

ASSUME RepositoryAssumption ==
  /\ MaxReads \in Nat \ {0}
  /\ SystemProperties \in BOOLEAN
  /\ Faults \subseteq FaultKinds
  /\ NoCondition \notin Rows

VARIABLES
  cache,   \* the rows of the last successful hydrate
  scan,    \* a hydrate, or a create reconciliation, in progress
  call,    \* the write being carried out
  reads    \* reads spent on resolving it

repository == <<cache, scan, call, reads>>

Scans == [offset : Nat, rows : SUBSET Rows, done : BOOLEAN]

NewScan == [offset |-> 0, rows |-> {}, done |-> FALSE]

RepositoryTypeOK ==
  /\ cache \subseteq Rows
  /\ scan \in Scans
  /\ call \in Mutations \cup {NoCall}
  /\ reads \in 0..MaxReads

-----------------------------------------------------------------------------
(* hydrate                                                                  *)

(* Seeded fault: the cursor that ends the listing is followed to its start. *)
ReadPageForever ==
  /\ ~scan.done
  /\ scan' = [offset |-> IF LastPage(scan.offset) THEN 0 ELSE scan.offset + PageSize,
              rows   |-> scan.rows \cup {RowOf(i) : i \in Page(scan.offset)},
              done   |-> FALSE]

ReadPage ==
  /\ ~scan.done
  /\ scan' = [offset |-> scan.offset + PageSize,
              rows   |-> scan.rows \cup {RowOf(i) : i \in Page(scan.offset)},
              done   |-> LastPage(scan.offset)]

(* The staged rows become the cache only when names and UIDs are unique;    *)
(* otherwise the hydrate fails and the old cache stays.                     *)
Coherent(rows) ==
  \A r, s \in rows : r.name = s.name \/ r.uid = s.uid => r = s

Hydrated     == scan.done /\ Coherent(scan.rows) /\ cache' = scan.rows
HydrateFails == scan.done /\ ~Coherent(scan.rows) /\ UNCHANGED cache

Named(rows, name) == {r \in rows : r.name = name}

-----------------------------------------------------------------------------
(* The preflights: check_condition and identities_in_use on the cache.      *)

(* Seeded fault: the condition is not compared. *)
AcceptsAnything(expected, row) == TRUE

Accepts(expected, row) == expected \in {NoCondition, row}

(* Seeded fault: a UID may be used twice. *)
TakenNever(rows, name, uid, id) == FALSE

Taken(rows, name, uid, id) ==
  \E r \in rows : r.name # name /\ (r.uid = uid \/ r.id = id)

-----------------------------------------------------------------------------
(* The write call: answered, or timed out with any outcome.                 *)

(* The server names a new object when the call reaches it. *)
Send ==
  /\ call' = Settled(call)
  /\ Apply(call')
  /\ UNCHANGED <<late, others>>

TimeOut ==
  /\ "timeout" \in Faults
  /\ \/ Apply(Settled(call)) /\ UNCHANGED late
     \/ UNCHANGED <<object, archived, late>>
     \/ /\ "late" \in Faults
        /\ late = NoCall
        /\ late' = call
        /\ UNCHANGED <<object, archived>>
  /\ UNCHANGED others

(* mutation_matches, for an update and an archive.  The update sent leaves  *)
(* the system properties out, and the comparison is of all properties.      *)
(* Seeded fault: the content that was read is not compared. *)
MatchesAnyContent ==
  IF call.kind = "archive" THEN call.id \in archived ELSE call.row.id \in Live

Matches ==
  IF call.kind = "archive"
    THEN call.id \in archived
    ELSE /\ call.row.id \in Live
         /\ RowOf(call.row.id) = call.row
         /\ object[call.row.id].extra = call.extra
         /\ ~SystemProperties

(* create_identity_matches, without projected properties. *)
Candidates ==
  {i \in Page(scan.offset) :
     object[i].name = call.row.name /\ object[i].uid = call.row.uid}

SpendRead == reads' = reads + 1

(* Seeded fault: one read too many. *)
ExhaustedLate == reads > MaxReads

Exhausted == reads + 1 >= MaxReads
=============================================================================
