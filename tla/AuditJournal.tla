----------------------------- MODULE AuditJournal -----------------------------
(***************************************************************************)
(* The audit journal of crates/observability: AuditEventStore keeps records *)
(* in an active file and in closed segments and replaces the active file    *)
(* through a temporary file, a rename and a directory sync on every append; *)
(* AuditEventWriter puts one worker thread behind a bounded queue in front  *)
(* of it and keeps other processes out with a lock file.                    *)
(*                                                                          *)
(* Redaction is left out: an event is a number, and no rule of this file    *)
(* looks at what it says.                                                   *)
(***************************************************************************)
EXTENDS Naturals, Sequences, FiniteSets

CONSTANTS
  Procs,       \* processes that may open the journal
  Callers,     \* threads of a process that append to it
  Capacity,    \* audit_queue_capacity
  Faults,      \* "io", "kill", "power"
  MaxEvents,   \* bound: events submitted
  MaxRolls,    \* bound: segments closed
  MaxReadbacks \* bound: readbacks, exports and checkpoints asked for

ASSUME JournalAssumption ==
  /\ Capacity \in Nat \ {0}
  /\ Faults \subseteq {"io", "kill", "power"}
  /\ MaxEvents \in Nat /\ MaxRolls \in Nat /\ MaxReadbacks \in Nat
  /\ Procs # {}

VARIABLES
  dir,       \* the directory: records of the closed segments, and of the active file
  possible,  \* the directories a power loss may leave behind
  lock,      \* the lock file, and the process its content names
  pc,        \* where a process is with its journal
  held,      \* the records a process is about to put in the active file
  queue,     \* the commands sent to a worker
  work,      \* the command a worker is carrying out
  call,      \* what a caller waits for
  sent,      \* the callers whose command went into the channel
  health,    \* WriterHealth
  checked,   \* recover_stale_lock found the owner of the lock dead
  acked,     \* history: the records whose sequence number a caller was given
  events, rolls, readbacks   \* spent of the bounds

journal == <<dir, possible>>
writer  == <<queue, work, call, sent, health>>
spent   == <<events, rolls, readbacks>>
vars    == <<journal, lock, pc, held, writer, checked, acked, spent>>

Events  == 1..MaxEvents
Records == [sequence : Nat \ {0}, event : Events]
Reports == {"readback", "export", "checkpoint"}

NoCommand == [kind |-> "none"]

Commands ==
  [kind : {"append"}, event : Events, caller : Callers]
    \cup [kind : Reports, caller : Callers]

Directories == [closed : Seq(Records), active : Seq(Records)]

All(d) == d.closed \o d.active

NewHealth == [accepted |-> 0, persisted |-> 0, failed |-> 0, queued |-> 0,
              state |-> "healthy", running |-> TRUE]

NoHealth == [NewHealth EXCEPT !.running = FALSE]

TypeOK ==
  /\ dir \in Directories
  /\ possible \subseteq Directories
  /\ lock \in [state : {"free", "blank", "live", "stale"}, by : Procs]
  /\ pc \in [Procs -> {"closed", "recover", "acquire", "run", "write", "sync"}]
  /\ held \in [Procs -> Seq(Records)]
  /\ queue \in [Procs -> Seq(Commands)]
  /\ \A p \in Procs : Len(queue[p]) <= Capacity
  /\ work \in [Procs -> Commands \cup {NoCommand}]
  /\ call \in [Procs -> [Callers -> Commands \cup {NoCommand}]]
  /\ sent \in [Procs -> SUBSET Callers]
  /\ health \in [Procs -> [accepted : Nat, persisted : Nat, failed : Nat, queued : Nat,
                           state : {"healthy", "degraded", "unavailable"}, running : BOOLEAN]]
  /\ checked \in BOOLEAN
  /\ acked \subseteq Records
  /\ events \in 0..MaxEvents /\ rolls \in 0..MaxRolls /\ readbacks \in 0..MaxReadbacks

Init ==
  /\ dir = [closed |-> <<>>, active |-> <<>>]
  /\ possible = {dir}
  /\ lock = [state |-> "free", by |-> CHOOSE p \in Procs : TRUE]
  /\ pc = [p \in Procs |-> "closed"]
  /\ held = [p \in Procs |-> <<>>]
  /\ queue = [p \in Procs |-> <<>>]
  /\ work = [p \in Procs |-> NoCommand]
  /\ call = [p \in Procs |-> [c \in Callers |-> NoCommand]]
  /\ sent = [p \in Procs |-> {}]
  /\ health = [p \in Procs |-> NoHealth]
  /\ checked = FALSE
  /\ acked = {}
  /\ events = 0 /\ rolls = 0 /\ readbacks = 0

-----------------------------------------------------------------------------
(* Reading the journal back.                                                *)

(* validate_sequence on the records in the order of their sequence numbers. *)
Contiguous(records) ==
  /\ \A i, j \in DOMAIN records :
       i # j => records[i].sequence # records[j].sequence
  /\ \A i, j \in DOMAIN records :
       \A n \in records[i].sequence..records[j].sequence :
         \E k \in DOMAIN records : records[k].sequence = n

LastSequence(records) ==
  IF records = <<>> THEN 0
  ELSE CHOOSE n \in {records[i].sequence : i \in DOMAIN records} :
         \A i \in DOMAIN records : records[i].sequence <= n

(* Seeded fault: numbers continue from the active file alone. *)
RecordForRestarted(event) ==
  [sequence |-> LastSequence(dir.active) + 1, event |-> event]

RecordFor(event) ==
  [sequence |-> LastSequence(All(dir)) + 1, event |-> event]

-----------------------------------------------------------------------------
(* write_records_atomic: until the directory is synced a power loss may     *)
(* bring back any state since the last sync.                                *)

Replace(d) ==
  /\ dir' = d
  /\ possible' = possible \cup {d}

(* Seeded fault: the directory is not synced. *)
SettledNever == UNCHANGED possible

Settled == possible' = {dir}

-----------------------------------------------------------------------------
(* AuditEventWriter::open.  The store recovers the active file first, and   *)
(* only then the lock is taken.                                             *)

OpenStore(p) ==
  /\ pc[p] = "closed"
  /\ Contiguous(dir.active)
  /\ held' = [held EXCEPT ![p] = dir.active]
  /\ pc' = [pc EXCEPT ![p] = "recover"]
  /\ UNCHANGED <<journal, lock, writer, checked, acked, spent>>

(* recover_active rewrites the file it has read, if there is one now. *)
RecoverActive(p) ==
  /\ pc[p] = "recover"
  /\ Replace([dir EXCEPT !.active = IF @ = <<>> THEN @ ELSE held[p]])
  /\ pc' = [pc EXCEPT ![p] = "acquire"]
  /\ UNCHANGED <<lock, held, writer, checked, acked, spent>>

AcquireLock(p) ==
  /\ pc[p] = "acquire"
  /\ lock.state = "free"
  /\ Settled
  /\ lock' = [state |-> "live", by |-> p]
  /\ pc' = [pc EXCEPT ![p] = "run"]
  /\ health' = [health EXCEPT ![p] = NewHealth]
  /\ UNCHANGED <<dir, held, queue, work, call, sent, checked, acked, spent>>

(* The lock exists already, or a step of open fails and the process ends.   *)
(* A lock file that was created stays, with or without its content.         *)
OpenFails(p) ==
  /\ \/ pc[p] = "acquire" /\ lock.state # "free" /\ Settled /\ UNCHANGED lock
     \/ /\ "io" \in Faults
        /\ pc[p] \in {"recover", "acquire"}
        /\ UNCHANGED <<possible, lock>>
     \/ /\ "io" \in Faults
        /\ pc[p] = "acquire" /\ lock.state = "free"
        /\ Settled
        /\ \E s \in {"blank", "stale"} : lock' = [state |-> s, by |-> p]
  /\ pc' = [pc EXCEPT ![p] = "closed"]
  /\ UNCHANGED <<dir, held, writer, checked, acked, spent>>

-----------------------------------------------------------------------------
(* AuditEventWriter: a caller counts its event, blocks while the channel is *)
(* full, and then waits for the worker's reply.                             *)

Serving(p) == pc[p] \in {"run", "write", "sync"}

SubmitAppend(p, c) ==
  /\ Serving(p) /\ call[p][c] = NoCommand /\ events < MaxEvents
  /\ events' = events + 1
  /\ call' = [call EXCEPT ![p][c] = [kind |-> "append", event |-> events', caller |-> c]]
  /\ health' = [health EXCEPT ![p].accepted = @ + 1, ![p].queued = @ + 1]
  /\ UNCHANGED <<journal, lock, pc, held, queue, work, sent, checked, acked, rolls, readbacks>>

SubmitReport(p, c) ==
  /\ Serving(p) /\ call[p][c] = NoCommand /\ readbacks < MaxReadbacks
  /\ readbacks' = readbacks + 1
  /\ \E k \in Reports : call' = [call EXCEPT ![p][c] = [kind |-> k, caller |-> c]]
  /\ UNCHANGED <<journal, lock, pc, held, queue, work, sent, health, checked, acked, events, rolls>>

Send(p, c) ==
  /\ Serving(p)
  /\ call[p][c] # NoCommand /\ c \notin sent[p]
  /\ Len(queue[p]) < Capacity
  /\ queue' = [queue EXCEPT ![p] = Append(@, call[p][c])]
  /\ sent' = [sent EXCEPT ![p] = @ \cup {c}]
  /\ UNCHANGED <<journal, lock, pc, held, work, call, health, checked, acked, spent>>

-----------------------------------------------------------------------------
(* writer_loop.                                                             *)

Reply(p, c) ==
  /\ call' = [call EXCEPT ![p][c] = NoCommand]
  /\ sent' = [sent EXCEPT ![p] = @ \ {c}]

(* Seeded fault: a failed append stays counted as queued. *)
AppendFailedQueued(p) ==
  /\ pc' = [pc EXCEPT ![p] = "run"]
  /\ work' = [work EXCEPT ![p] = NoCommand]
  /\ health' = [health EXCEPT ![p].failed = @ + 1, ![p].state = "unavailable"]

AppendFailed(p) ==
  /\ pc' = [pc EXCEPT ![p] = "run"]
  /\ work' = [work EXCEPT ![p] = NoCommand]
  /\ health' = [health EXCEPT ![p].queued = @ - 1, ![p].failed = @ + 1,
                              ![p].state = "unavailable"]

(* append reads every record, then the active file again. *)
TakeAppend(p) ==
  /\ pc[p] = "run" /\ queue[p] # <<>> /\ Head(queue[p]).kind = "append"
  /\ queue' = [queue EXCEPT ![p] = Tail(@)]
  /\ \/ /\ Contiguous(All(dir))
        /\ held' = [held EXCEPT ![p] = Append(dir.active, RecordFor(Head(queue[p]).event))]
        /\ work' = [work EXCEPT ![p] = Head(queue[p])]
        /\ pc' = [pc EXCEPT ![p] = "write"]
        /\ UNCHANGED <<call, sent, health>>
     \/ /\ "io" \in Faults \/ ~ Contiguous(All(dir))
        /\ AppendFailed(p)
        /\ Reply(p, Head(queue[p]).caller)
        /\ UNCHANGED held
  /\ UNCHANGED <<journal, lock, checked, acked, spent>>

(* The temporary file is written and synced, then renamed over the active one. *)
Write(p) ==
  /\ pc[p] = "write"
  /\ Replace([dir EXCEPT !.active = held[p]])
  /\ pc' = [pc EXCEPT ![p] = "sync"]
  /\ UNCHANGED <<lock, held, writer, checked, acked, spent>>

(* Seeded fault: the worker keeps the reply of a failed append to itself. *)
WriteFailsSilently(p) ==
  /\ "io" \in Faults /\ pc[p] \in {"write", "sync"}
  /\ AppendFailed(p)
  /\ UNCHANGED <<journal, lock, held, queue, call, sent, checked, acked, spent>>

(* A step fails: before the rename nothing is written; after it the record  *)
(* is in the file although the caller is told otherwise.                    *)
WriteFails(p) ==
  /\ "io" \in Faults /\ pc[p] \in {"write", "sync"}
  /\ AppendFailed(p)
  /\ Reply(p, work[p].caller)
  /\ UNCHANGED <<journal, lock, held, queue, checked, acked, spent>>

SyncActive(p) ==
  /\ pc[p] = "sync"
  /\ Settled
  /\ acked' = acked \cup {held[p][Len(held[p])]}
  /\ health' = [health EXCEPT ![p].queued = @ - 1, ![p].persisted = @ + 1,
                              ![p].state = "healthy"]
  /\ Reply(p, work[p].caller)
  /\ pc' = [pc EXCEPT ![p] = "run"]
  /\ work' = [work EXCEPT ![p] = NoCommand]
  /\ UNCHANGED <<dir, lock, held, queue, checked, spent>>

(* Only what a failed readback means for the state differs: it never says   *)
(* "healthy" again.                                                         *)
StateAfter(kind, ok, state) ==
  CASE ~ ok -> "degraded"
    [] ok /\ kind = "readback" -> state
    [] OTHER -> "healthy"

TakeReport(p) ==
  /\ pc[p] = "run" /\ queue[p] # <<>> /\ Head(queue[p]).kind \in Reports
  /\ queue' = [queue EXCEPT ![p] = Tail(@)]
  /\ \E ok \in BOOLEAN :
       /\ ok => Contiguous(All(dir))
       /\ ~ ok => "io" \in Faults \/ ~ Contiguous(All(dir))
       /\ health' = [health EXCEPT ![p].state = StateAfter(Head(queue[p]).kind, ok, @)]
  /\ Reply(p, Head(queue[p]).caller)
  /\ UNCHANGED <<journal, lock, pc, held, work, checked, acked, spent>>

Worker(p) == TakeAppend(p) \/ TakeReport(p) \/ Write(p) \/ SyncActive(p) \/ WriteFails(p)

(* shutdown consumes the writer, so no caller is in a call; the worker ends *)
(* and the lock file is removed, or stays when that fails.                  *)
Shutdown(p) ==
  /\ pc[p] = "run"
  /\ \A c \in Callers : call[p][c] = NoCommand
  /\ health' = [health EXCEPT ![p] = NoHealth]
  /\ pc' = [pc EXCEPT ![p] = "closed"]
  /\ \/ lock' = [lock EXCEPT !.state = "free"]
     \/ "io" \in Faults /\ lock' = [lock EXCEPT !.state = "stale"]
  /\ UNCHANGED <<journal, held, queue, work, call, sent, checked, acked, spent>>

-----------------------------------------------------------------------------
(* Maintenance, and the faults.                                             *)

(* AuditEventStore::rollover, while no worker is in the middle of an append. *)
Rollover ==
  /\ \A p \in Procs : pc[p] \in {"closed", "run"}
  /\ dir.active # <<>> /\ rolls < MaxRolls
  /\ rolls' = rolls + 1
  /\ dir' = [closed |-> All(dir), active |-> <<>>]
  /\ \/ possible' = {dir'}
     \/ "io" \in Faults /\ possible' = possible \cup {dir'}
  /\ UNCHANGED <<lock, pc, held, writer, checked, acked, events, readbacks>>

(* recover_stale_lock refuses a live owner and a lock without an owner.     *)
CheckLock ==
  /\ lock.state = "stale" /\ ~ checked
  /\ checked' = TRUE
  /\ UNCHANGED <<journal, lock, pc, held, writer, acked, spent>>

RemoveStaleLock ==
  /\ checked
  /\ checked' = FALSE
  /\ lock' = [lock EXCEPT !.state = "free"]
  /\ UNCHANGED <<journal, pc, held, writer, acked, spent>>

Gone(ps) ==
  /\ pc' = [p \in Procs |-> IF p \in ps THEN "closed" ELSE pc[p]]
  /\ held' = [p \in Procs |-> IF p \in ps THEN <<>> ELSE held[p]]
  /\ queue' = [p \in Procs |-> IF p \in ps THEN <<>> ELSE queue[p]]
  /\ work' = [p \in Procs |-> IF p \in ps THEN NoCommand ELSE work[p]]
  /\ call' = [p \in Procs |-> IF p \in ps THEN [c \in Callers |-> NoCommand] ELSE call[p]]
  /\ sent' = [p \in Procs |-> IF p \in ps THEN {} ELSE sent[p]]
  /\ health' = [p \in Procs |-> IF p \in ps THEN NoHealth ELSE health[p]]

Kill(p) ==
  /\ "kill" \in Faults /\ pc[p] # "closed"
  /\ Gone({p})
  /\ lock' = IF lock.state = "live" /\ lock.by = p THEN [lock EXCEPT !.state = "stale"] ELSE lock
  /\ UNCHANGED <<journal, checked, acked, spent>>

PowerLoss ==
  /\ "power" \in Faults
  /\ Gone(Procs)
  /\ dir' \in possible
  /\ possible' = {dir'}
  /\ \E s \in IF lock.state = "live" THEN {"stale", "blank"} ELSE {lock.state} :
       lock' = [lock EXCEPT !.state = s]
  /\ UNCHANGED <<checked, acked, spent>>

Next ==
  \/ \E p \in Procs :
       \/ OpenStore(p) \/ RecoverActive(p) \/ AcquireLock(p) \/ OpenFails(p)
       \/ Worker(p) \/ Shutdown(p) \/ Kill(p)
       \/ \E c \in Callers : SubmitAppend(p, c) \/ SubmitReport(p, c) \/ Send(p, c)
  \/ Rollover \/ CheckLock \/ RemoveStaleLock \/ PowerLoss

(* The worker thread takes commands as long as there are any, and a blocked *)
(* send goes on when there is room.                                         *)
Fairness ==
  \A p \in Procs : WF_vars(Worker(p)) /\ \A c \in Callers : SF_vars(Send(p, c))

Spec == Init /\ [][Next]_vars /\ Fairness

-----------------------------------------------------------------------------
(* Properties.                                                              *)

(* Whatever a power loss leaves behind, the records are numbered one by one *)
(* from 1, across the closed segments and the active file: what             *)
(* validate_sequence expects after any mixture of failed appends (whose     *)
(* record may be on disk), restarts and rollovers.                          *)
JournalContiguous ==
  \A d \in possible \cup {dir} : \A i \in DOMAIN All(d) : All(d)[i].sequence = i

(* WriterHealth adds up at every moment: each event accepted is persisted,  *)
(* failed, or counted as queued, and the queued ones are exactly those      *)
(* whose caller still waits.                                                *)
CountersAddUp ==
  \A p \in Procs :
    /\ health[p].accepted = health[p].persisted + health[p].failed + health[p].queued
    /\ health[p].queued = Cardinality({c \in Callers : call[p][c] # NoCommand
                                                        /\ call[p][c].kind = "append"})

(* The journal implements AuditLog: through crashes, failed appends and     *)
(* rollovers it only grows at its end, and nothing acknowledged is lost.    *)
Log == INSTANCE AuditLog WITH
         log <- [i \in DOMAIN All(dir) |-> All(dir)[i].event],
         acked <- IF acked = {} THEN 0
                  ELSE (CHOOSE r \in acked : \A q \in acked : q.sequence <= r.sequence).sequence

ImplementsLog == Log!Spec

(* Every append comes back to its caller, with a number or an error, or     *)
(* with the end of the process: the request thread that blocks on the       *)
(* bounded queue holds the application mutex.                               *)
EveryAppendAnswered ==
  \A p \in Procs : \A c \in Callers : call[p][c] # NoCommand ~> call[p][c] = NoCommand
===============================================================================
