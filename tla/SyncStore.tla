------------------------------ MODULE SyncStore ------------------------------
(***************************************************************************)
(* The checkpoint store of crates/sync: a lock file, a primary and a backup *)
(* checkpoint, and the sequence of file operations with which one store     *)
(* publishes a candidate.  Crashes fall between any two of them.            *)
(*                                                                          *)
(* `file` is what a process sees; `disk` is what stable storage holds.  They *)
(* differ between a write and the fsync or writeback that covers it, and a  *)
(* power loss then brings back the disk.  `tmp` files are private to the    *)
(* commit that made them and are fsynced before they are renamed, so they   *)
(* appear only as the candidate of a commit in progress.                    *)
(*                                                                          *)
(* `acked` and `doubtful` are history: the last state whose publication was *)
(* reported to succeed, and the states renamed over the primary since then. *)
(***************************************************************************)
EXTENDS SyncState

CONSTANTS
  Procs,          \* processes that may open the checkpoint path
  ScopeOf,        \* the scope each process expects (NoScope: SyncStore::open)
  Api,            \* the operations this client of the store calls
  Faults,         \* the faults the environment may produce
  Absent,         \* no file at this path
  Torn,           \* a file that does not parse as a SyncState
  MaxGeneration   \* bound: transactions stop at this generation

ASSUME FileAssumption ==
  /\ Absent \notin SyncStates
  /\ Torn \notin SyncStates
  /\ Absent # Torn
ASSUME ScopeAssumption == ScopeOf \in [Procs -> Scopes \cup {NoScope}]
ASSUME BoundAssumption == MaxGeneration \in Nat

Operations == {"observe", "replace", "resurrect", "enqueue", "applied",
               "tombstone", "export", "restore"}
FaultKinds == {"io", "kill", "power", "rot"}

ASSUME ProfileAssumption == Api \subseteq Operations /\ Faults \subseteq FaultKinds

VARIABLES
  file,       \* the checkpoint files as processes see them
  disk,       \* the same files as stable storage holds them
  lock,       \* "free", "held", or "orphan": left behind by a dead process
  pc,         \* where each process is
  mem,        \* the state in each open store's memory
  cand,       \* the candidate of the publication in progress
  recovered,  \* recovered_from_backup
  artifact,   \* the export artifact, if one was written
  acked, doubtful,
  hopeless    \* the primary rotted while there was no readable backup

files   == <<file, disk>>
process == <<pc, mem, cand, recovered>>
ghosts  == <<acked, doubtful, hopeless>>
vars    == <<file, disk, lock, pc, mem, cand, recovered, artifact,
             acked, doubtful, hopeless>>

Contents == SyncStates \cup {Absent, Torn}
Files    == [primary : Contents, backup : Contents]

Readable(c) == c \in SyncStates

(* A process is down, holds the lock but has not read the files, is idle,   *)
(* or is somewhere inside commit or restore_export.                         *)
PCs == {"down", "locked", "idle", "staged", "copying", "copied", "ready",
        "renamed", "restoring"}

TypeOK ==
  /\ file \in Files
  /\ disk \in Files
  /\ lock \in {"free", "held", "orphan"}
  /\ pc \in [Procs -> PCs]
  /\ mem \in [Procs -> SyncStates]
  /\ cand \in [Procs -> SyncStates]
  /\ recovered \in [Procs -> BOOLEAN]
  /\ artifact \in SyncStates \cup {Absent}
  /\ acked \in SyncStates
  /\ doubtful \subseteq SyncStates
  /\ hopeless \in BOOLEAN

Init ==
  /\ file = [primary |-> Absent, backup |-> Absent]
  /\ disk = [primary |-> Absent, backup |-> Absent]
  /\ lock = "free"
  /\ pc = [p \in Procs |-> "down"]
  /\ mem = [p \in Procs |-> EmptyState]
  /\ cand = [p \in Procs |-> EmptyState]
  /\ recovered = [p \in Procs |-> FALSE]
  /\ artifact = Absent
  /\ acked = EmptyState
  /\ doubtful = {}
  /\ hopeless = FALSE

Goto(p, from, to) ==
  /\ pc[p] = from
  /\ pc' = [pc EXCEPT ![p] = to]

(* The end of a store, in order or not: its memory is gone. *)
Forget(p) ==
  /\ pc' = [pc EXCEPT ![p] = "down"]
  /\ mem' = [mem EXCEPT ![p] = EmptyState]
  /\ cand' = [cand EXCEPT ![p] = EmptyState]
  /\ recovered' = [recovered EXCEPT ![p] = FALSE]

-----------------------------------------------------------------------------
(* open_with_scope.  A process that finds the lock file gives up without    *)
(* touching anything, so only the successful creation is a step.            *)

(* Seeded fault: the lock file is created whether or not it exists. *)
AcquireLockUnchecked(p) ==
  /\ Goto(p, "down", "locked")
  /\ lock' = "held"
  /\ UNCHANGED <<files, mem, cand, recovered, artifact, ghosts>>

AcquireLock(p) ==
  /\ lock = "free"
  /\ Goto(p, "down", "locked")
  /\ lock' = "held"
  /\ UNCHANGED <<files, mem, cand, recovered, artifact, ghosts>>

(* set_private_mode on the new lock fails: open returns, the lock stays. *)
LockModeFails(p) ==
  /\ "io" \in Faults
  /\ Goto(p, "locked", "down")
  /\ lock' = "orphan"
  /\ UNCHANGED <<files, mem, cand, recovered, artifact, ghosts>>

(* What reading primary, then backup, yields. *)
Unreadable(f) ==
  /\ ~Readable(f.primary)
  /\ ~Readable(f.backup)
  /\ ~(f.primary = Absent /\ f.backup = Absent)

(* Seeded fault: the backup is preferred. *)
LoadedBackupFirst(f) ==
  IF Readable(f.backup) THEN f.backup
  ELSE IF Readable(f.primary) THEN f.primary
  ELSE EmptyState

Loaded(f) ==
  IF Readable(f.primary) THEN f.primary
  ELSE IF Readable(f.backup) THEN f.backup
  ELSE EmptyState

FromBackup(f) == ~Readable(f.primary) /\ Readable(f.backup)

Load(p) ==
  /\ ~Unreadable(file)
  /\ Bindable(Loaded(file), ScopeOf[p])
  /\ Goto(p, "locked", "idle")
  /\ mem' = [mem EXCEPT ![p] = Bound(Loaded(file), ScopeOf[p])]
  /\ recovered' = [recovered EXCEPT ![p] = FromBackup(file)]
  /\ UNCHANGED <<files, lock, cand, artifact, ghosts>>

(* Both copies are corrupt, or the checkpoint is bound elsewhere. *)
LoadFails(p) ==
  /\ Unreadable(file) \/ ~Bindable(Loaded(file), ScopeOf[p])
  /\ Goto(p, "locked", "down")
  /\ lock' = "free"
  /\ UNCHANGED <<files, mem, cand, recovered, artifact, ghosts>>

(* Drop: the lock file is removed. *)
Close(p) ==
  /\ pc[p] = "idle"
  /\ Forget(p)
  /\ lock' = "free"
  /\ UNCHANGED <<files, artifact, ghosts>>

-----------------------------------------------------------------------------
(* transaction: stage the candidate and write it to a temporary file.       *)

Transaction(p, op, s) ==
  /\ op \in Api
  /\ mem[p].generation < MaxGeneration
  /\ Goto(p, "idle", "staged")
  /\ cand' = [cand EXCEPT ![p] = s]
  /\ UNCHANGED <<files, lock, mem, recovered, artifact, ghosts>>

Observe(p, i) == Transaction(p, "observe", Observed(mem[p], i))

ReplaceObserved(p, rows) ==
  /\ ~RefreshBlocked(mem[p], rows)
  /\ Transaction(p, "replace", Refreshed(mem[p], rows))

ReplaceObservedExplicitResurrection(p, rows) ==
  Transaction(p, "resurrect", Resurrected(mem[p], rows))

Enqueue(p, o, w) ==
  /\ mem[p].pending[o] = NoWork
  /\ Transaction(p, "enqueue", Enqueued(mem[p], o, w))

MarkApplied(p, o, rows) ==
  /\ mem[p].pending[o] # NoWork
  /\ Transaction(p, "applied", Applied(mem[p], o, rows))

RecordTombstone(p, i) == Transaction(p, "tombstone", Tombstoned(mem[p], i))

-----------------------------------------------------------------------------
(* commit, one step per file operation that others or a crash can see.      *)

(* fs::copy truncates the backup before it writes it. *)
(* Seeded fault: a corrupt primary is copied over the backup just loaded. *)
NeedsBackupAlways(p) == file.primary # Absent

NeedsBackup(p) == file.primary # Absent /\ ~recovered[p]

StartBackup(p) ==
  /\ NeedsBackup(p)
  /\ Goto(p, "staged", "copying")
  /\ file' = [file EXCEPT !.backup = Torn]
  /\ UNCHANGED <<disk, lock, mem, cand, recovered, artifact, ghosts>>

FinishBackup(p) ==
  /\ Goto(p, "copying", "copied")
  /\ file' = [file EXCEPT !.backup = file.primary]
  /\ UNCHANGED <<disk, lock, mem, cand, recovered, artifact, ghosts>>

(* The fsync of a backup just created need not make its name durable; if it *)
(* does, names made before it (a renamed primary) are durable as well.      *)
SyncBackup(p) ==
  /\ Goto(p, "copied", "ready")
  /\ IF disk.backup = Absent
       THEN disk' \in {disk, file}
       ELSE disk' = [disk EXCEPT !.backup = file.backup]
  /\ UNCHANGED <<file, lock, mem, cand, recovered, artifact, ghosts>>

SkipBackup(p) ==
  /\ ~NeedsBackup(p)
  /\ Goto(p, "staged", "ready")
  /\ UNCHANGED <<files, lock, mem, cand, recovered, artifact, ghosts>>

Rename(p) ==
  /\ Goto(p, "ready", "renamed")
  /\ file' = [file EXCEPT !.primary = cand[p]]
  /\ doubtful' = doubtful \cup {cand[p]}
  /\ UNCHANGED <<disk, lock, mem, cand, recovered, artifact, acked, hopeless>>

(* The directory fsync makes the rename durable; the caller gets Ok and     *)
(* only now does the memory advance.                                        *)
(* Seeded faults: no directory fsync; recovered_from_backup never cleared. *)
PublishUnsynced(p, from) ==
  /\ Goto(p, from, "idle")
  /\ mem' = [mem EXCEPT ![p] = cand[p]]
  /\ cand' = [cand EXCEPT ![p] = EmptyState]
  /\ recovered' = [recovered EXCEPT ![p] = FALSE]
  /\ acked' = cand[p]
  /\ doubtful' = {}
  /\ UNCHANGED <<files, lock, artifact, hopeless>>

PublishStaysRecovered(p, from) ==
  /\ Goto(p, from, "idle")
  /\ disk' = [disk EXCEPT !.primary = file.primary]
  /\ mem' = [mem EXCEPT ![p] = cand[p]]
  /\ cand' = [cand EXCEPT ![p] = EmptyState]
  /\ acked' = cand[p]
  /\ doubtful' = {}
  /\ UNCHANGED <<file, lock, recovered, artifact, hopeless>>

Publish(p, from) ==
  /\ Goto(p, from, "idle")
  /\ disk' = [disk EXCEPT !.primary = file.primary]
  /\ mem' = [mem EXCEPT ![p] = cand[p]]
  /\ cand' = [cand EXCEPT ![p] = EmptyState]
  /\ recovered' = [recovered EXCEPT ![p] = FALSE]
  /\ acked' = cand[p]
  /\ doubtful' = {}
  /\ UNCHANGED <<file, lock, artifact, hopeless>>

SyncDirectory(p) == Publish(p, "renamed")

(* Any step may fail; the error is returned and the memory keeps the old    *)
(* state.  What was already written stays written.                          *)
(* Seeded fault: the memory advances although the commit failed. *)
AbandonAdvances(p, from) ==
  /\ "io" \in Faults
  /\ pc[p] \in from
  /\ pc' = [pc EXCEPT ![p] = "idle"]
  /\ mem' = [mem EXCEPT ![p] = cand[p]]
  /\ cand' = [cand EXCEPT ![p] = EmptyState]
  /\ UNCHANGED <<files, lock, recovered, artifact, ghosts>>

Abandon(p, from) ==
  /\ "io" \in Faults
  /\ pc[p] \in from
  /\ pc' = [pc EXCEPT ![p] = "idle"]
  /\ cand' = [cand EXCEPT ![p] = EmptyState]
  /\ UNCHANGED <<files, lock, mem, recovered, artifact, ghosts>>

CommitFails(p) ==
  Abandon(p, {"staged", "copying", "copied", "ready", "renamed"})

-----------------------------------------------------------------------------
(* export_to and restore_export.  The artifact is written and published     *)
(* atomically; a restore renames over the primary and leaves the backup.    *)

ExportTo(p) ==
  /\ "export" \in Api
  /\ pc[p] = "idle"
  /\ artifact' = mem[p]
  /\ UNCHANGED <<files, lock, process, ghosts>>

(* Seeded fault: the artifact's scope is not compared. *)
RestoreRenameAnyScope(p) ==
  /\ "restore" \in Api
  /\ artifact # Absent
  /\ Goto(p, "idle", "restoring")
  /\ cand' = [cand EXCEPT ![p] = artifact]
  /\ file' = [file EXCEPT !.primary = artifact]
  /\ doubtful' = doubtful \cup {artifact}
  /\ UNCHANGED <<disk, lock, mem, recovered, artifact, acked, hopeless>>

RestoreRename(p) ==
  /\ "restore" \in Api
  /\ artifact # Absent
  /\ artifact.scope = mem[p].scope
  /\ Goto(p, "idle", "restoring")
  /\ cand' = [cand EXCEPT ![p] = artifact]
  /\ file' = [file EXCEPT !.primary = artifact]
  /\ doubtful' = doubtful \cup {artifact}
  /\ UNCHANGED <<disk, lock, mem, recovered, artifact, acked, hopeless>>

RestoreSync(p) == Publish(p, "restoring")

RestoreFails(p) == Abandon(p, {"restoring"})

-----------------------------------------------------------------------------
(* The environment: a killed process, the kernel writing a dirty file back, *)
(* a power loss, an operator who removes a lock nobody owns, and a primary  *)
(* that can no longer be read.                                              *)

AllDown == \A p \in Procs : pc[p] = "down"

Kill(p) ==
  /\ "kill" \in Faults
  /\ pc[p] # "down"
  /\ Forget(p)
  /\ lock' = "orphan"
  /\ UNCHANGED <<files, artifact, ghosts>>

(* Names reach the disk in the order they were made, as in a journaling     *)
(* file system: a new backup never before the primary it was copied from.   *)
Writeback(which) ==
  /\ "power" \in Faults
  /\ file[which] # disk[which]
  /\ which = "backup" /\ disk.backup = Absent => disk.primary = file.primary
  /\ disk' = [disk EXCEPT ![which] = file[which]]
  /\ UNCHANGED <<file, lock, process, artifact, ghosts>>

(* Neither the creation nor the removal of the lock file is ever fsynced. *)
PowerLoss ==
  /\ "power" \in Faults
  /\ file' = disk
  /\ pc' = [p \in Procs |-> "down"]
  /\ mem' = [p \in Procs |-> EmptyState]
  /\ cand' = [p \in Procs |-> EmptyState]
  /\ recovered' = [p \in Procs |-> FALSE]
  /\ lock' \in {"free", "orphan"}
  /\ UNCHANGED <<disk, artifact, ghosts>>

OperatorRemovesLock ==
  /\ AllDown
  /\ lock = "orphan"
  /\ lock' = "free"
  /\ UNCHANGED <<files, process, artifact, ghosts>>

RotPrimary ==
  /\ "rot" \in Faults
  /\ AllDown
  /\ Readable(file.primary)
  /\ file' = [file EXCEPT !.primary = Torn]
  /\ disk' = [disk EXCEPT !.primary = Torn]
  /\ hopeless' = (hopeless \/ ~Readable(file.backup))
  /\ UNCHANGED <<lock, process, artifact, acked, doubtful>>

-----------------------------------------------------------------------------
OpenStep(p)   == AcquireLock(p) \/ LockModeFails(p) \/ Load(p) \/ LoadFails(p) \/ Close(p)

ClientStep(p) ==
  \/ \E i \in Ids : Observe(p, i) \/ RecordTombstone(p, i)
  \/ \E rows \in SUBSET Ids :
       ReplaceObserved(p, rows) \/ ReplaceObservedExplicitResurrection(p, rows)
  \/ \E o \in OpIds :
       \/ \E w \in Work : Enqueue(p, o, w)
       \/ \E rows \in SUBSET Ids : MarkApplied(p, o, rows)
  \/ ExportTo(p)
  \/ RestoreRename(p)

CommitStep(p) ==
  \/ StartBackup(p) \/ FinishBackup(p) \/ SyncBackup(p) \/ SkipBackup(p)
  \/ Rename(p) \/ SyncDirectory(p) \/ CommitFails(p)
  \/ RestoreSync(p) \/ RestoreFails(p)

Environment ==
  \/ \E p \in Procs : Kill(p)
  \/ \E which \in {"primary", "backup"} : Writeback(which)
  \/ PowerLoss
  \/ OperatorRemovesLock
  \/ RotPrimary

Next ==
  \/ \E p \in Procs : OpenStep(p) \/ ClientStep(p) \/ CommitStep(p)
  \/ Environment

Spec == Init /\ [][Next]_vars

-----------------------------------------------------------------------------
(* Properties.                                                              *)

Live(p) == pc[p] # "down"
Open(p) == pc[p] \notin {"down", "locked"}

(* At most one store works on the checkpoint, and the lock file is there    *)
(* for exactly as long: the create_new lock of open_with_scope really       *)
(* excludes, through failed opens, crashes and the operator's cleanup.      *)
ExclusiveWriter ==
  /\ \A p, q \in Procs : Live(p) /\ Live(q) => p = q
  /\ (lock = "held") <=> (\E p \in Procs : Live(p))

(* Whatever moment a process is killed, a file operation fails or power is  *)
(* lost, opening the checkpoint finds the last state whose commit returned  *)
(* Ok, or one whose rename came later.  Held for what processes see and for *)
(* what a power loss would leave.                                           *)
NoLostAck ==
  \A f \in {file, disk} :
    /\ ~Unreadable(f)
    /\ Loaded(f) \in {acked} \cup doubtful

(* As long as the primary never rotted while there was no backup, one of    *)
(* the two copies can be read, in every step of every commit: what          *)
(* recovered_from_backup is for.                                            *)
SomeCopyReadable == hopeless \/ ~Unreadable(file)

(* Losing the primary costs at most one generation (of a store that is not  *)
(* restored from an artifact): the backup is never older than that.         *)
BackupTrails ==
  Readable(file.primary) /\ Readable(file.backup)
    => file.primary.generation <= file.backup.generation + 1

(* Every state that a commit ever acknowledged is newer than the one        *)
(* acknowledged before it, through crashes and failed commits.              *)
AckedAdvances == [][acked'.generation > acked.generation]_acked

(* No acknowledged identity is forgotten: one that is no longer observed is *)
(* tombstoned, across all later commits, whoever makes them.                *)
Known(s) == s.observed \cup s.tombstones
DeletionRemembered == [][Known(acked) \subseteq Known(acked')]_acked

(* A tombstoned identity is not at the same time observed.                  *)
TombstonedNotObserved ==
  \A p \in Procs : Open(p) => mem[p].observed \cap mem[p].tombstones = {}

(* A store opened for one binding scope never works on another's history,   *)
(* and a checkpoint with history never changes hands: bind_scope.           *)
ScopeRespected ==
  \A p \in Procs : Open(p) => mem[p].scope = ScopeOf[p]
ScopeKept ==
  [][Readable(file.primary) /\ Readable(file'.primary) /\ file.primary.generation # 0
       => file'.primary.scope = file.primary.scope]_file

(* The file protocol implements the store its clients rely on.              *)
Checkpoint ==
  INSTANCE DurableCheckpoint WITH
    Closed <- Absent,
    view <- [p \in Procs |-> IF Open(p) THEN mem[p] ELSE Absent],
    settled <- acked

ImplementsCheckpoint == Checkpoint!Spec
=============================================================================
