--------------------------- MODULE SyncStoreProofs ---------------------------
(***************************************************************************)
(* Theorems about the checkpoint store, for any number of processes,        *)
(* identities, operations and scopes, and for any transaction bound.        *)
(***************************************************************************)
EXTENDS SyncStore, TLAPS

-----------------------------------------------------------------------------
(* The candidates are states of the declared shape, whatever operation      *)
(* computed them.                                                           *)

LEMMA EmptyStateType == EmptyState \in SyncStates
  BY DEF EmptyState, SyncStates

LEMMA BoundType ==
  ASSUME NEW s \in SyncStates, NEW expected \in Scopes \cup {NoScope}
  PROVE  Bound(s, expected) \in SyncStates
  BY DEF Bound, SyncStates

LEMMA NextGenerationType ==
  ASSUME NEW s \in SyncStates
  PROVE  NextGeneration(s) \in SyncStates
  BY DEF NextGeneration, SyncStates

LEMMA ObservedType ==
  ASSUME NEW s \in SyncStates, NEW i \in Ids
  PROVE  Observed(s, i) \in SyncStates /\ Tombstoned(s, i) \in SyncStates
  <1>1. [s EXCEPT !.observed = @ \cup {i}] \in SyncStates
    BY DEF SyncStates
  <1>2. [s EXCEPT !.observed = @ \ {i}, !.tombstones = @ \cup {i}] \in SyncStates
    BY DEF SyncStates
  <1>3. QED BY <1>1, <1>2, NextGenerationType DEF Observed, Tombstoned

LEMMA RefreshedType ==
  ASSUME NEW s \in SyncStates, NEW rows \in SUBSET Ids
  PROVE  Refreshed(s, rows) \in SyncStates /\ Resurrected(s, rows) \in SyncStates
  <1>1. ASSUME NEW t \in SyncStates PROVE Refreshed(t, rows) \in SyncStates
    <2>1. [t EXCEPT !.tombstones = @ \cup (t.observed \ rows), !.observed = rows]
            \in SyncStates
      BY DEF SyncStates
    <2>2. QED BY <2>1, NextGenerationType DEF Refreshed
  <1>2. [s EXCEPT !.tombstones = @ \ rows] \in SyncStates
    BY DEF SyncStates
  <1>3. QED BY <1>1, <1>2 DEF Resurrected

LEMMA EnqueuedType ==
  ASSUME NEW s \in SyncStates, NEW o \in OpIds, NEW w \in Work
  PROVE  Enqueued(s, o, w) \in SyncStates
  <1>1. [s EXCEPT !.pending[o] = w] \in SyncStates
    BY DEF SyncStates
  <1>2. QED BY <1>1, NextGenerationType DEF Enqueued

LEMMA AppliedType ==
  ASSUME NEW s \in SyncStates, NEW o \in OpIds, NEW rows \in SUBSET Ids
  PROVE  Applied(s, o, rows) \in SyncStates
  <1> DEFINE w    == s.pending[o]
             seen == s.observed \cup rows
             gone == IF Retires(w) THEN seen \cap {w.target} ELSE {}
             t    == [s EXCEPT !.pending[o] = NoWork,
                               !.observed = seen \ gone,
                               !.tombstones = @ \cup gone]
  <1>1. seen \in SUBSET Ids /\ gone \in SUBSET Ids
    BY DEF SyncStates
  <1>2. s.pending \in [OpIds -> Work \cup {NoWork}] /\ s.tombstones \in SUBSET Ids
    BY DEF SyncStates
  <1>3. t \in SyncStates
    <2> HIDE DEF gone, seen
    <2>1. QED BY <1>1, <1>2 DEF SyncStates
  <1>4. QED BY <1>3, NextGenerationType DEF Applied

-----------------------------------------------------------------------------
(* Client steps.  All the operations that change the bookkeeping are one     *)
(* transaction: they stage a candidate that keeps the scope and forgets no   *)
(* identity.                                                                *)

LEMMA ObservedKeeps ==
  ASSUME NEW s \in SyncStates, NEW i \in Ids
  PROVE  \A c \in {Observed(s, i), Tombstoned(s, i)} :
           c.scope = s.scope /\ Known(s) \subseteq Known(c)
  <1>1. LET c == Observed(s, i) IN c.scope = s.scope /\ Known(s) \subseteq Known(c)
    BY DEF Known, Observed, NextGeneration, SyncStates
  <1>2. LET c == Tombstoned(s, i) IN c.scope = s.scope /\ Known(s) \subseteq Known(c)
    BY DEF Known, Tombstoned, NextGeneration, SyncStates
  <1>3. QED BY <1>1, <1>2

LEMMA RefreshedKeeps ==
  ASSUME NEW s \in SyncStates, NEW rows \in SUBSET Ids
  PROVE  \A c \in {Refreshed(s, rows), Resurrected(s, rows)} :
           c.scope = s.scope /\ Known(s) \subseteq Known(c)
  <1>1. ASSUME NEW t \in SyncStates
        PROVE  /\ Refreshed(t, rows).scope = t.scope
               /\ Refreshed(t, rows).observed = rows
               /\ Refreshed(t, rows).tombstones
                    = t.tombstones \cup (t.observed \ rows)
    BY <1>1 DEF Refreshed, NextGeneration, SyncStates
  <1>2. LET t == [s EXCEPT !.tombstones = @ \ rows]
        IN  /\ t \in SyncStates
            /\ t.scope = s.scope
            /\ t.observed = s.observed
            /\ t.tombstones = s.tombstones \ rows
    BY DEF SyncStates
  <1>3. LET c == Refreshed(s, rows) IN c.scope = s.scope /\ Known(s) \subseteq Known(c)
    BY <1>1 DEF Known
  <1>4. LET c == Resurrected(s, rows) IN c.scope = s.scope /\ Known(s) \subseteq Known(c)
    BY <1>1, <1>2 DEF Known, Resurrected
  <1>5. QED BY <1>3, <1>4

LEMMA EnqueuedKeeps ==
  ASSUME NEW s \in SyncStates, NEW o \in OpIds, NEW w \in Work
  PROVE  LET c == Enqueued(s, o, w)
         IN  c.scope = s.scope /\ Known(s) \subseteq Known(c)
  BY DEF Known, Enqueued, NextGeneration, SyncStates

LEMMA AppliedKeeps ==
  ASSUME NEW s \in SyncStates, NEW o \in OpIds, NEW rows \in SUBSET Ids
  PROVE  LET c == Applied(s, o, rows)
         IN  c.scope = s.scope /\ Known(s) \subseteq Known(c)
  <1> DEFINE seen == s.observed \cup rows
             gone == IF Retires(s.pending[o]) THEN seen \cap {s.pending[o].target} ELSE {}
  <1>1. /\ Applied(s, o, rows).scope = s.scope
        /\ Applied(s, o, rows).observed = seen \ gone
        /\ Applied(s, o, rows).tombstones = s.tombstones \cup gone
    BY DEF Applied, NextGeneration, SyncStates
  <1>2. QED BY <1>1 DEF Known

LEMMA ClientCases ==
  ASSUME TypeOK, NEW p \in Procs, ClientStep(p)
  PROVE  \/ \E op \in Operations, s \in SyncStates :
              /\ Transaction(p, op, s)
              /\ s.scope = mem[p].scope
              /\ Known(mem[p]) \subseteq Known(s)
         \/ ExportTo(p)
         \/ RestoreRename(p)
  <1> DEFINE Staged(s) == /\ s \in SyncStates
                          /\ s.scope = mem[p].scope
                          /\ Known(mem[p]) \subseteq Known(s)
  <1>1. mem[p] \in SyncStates
    BY DEF TypeOK
  <1>2. CASE \E i \in Ids : Observe(p, i) \/ RecordTombstone(p, i)
    <2>1. PICK i \in Ids : Observe(p, i) \/ RecordTombstone(p, i)
      BY <1>2
    <2>2. Staged(Observed(mem[p], i)) /\ Staged(Tombstoned(mem[p], i))
      BY <1>1, ObservedType, ObservedKeeps
    <2>3. QED BY <2>1, <2>2 DEF Observe, RecordTombstone, Operations
  <1>3. CASE \E rows \in SUBSET Ids :
               ReplaceObserved(p, rows) \/ ReplaceObservedExplicitResurrection(p, rows)
    <2>1. PICK rows \in SUBSET Ids :
            ReplaceObserved(p, rows) \/ ReplaceObservedExplicitResurrection(p, rows)
      BY <1>3
    <2>2. Staged(Refreshed(mem[p], rows)) /\ Staged(Resurrected(mem[p], rows))
      BY <1>1, RefreshedType, RefreshedKeeps
    <2>3. QED BY <2>1, <2>2
           DEF ReplaceObserved, ReplaceObservedExplicitResurrection, Operations
  <1>4. CASE \E o \in OpIds, w \in Work : Enqueue(p, o, w)
    <2>1. PICK o \in OpIds, w \in Work : Enqueue(p, o, w)
      BY <1>4
    <2>2. Staged(Enqueued(mem[p], o, w))
      BY <1>1, EnqueuedType, EnqueuedKeeps
    <2>3. QED BY <2>1, <2>2 DEF Enqueue, Operations
  <1>5. CASE \E o \in OpIds, rows \in SUBSET Ids : MarkApplied(p, o, rows)
    <2>1. PICK o \in OpIds, rows \in SUBSET Ids : MarkApplied(p, o, rows)
      BY <1>5
    <2>2. Staged(Applied(mem[p], o, rows))
      BY <1>1, AppliedType, AppliedKeeps
    <2>3. QED BY <2>1, <2>2 DEF MarkApplied, Operations
  <1>6. QED BY <1>2, <1>3, <1>4, <1>5 DEF ClientStep

-----------------------------------------------------------------------------
(* Type correctness.                                                        *)

LEMMA TypeInit == Init => TypeOK
  <1> SUFFICES ASSUME Init PROVE TypeOK
    OBVIOUS
  <1>1. file \in Files /\ disk \in Files
    BY DEF Init, Files, Contents
  <1>2. /\ pc \in [Procs -> PCs]
        /\ mem \in [Procs -> SyncStates]
        /\ cand \in [Procs -> SyncStates]
        /\ recovered \in [Procs -> BOOLEAN]
    BY EmptyStateType DEF Init, PCs
  <1>3. QED BY <1>1, <1>2, EmptyStateType DEF Init, TypeOK

LEMMA TypeStep == TypeOK /\ [Next]_vars => TypeOK'
  <1> SUFFICES ASSUME TypeOK, [Next]_vars PROVE TypeOK'
    OBVIOUS
  <1> USE EmptyStateType, FileAssumption, ScopeAssumption
         DEF files, process, ghosts, TypeOK, Files, Contents, PCs
  <1>0. TypeOK
    OBVIOUS
  <1>1. ASSUME NEW p \in Procs, AcquireLock(p) PROVE TypeOK'
    BY <1>0, <1>1 DEF AcquireLock, Goto
  <1>2. ASSUME NEW p \in Procs, LockModeFails(p) PROVE TypeOK'
    BY <1>0, <1>2 DEF LockModeFails, Goto
  <1>3. ASSUME NEW p \in Procs, Load(p) PROVE TypeOK'
    <2>1. Loaded(file) \in SyncStates
      BY <1>0 DEF Loaded, Readable
    <2>2. Bound(Loaded(file), ScopeOf[p]) \in SyncStates
      BY <2>1, BoundType
    <2>3. QED BY <1>0, <1>3, <2>2 DEF Load, Goto, FromBackup, Readable
  <1>4. ASSUME NEW p \in Procs, LoadFails(p) PROVE TypeOK'
    BY <1>0, <1>4 DEF LoadFails, Goto
  <1>5. ASSUME NEW p \in Procs, Close(p) PROVE TypeOK'
    BY <1>0, <1>5 DEF Close, Forget
  <1>6. ASSUME NEW p \in Procs, NEW op \in Operations, NEW s \in SyncStates,
                 Transaction(p, op, s) PROVE TypeOK'
    BY <1>0, <1>6 DEF Transaction, Goto
  <1>7. ASSUME NEW p \in Procs, ExportTo(p) PROVE TypeOK'
    BY <1>0, <1>7 DEF ExportTo
  <1>8. ASSUME NEW p \in Procs, RestoreRename(p) PROVE TypeOK'
    BY <1>0, <1>8 DEF RestoreRename, Goto
  <1>9. ASSUME NEW p \in Procs, StartBackup(p) PROVE TypeOK'
    BY <1>0, <1>9 DEF StartBackup, NeedsBackup, Goto
  <1>10. ASSUME NEW p \in Procs, FinishBackup(p) PROVE TypeOK'
    BY <1>0, <1>10 DEF FinishBackup, Goto
  <1>11. ASSUME NEW p \in Procs, SyncBackup(p) PROVE TypeOK'
    BY <1>0, <1>11 DEF SyncBackup, Goto
  <1>12. ASSUME NEW p \in Procs, SkipBackup(p) PROVE TypeOK'
    BY <1>0, <1>12 DEF SkipBackup, Goto
  <1>13. ASSUME NEW p \in Procs, Rename(p) PROVE TypeOK'
    BY <1>0, <1>13 DEF Rename, Goto
  <1>14. ASSUME NEW p \in Procs, SyncDirectory(p) PROVE TypeOK'
    BY <1>0, <1>14 DEF SyncDirectory, Publish, Goto
  <1>15. ASSUME NEW p \in Procs, RestoreSync(p) PROVE TypeOK'
    BY <1>0, <1>15 DEF RestoreSync, Publish, Goto
  <1>16. ASSUME NEW p \in Procs, CommitFails(p) PROVE TypeOK'
    BY <1>0, <1>16 DEF CommitFails, Abandon
  <1>17. ASSUME NEW p \in Procs, RestoreFails(p) PROVE TypeOK'
    BY <1>0, <1>17 DEF RestoreFails, Abandon
  <1>18. ASSUME NEW p \in Procs, Kill(p) PROVE TypeOK'
    BY <1>0, <1>18 DEF Kill, Forget
  <1>19. ASSUME NEW which \in {"primary", "backup"}, Writeback(which) PROVE TypeOK'
    BY <1>0, <1>19 DEF Writeback
  <1>20. CASE PowerLoss
    BY <1>0, <1>20 DEF PowerLoss
  <1>21. CASE OperatorRemovesLock
    BY <1>0, <1>21 DEF OperatorRemovesLock, AllDown
  <1>22. CASE RotPrimary
    BY <1>0, <1>22 DEF RotPrimary, AllDown
  <1>23. CASE UNCHANGED vars
    BY <1>0, <1>23 DEF vars
  <1>24. QED
    BY <1>0, <1>1, <1>2, <1>3, <1>4, <1>5, <1>6, <1>7, <1>8, <1>9, <1>10,
       <1>11, <1>12, <1>13, <1>14, <1>15, <1>16, <1>17, <1>18, <1>19,
       <1>20, <1>21, <1>22, <1>23, ClientCases DEF Next, OpenStep,
       CommitStep, Environment

(* Every state keeps the shape TypeOK declares: what is ever published,      *)
(* whoever computed it, parses as a SyncState.                              *)
THEOREM TypeCorrect == Spec => []TypeOK
  BY TypeInit, TypeStep, PTL DEF Spec

-----------------------------------------------------------------------------
(* Exclusion.                                                               *)

LEMMA ExclusiveStep == TypeOK /\ ExclusiveWriter /\ [Next]_vars => ExclusiveWriter'
  <1> SUFFICES ASSUME TypeOK, ExclusiveWriter, [Next]_vars PROVE ExclusiveWriter'
    OBVIOUS
  <1> USE DEF files, process, ghosts, TypeOK, ExclusiveWriter, Live
  <1>0. TypeOK /\ ExclusiveWriter
    OBVIOUS
  <1>1. ASSUME NEW p \in Procs, AcquireLock(p) PROVE ExclusiveWriter'
    BY <1>0, <1>1 DEF AcquireLock, Goto
  <1>2. ASSUME NEW p \in Procs, LockModeFails(p) PROVE ExclusiveWriter'
    BY <1>0, <1>2 DEF LockModeFails, Goto
  <1>3. ASSUME NEW p \in Procs, Load(p) PROVE ExclusiveWriter'
    BY <1>0, <1>3 DEF Load, Goto
  <1>4. ASSUME NEW p \in Procs, LoadFails(p) PROVE ExclusiveWriter'
    BY <1>0, <1>4 DEF LoadFails, Goto
  <1>5. ASSUME NEW p \in Procs, Close(p) PROVE ExclusiveWriter'
    BY <1>0, <1>5 DEF Close, Forget
  <1>6. ASSUME NEW p \in Procs, NEW op \in Operations, NEW s \in SyncStates,
                 Transaction(p, op, s) PROVE ExclusiveWriter'
    BY <1>0, <1>6 DEF Transaction, Goto
  <1>7. ASSUME NEW p \in Procs, ExportTo(p) PROVE ExclusiveWriter'
    BY <1>0, <1>7 DEF ExportTo
  <1>8. ASSUME NEW p \in Procs, RestoreRename(p) PROVE ExclusiveWriter'
    BY <1>0, <1>8 DEF RestoreRename, Goto
  <1>9. ASSUME NEW p \in Procs, StartBackup(p) PROVE ExclusiveWriter'
    BY <1>0, <1>9 DEF StartBackup, NeedsBackup, Goto
  <1>10. ASSUME NEW p \in Procs, FinishBackup(p) PROVE ExclusiveWriter'
    BY <1>0, <1>10 DEF FinishBackup, Goto
  <1>11. ASSUME NEW p \in Procs, SyncBackup(p) PROVE ExclusiveWriter'
    BY <1>0, <1>11 DEF SyncBackup, Goto
  <1>12. ASSUME NEW p \in Procs, SkipBackup(p) PROVE ExclusiveWriter'
    BY <1>0, <1>12 DEF SkipBackup, Goto
  <1>13. ASSUME NEW p \in Procs, Rename(p) PROVE ExclusiveWriter'
    BY <1>0, <1>13 DEF Rename, Goto
  <1>14. ASSUME NEW p \in Procs, SyncDirectory(p) PROVE ExclusiveWriter'
    BY <1>0, <1>14 DEF SyncDirectory, Publish, Goto
  <1>15. ASSUME NEW p \in Procs, RestoreSync(p) PROVE ExclusiveWriter'
    BY <1>0, <1>15 DEF RestoreSync, Publish, Goto
  <1>16. ASSUME NEW p \in Procs, CommitFails(p) PROVE ExclusiveWriter'
    BY <1>0, <1>16 DEF CommitFails, Abandon
  <1>17. ASSUME NEW p \in Procs, RestoreFails(p) PROVE ExclusiveWriter'
    BY <1>0, <1>17 DEF RestoreFails, Abandon
  <1>18. ASSUME NEW p \in Procs, Kill(p) PROVE ExclusiveWriter'
    BY <1>0, <1>18 DEF Kill, Forget
  <1>19. ASSUME NEW which \in {"primary", "backup"}, Writeback(which) PROVE ExclusiveWriter'
    BY <1>0, <1>19 DEF Writeback
  <1>20. CASE PowerLoss
    BY <1>0, <1>20 DEF PowerLoss
  <1>21. CASE OperatorRemovesLock
    BY <1>0, <1>21 DEF OperatorRemovesLock, AllDown
  <1>22. CASE RotPrimary
    BY <1>0, <1>22 DEF RotPrimary, AllDown
  <1>23. CASE UNCHANGED vars
    BY <1>0, <1>23 DEF vars
  <1>24. QED
    BY <1>0, <1>1, <1>2, <1>3, <1>4, <1>5, <1>6, <1>7, <1>8, <1>9, <1>10,
       <1>11, <1>12, <1>13, <1>14, <1>15, <1>16, <1>17, <1>18, <1>19,
       <1>20, <1>21, <1>22, <1>23, ClientCases DEF Next, OpenStep,
       CommitStep, Environment

(* The lock file excludes: whatever crashes, failed opens and operators do,  *)
(* no two live stores ever share the checkpoint, and a lock nobody removed   *)
(* is there exactly while a store lives.                                    *)
THEOREM Exclusive == Spec => []ExclusiveWriter
  <1>1. Init => ExclusiveWriter
    BY DEF Init, ExclusiveWriter, Live
  <1>2. QED BY <1>1, ExclusiveStep, TypeCorrect, PTL DEF Spec

-----------------------------------------------------------------------------
(* Durability, of a checkpoint whose primary does not rot.                  *)
(*                                                                          *)
(* NoLostAck is not inductive: why a directory fsync settles the candidate, *)
(* and why an absent primary means that nothing was ever acknowledged, is   *)
(* in the strengthening below.                                              *)

PrimaryKnown(f) ==
  /\ f.primary \in {Absent, acked} \cup doubtful
  /\ f.primary = Absent => acked = EmptyState /\ f.backup = Absent

CandidatePlaced ==
  \A p \in Procs : pc[p] \in {"renamed", "restoring"} => file.primary = cand[p]

(* Once there is a primary it is never removed. *)
PrimaryStays == file.primary = Absent => disk.primary = Absent

Durable ==
  PrimaryKnown(file) /\ PrimaryKnown(disk) /\ PrimaryStays /\ CandidatePlaced

LEMMA DurableStep ==
  ASSUME "rot" \notin Faults
  PROVE  TypeOK /\ ExclusiveWriter /\ Durable /\ [Next]_vars => Durable'
  <1> SUFFICES ASSUME TypeOK, ExclusiveWriter, Durable, [Next]_vars PROVE Durable'
    OBVIOUS
  <1> USE FileAssumption DEF files, process, ghosts, TypeOK, Files,
                            ExclusiveWriter, Live, Durable, PrimaryKnown,
                            PrimaryStays, CandidatePlaced
  <1>0. TypeOK /\ ExclusiveWriter /\ Durable /\ "rot" \notin Faults
    OBVIOUS
  <1>1. ASSUME NEW p \in Procs, AcquireLock(p) PROVE Durable'
    BY <1>0, <1>1 DEF AcquireLock, Goto
  <1>2. ASSUME NEW p \in Procs, LockModeFails(p) PROVE Durable'
    BY <1>0, <1>2 DEF LockModeFails, Goto
  <1>3. ASSUME NEW p \in Procs, Load(p) PROVE Durable'
    BY <1>0, <1>3 DEF Load, Goto
  <1>4. ASSUME NEW p \in Procs, LoadFails(p) PROVE Durable'
    BY <1>0, <1>4 DEF LoadFails, Goto
  <1>5. ASSUME NEW p \in Procs, Close(p) PROVE Durable'
    BY <1>0, <1>5 DEF Close, Forget
  <1>6. ASSUME NEW p \in Procs, NEW op \in Operations, NEW s \in SyncStates,
                 Transaction(p, op, s) PROVE Durable'
    BY <1>0, <1>6 DEF Transaction, Goto
  <1>7. ASSUME NEW p \in Procs, ExportTo(p) PROVE Durable'
    BY <1>0, <1>7 DEF ExportTo
  <1>8. ASSUME NEW p \in Procs, RestoreRename(p) PROVE Durable'
    BY <1>0, <1>8 DEF RestoreRename, Goto
  <1>9. ASSUME NEW p \in Procs, StartBackup(p) PROVE Durable'
    BY <1>0, <1>9 DEF StartBackup, NeedsBackup, Goto
  <1>10. ASSUME NEW p \in Procs, FinishBackup(p) PROVE Durable'
    BY <1>0, <1>10 DEF FinishBackup, Goto
  <1>11. ASSUME NEW p \in Procs, SyncBackup(p) PROVE Durable'
    BY <1>0, <1>11 DEF SyncBackup, Goto
  <1>12. ASSUME NEW p \in Procs, SkipBackup(p) PROVE Durable'
    BY <1>0, <1>12 DEF SkipBackup, Goto
  <1>13. ASSUME NEW p \in Procs, Rename(p) PROVE Durable'
    BY <1>0, <1>13 DEF Rename, Goto
  <1>14. ASSUME NEW p \in Procs, SyncDirectory(p) PROVE Durable'
    BY <1>0, <1>14 DEF SyncDirectory, Publish, Goto
  <1>15. ASSUME NEW p \in Procs, RestoreSync(p) PROVE Durable'
    BY <1>0, <1>15 DEF RestoreSync, Publish, Goto
  <1>16. ASSUME NEW p \in Procs, CommitFails(p) PROVE Durable'
    BY <1>0, <1>16 DEF CommitFails, Abandon
  <1>17. ASSUME NEW p \in Procs, RestoreFails(p) PROVE Durable'
    BY <1>0, <1>17 DEF RestoreFails, Abandon
  <1>18. ASSUME NEW p \in Procs, Kill(p) PROVE Durable'
    BY <1>0, <1>18 DEF Kill, Forget
  <1>19. ASSUME NEW which \in {"primary", "backup"}, Writeback(which) PROVE Durable'
    <2>1. CASE which = "primary"
      <3>1. disk' = [disk EXCEPT !.primary = file.primary]
        BY <1>19, <2>1 DEF Writeback
      <3>2. disk'.primary = file.primary /\ disk'.backup = disk.backup
        BY <1>0, <3>1
      <3>3. file.primary = Absent => disk.backup = Absent
        BY <1>0
      <3>4. QED BY <1>0, <1>19, <3>2, <3>3 DEF Writeback
    <2>2. CASE which = "backup"
      <3>1. disk' = [disk EXCEPT !.backup = file.backup]
        BY <1>19, <2>2 DEF Writeback
      <3>2. disk'.primary = disk.primary /\ disk'.backup = file.backup
        BY <1>0, <3>1
      <3>3. disk.primary = Absent => file.backup = Absent
        BY <1>0, <1>19, <2>2 DEF Writeback
      <3>4. QED BY <1>0, <1>19, <3>2, <3>3 DEF Writeback
    <2>3. QED BY <2>1, <2>2
  <1>20. CASE PowerLoss
    BY <1>0, <1>20 DEF PowerLoss
  <1>21. CASE OperatorRemovesLock
    BY <1>0, <1>21 DEF OperatorRemovesLock, AllDown
  <1>22. CASE RotPrimary
    BY <1>0, <1>22 DEF RotPrimary, AllDown
  <1>23. CASE UNCHANGED vars
    BY <1>0, <1>23 DEF vars
  <1>24. QED
    BY <1>0, <1>1, <1>2, <1>3, <1>4, <1>5, <1>6, <1>7, <1>8, <1>9, <1>10,
       <1>11, <1>12, <1>13, <1>14, <1>15, <1>16, <1>17, <1>18, <1>19,
       <1>20, <1>21, <1>22, <1>23, ClientCases DEF Next, OpenStep,
       CommitStep, Environment

(* In a checkpoint that never rots, every crash, failed file operation and   *)
(* power loss leaves a checkpoint that opens, with the last acknowledged    *)
(* state or one renamed into place after it.                                *)
THEOREM NothingAckedIsLost ==
  ASSUME "rot" \notin Faults
  PROVE  Spec => []NoLostAck
  <1>1. Init => Durable
    BY DEF Init, Durable, PrimaryKnown, PrimaryStays, CandidatePlaced
  <1>2. TypeOK /\ Durable => NoLostAck
    <2> SUFFICES ASSUME TypeOK, Durable,
                        NEW f \in {file, disk}
                 PROVE  ~Unreadable(f) /\ Loaded(f) \in {acked} \cup doubtful
      BY DEF NoLostAck
    <2>1. PrimaryKnown(f) /\ ({acked} \cup doubtful) \subseteq SyncStates
      BY DEF Durable, TypeOK
    <2>2. CASE f.primary = Absent
      BY <2>1, <2>2, FileAssumption DEF PrimaryKnown, Unreadable, Loaded, Readable
    <2>3. CASE f.primary # Absent
      BY <2>1, <2>3 DEF PrimaryKnown, Unreadable, Loaded, Readable
    <2>4. QED BY <2>2, <2>3
  <1>3. QED BY <1>1, <1>2, DurableStep, Exclusive, TypeCorrect, PTL DEF Spec

-----------------------------------------------------------------------------
(* Scopes.                                                                  *)

Publishing == {"staged", "copying", "copied", "ready", "renamed", "restoring"}

ScopeInv ==
  \A p \in Procs :
    /\ Open(p) => mem[p].scope = ScopeOf[p]
    /\ pc[p] \in Publishing => cand[p].scope = mem[p].scope

LEMMA ScopeStep == TypeOK /\ ScopeInv /\ [Next]_vars => ScopeInv'
  <1> SUFFICES ASSUME TypeOK, ScopeInv, [Next]_vars PROVE ScopeInv'
    OBVIOUS
  <1> USE FileAssumption DEF files, process, ghosts, TypeOK, PCs, ScopeInv, Open, Publishing
  <1>0. TypeOK /\ ScopeInv
    OBVIOUS
  <1>1. ASSUME NEW p \in Procs, AcquireLock(p) PROVE ScopeInv'
    BY <1>0, <1>1 DEF AcquireLock, Goto
  <1>2. ASSUME NEW p \in Procs, LockModeFails(p) PROVE ScopeInv'
    BY <1>0, <1>2 DEF LockModeFails, Goto
  <1>3. ASSUME NEW p \in Procs, Load(p) PROVE ScopeInv'
    <2>1. Loaded(file) \in SyncStates
      BY <1>0, EmptyStateType DEF Loaded, Readable
    <2>2. Bound(Loaded(file), ScopeOf[p]).scope = ScopeOf[p]
      BY <2>1, <1>3 DEF Load, Bound, Bindable, SyncStates
    <2>3. QED BY <1>0, <1>3, <2>2 DEF Load, Goto
  <1>4. ASSUME NEW p \in Procs, LoadFails(p) PROVE ScopeInv'
    BY <1>0, <1>4 DEF LoadFails, Goto
  <1>5. ASSUME NEW p \in Procs, Close(p) PROVE ScopeInv'
    BY <1>0, <1>5 DEF Close, Forget
  <1>6. ASSUME NEW p \in Procs, NEW op \in Operations, NEW s \in SyncStates,
                 Transaction(p, op, s), s.scope = mem[p].scope PROVE ScopeInv'
    BY <1>0, <1>6 DEF Transaction, Goto
  <1>7. ASSUME NEW p \in Procs, ExportTo(p) PROVE ScopeInv'
    BY <1>0, <1>7 DEF ExportTo
  <1>8. ASSUME NEW p \in Procs, RestoreRename(p) PROVE ScopeInv'
    BY <1>0, <1>8 DEF RestoreRename, Goto
  <1>9. ASSUME NEW p \in Procs, StartBackup(p) PROVE ScopeInv'
    BY <1>0, <1>9 DEF StartBackup, NeedsBackup, Goto
  <1>10. ASSUME NEW p \in Procs, FinishBackup(p) PROVE ScopeInv'
    BY <1>0, <1>10 DEF FinishBackup, Goto
  <1>11. ASSUME NEW p \in Procs, SyncBackup(p) PROVE ScopeInv'
    BY <1>0, <1>11 DEF SyncBackup, Goto
  <1>12. ASSUME NEW p \in Procs, SkipBackup(p) PROVE ScopeInv'
    BY <1>0, <1>12 DEF SkipBackup, Goto
  <1>13. ASSUME NEW p \in Procs, Rename(p) PROVE ScopeInv'
    BY <1>0, <1>13 DEF Rename, Goto
  <1>14. ASSUME NEW p \in Procs, SyncDirectory(p) PROVE ScopeInv'
    BY <1>0, <1>14 DEF SyncDirectory, Publish, Goto
  <1>15. ASSUME NEW p \in Procs, RestoreSync(p) PROVE ScopeInv'
    BY <1>0, <1>15 DEF RestoreSync, Publish, Goto
  <1>16. ASSUME NEW p \in Procs, CommitFails(p) PROVE ScopeInv'
    BY <1>0, <1>16 DEF CommitFails, Abandon
  <1>17. ASSUME NEW p \in Procs, RestoreFails(p) PROVE ScopeInv'
    BY <1>0, <1>17 DEF RestoreFails, Abandon
  <1>18. ASSUME NEW p \in Procs, Kill(p) PROVE ScopeInv'
    BY <1>0, <1>18 DEF Kill, Forget
  <1>19. ASSUME NEW which \in {"primary", "backup"}, Writeback(which) PROVE ScopeInv'
    BY <1>0, <1>19 DEF Writeback
  <1>20. CASE PowerLoss
    BY <1>0, <1>20 DEF PowerLoss
  <1>21. CASE OperatorRemovesLock
    BY <1>0, <1>21 DEF OperatorRemovesLock, AllDown
  <1>22. CASE RotPrimary
    BY <1>0, <1>22 DEF RotPrimary, AllDown
  <1>23. CASE UNCHANGED vars
    BY <1>0, <1>23 DEF vars
  <1>24. QED
    BY <1>0, <1>1, <1>2, <1>3, <1>4, <1>5, <1>6, <1>7, <1>8, <1>9, <1>10,
       <1>11, <1>12, <1>13, <1>14, <1>15, <1>16, <1>17, <1>18, <1>19,
       <1>20, <1>21, <1>22, <1>23, ClientCases DEF Next, OpenStep,
       CommitStep, Environment

(* A store works only on history of the scope it was opened for, whatever    *)
(* is restored into it and whoever wrote the checkpoint before.             *)
THEOREM ScopesNeverMix == Spec => []ScopeRespected
  <1>1. Init => ScopeInv
    BY DEF Init, ScopeInv, Open, Publishing
  <1>2. ScopeInv => ScopeRespected
    BY DEF ScopeInv, ScopeRespected
  <1>3. QED BY <1>1, <1>2, ScopeStep, TypeCorrect, PTL DEF Spec

-----------------------------------------------------------------------------
(* Deletions.  Everything a later commit could build on, the memory of an   *)
(* open store, a candidate, or a state in doubt, knows each identity the    *)
(* acknowledged state knows.                                                *)

KnownEverywhere ==
  /\ \A s \in doubtful : Known(acked) \subseteq Known(s)
  /\ \A p \in Procs :
       /\ Open(p) => Known(acked) \subseteq Known(mem[p])
       /\ pc[p] \in Publishing => Known(acked) \subseteq Known(cand[p])

LEMMA BoundKnows ==
  ASSUME NEW s \in SyncStates, NEW expected
  PROVE  Known(Bound(s, expected)) = Known(s)
  BY DEF Known, Bound, SyncStates

LEMMA KnownStep ==
  ASSUME "restore" \notin Api
  PROVE  /\ TypeOK /\ ExclusiveWriter /\ NoLostAck /\ KnownEverywhere
         /\ [Next]_vars
         => KnownEverywhere'
  <1> SUFFICES ASSUME TypeOK, ExclusiveWriter, NoLostAck, KnownEverywhere, [Next]_vars
               PROVE  KnownEverywhere'
    OBVIOUS
  <1> USE DEF files, process, ghosts, TypeOK, PCs, ExclusiveWriter, Live,
              KnownEverywhere, Open, Publishing
  <1>0. TypeOK /\ ExclusiveWriter /\ KnownEverywhere /\ "restore" \notin Api
    OBVIOUS
  <1>1. ASSUME NEW p \in Procs, AcquireLock(p) PROVE KnownEverywhere'
    BY <1>0, <1>1 DEF AcquireLock, Goto
  <1>2. ASSUME NEW p \in Procs, LockModeFails(p) PROVE KnownEverywhere'
    BY <1>0, <1>2 DEF LockModeFails, Goto
  <1>3. ASSUME NEW p \in Procs, Load(p) PROVE KnownEverywhere'
    <2>1. Loaded(file) \in {acked} \cup doubtful
      BY DEF NoLostAck
    <2>2. Known(acked) \subseteq Known(Bound(Loaded(file), ScopeOf[p]))
      BY <1>0, <2>1, BoundKnows
    <2>3. QED BY <1>0, <1>3, <2>2 DEF Load, Goto
  <1>4. ASSUME NEW p \in Procs, LoadFails(p) PROVE KnownEverywhere'
    BY <1>0, <1>4 DEF LoadFails, Goto
  <1>5. ASSUME NEW p \in Procs, Close(p) PROVE KnownEverywhere'
    BY <1>0, <1>5 DEF Close, Forget
  <1>6. ASSUME NEW p \in Procs, NEW op \in Operations, NEW s \in SyncStates,
                 Transaction(p, op, s), Known(mem[p]) \subseteq Known(s)
         PROVE  KnownEverywhere'
    BY <1>0, <1>6 DEF Transaction, Goto
  <1>7. ASSUME NEW p \in Procs, ExportTo(p) PROVE KnownEverywhere'
    BY <1>0, <1>7 DEF ExportTo
  <1>8. ASSUME NEW p \in Procs, RestoreRename(p) PROVE KnownEverywhere'
    BY <1>0, <1>8 DEF RestoreRename, Goto
  <1>9. ASSUME NEW p \in Procs, StartBackup(p) PROVE KnownEverywhere'
    BY <1>0, <1>9 DEF StartBackup, NeedsBackup, Goto
  <1>10. ASSUME NEW p \in Procs, FinishBackup(p) PROVE KnownEverywhere'
    BY <1>0, <1>10 DEF FinishBackup, Goto
  <1>11. ASSUME NEW p \in Procs, SyncBackup(p) PROVE KnownEverywhere'
    BY <1>0, <1>11 DEF SyncBackup, Goto
  <1>12. ASSUME NEW p \in Procs, SkipBackup(p) PROVE KnownEverywhere'
    BY <1>0, <1>12 DEF SkipBackup, Goto
  <1>13. ASSUME NEW p \in Procs, Rename(p) PROVE KnownEverywhere'
    BY <1>0, <1>13 DEF Rename, Goto
  <1>14. ASSUME NEW p \in Procs, SyncDirectory(p) PROVE KnownEverywhere'
    BY <1>0, <1>14 DEF SyncDirectory, Publish, Goto
  <1>15. ASSUME NEW p \in Procs, RestoreSync(p) PROVE KnownEverywhere'
    BY <1>0, <1>15 DEF RestoreSync, Publish, Goto
  <1>16. ASSUME NEW p \in Procs, CommitFails(p) PROVE KnownEverywhere'
    BY <1>0, <1>16 DEF CommitFails, Abandon
  <1>17. ASSUME NEW p \in Procs, RestoreFails(p) PROVE KnownEverywhere'
    BY <1>0, <1>17 DEF RestoreFails, Abandon
  <1>18. ASSUME NEW p \in Procs, Kill(p) PROVE KnownEverywhere'
    BY <1>0, <1>18 DEF Kill, Forget
  <1>19. ASSUME NEW which \in {"primary", "backup"}, Writeback(which) PROVE KnownEverywhere'
    BY <1>0, <1>19 DEF Writeback
  <1>20. CASE PowerLoss
    BY <1>0, <1>20 DEF PowerLoss
  <1>21. CASE OperatorRemovesLock
    BY <1>0, <1>21 DEF OperatorRemovesLock, AllDown
  <1>22. CASE RotPrimary
    BY <1>0, <1>22 DEF RotPrimary, AllDown
  <1>23. CASE UNCHANGED vars
    BY <1>0, <1>23 DEF vars
  <1>24. QED
    BY <1>0, <1>1, <1>2, <1>3, <1>4, <1>5, <1>6, <1>7, <1>8, <1>9, <1>10,
       <1>11, <1>12, <1>13, <1>14, <1>15, <1>16, <1>17, <1>18, <1>19,
       <1>20, <1>21, <1>22, <1>23, ClientCases DEF Next, OpenStep,
       CommitStep, Environment

(* Without rot and restores, no commit, crash, failure or retry ever drops   *)
(* an acknowledged identity: it is observed or it is tombstoned.            *)
THEOREM DeletionsAreRemembered ==
  ASSUME "rot" \notin Faults, "restore" \notin Api
  PROVE  Spec => DeletionRemembered
  <1>1. Init => KnownEverywhere
    BY DEF Init, KnownEverywhere, Open, Publishing, Known, EmptyState
  <1>2. TypeOK /\ KnownEverywhere /\ [Next]_vars
          => [Known(acked) \subseteq Known(acked')]_acked
    <2> SUFFICES ASSUME TypeOK, KnownEverywhere, Next, acked' # acked
                 PROVE  Known(acked) \subseteq Known(acked')
      BY DEF vars
    <2>1. PICK p \in Procs : SyncDirectory(p) \/ RestoreSync(p)
      BY ClientCases
         DEF Next, OpenStep, CommitStep, Environment, ghosts, AcquireLock,
             LockModeFails, Load, LoadFails, Close, Transaction, ExportTo,
             RestoreRename, StartBackup, FinishBackup, SyncBackup, SkipBackup,
             Rename, CommitFails, RestoreFails, Abandon, Kill, Writeback,
             PowerLoss, OperatorRemovesLock, RotPrimary
    <2>2. QED BY <2>1 DEF SyncDirectory, RestoreSync, Publish, Goto,
                          KnownEverywhere, Publishing
  <1>3. QED
    BY <1>1, <1>2, KnownStep, NothingAckedIsLost, Exclusive, TypeCorrect, PTL
    DEF Spec, DeletionRemembered

-----------------------------------------------------------------------------
(* Refinement.                                                              *)

InDoubt ==
  \A p \in Procs : pc[p] \in {"renamed", "restoring"} => cand[p] \in doubtful

LEMMA InDoubtStep == TypeOK /\ ExclusiveWriter /\ InDoubt /\ [Next]_vars => InDoubt'
  <1> SUFFICES ASSUME TypeOK, ExclusiveWriter, InDoubt, [Next]_vars PROVE InDoubt'
    OBVIOUS
  <1> USE DEF files, process, ghosts, TypeOK, ExclusiveWriter, Live, InDoubt
  <1>0. TypeOK /\ ExclusiveWriter /\ InDoubt
    OBVIOUS
  <1>1. ASSUME NEW p \in Procs, AcquireLock(p) PROVE InDoubt'
    BY <1>0, <1>1 DEF AcquireLock, Goto
  <1>2. ASSUME NEW p \in Procs, LockModeFails(p) PROVE InDoubt'
    BY <1>0, <1>2 DEF LockModeFails, Goto
  <1>3. ASSUME NEW p \in Procs, Load(p) PROVE InDoubt'
    BY <1>0, <1>3 DEF Load, Goto
  <1>4. ASSUME NEW p \in Procs, LoadFails(p) PROVE InDoubt'
    BY <1>0, <1>4 DEF LoadFails, Goto
  <1>5. ASSUME NEW p \in Procs, Close(p) PROVE InDoubt'
    BY <1>0, <1>5 DEF Close, Forget
  <1>6. ASSUME NEW p \in Procs, NEW op \in Operations, NEW s \in SyncStates,
                 Transaction(p, op, s) PROVE InDoubt'
    BY <1>0, <1>6 DEF Transaction, Goto
  <1>7. ASSUME NEW p \in Procs, ExportTo(p) PROVE InDoubt'
    BY <1>0, <1>7 DEF ExportTo
  <1>8. ASSUME NEW p \in Procs, RestoreRename(p) PROVE InDoubt'
    BY <1>0, <1>8 DEF RestoreRename, Goto
  <1>9. ASSUME NEW p \in Procs, StartBackup(p) PROVE InDoubt'
    BY <1>0, <1>9 DEF StartBackup, NeedsBackup, Goto
  <1>10. ASSUME NEW p \in Procs, FinishBackup(p) PROVE InDoubt'
    BY <1>0, <1>10 DEF FinishBackup, Goto
  <1>11. ASSUME NEW p \in Procs, SyncBackup(p) PROVE InDoubt'
    BY <1>0, <1>11 DEF SyncBackup, Goto
  <1>12. ASSUME NEW p \in Procs, SkipBackup(p) PROVE InDoubt'
    BY <1>0, <1>12 DEF SkipBackup, Goto
  <1>13. ASSUME NEW p \in Procs, Rename(p) PROVE InDoubt'
    BY <1>0, <1>13 DEF Rename, Goto
  <1>14. ASSUME NEW p \in Procs, SyncDirectory(p) PROVE InDoubt'
    BY <1>0, <1>14 DEF SyncDirectory, Publish, Goto
  <1>15. ASSUME NEW p \in Procs, RestoreSync(p) PROVE InDoubt'
    BY <1>0, <1>15 DEF RestoreSync, Publish, Goto
  <1>16. ASSUME NEW p \in Procs, CommitFails(p) PROVE InDoubt'
    BY <1>0, <1>16 DEF CommitFails, Abandon
  <1>17. ASSUME NEW p \in Procs, RestoreFails(p) PROVE InDoubt'
    BY <1>0, <1>17 DEF RestoreFails, Abandon
  <1>18. ASSUME NEW p \in Procs, Kill(p) PROVE InDoubt'
    BY <1>0, <1>18 DEF Kill, Forget
  <1>19. ASSUME NEW which \in {"primary", "backup"}, Writeback(which) PROVE InDoubt'
    BY <1>0, <1>19 DEF Writeback
  <1>20. CASE PowerLoss
    BY <1>0, <1>20 DEF PowerLoss
  <1>21. CASE OperatorRemovesLock
    BY <1>0, <1>21 DEF OperatorRemovesLock, AllDown
  <1>22. CASE RotPrimary
    BY <1>0, <1>22 DEF RotPrimary, AllDown
  <1>23. CASE UNCHANGED vars
    BY <1>0, <1>23 DEF vars
  <1>24. QED
    BY <1>0, <1>1, <1>2, <1>3, <1>4, <1>5, <1>6, <1>7, <1>8, <1>9, <1>10,
       <1>11, <1>12, <1>13, <1>14, <1>15, <1>16, <1>17, <1>18, <1>19,
       <1>20, <1>21, <1>22, <1>23, ClientCases DEF Next, OpenStep,
       CommitStep, Environment

View == [p \in Procs |-> IF Open(p) THEN mem[p] ELSE Absent]

LEMMA SettleStep ==
  ASSUME TypeOK, ScopeInv, InDoubt, NEW p \in Procs,
         NEW from \in {"renamed", "restoring"}, Publish(p, from)
  PROVE  \E s \in doubtful : Checkpoint!Settle(p, s)
  <1>1. /\ pc[p] = from
        /\ acked' = cand[p]
        /\ doubtful' = {}
    BY DEF Publish, Goto
  <1>2. cand[p] \in doubtful
    BY <1>1 DEF InDoubt
  <1>3. View[p] = mem[p] /\ mem[p] # Absent
    BY <1>1, FileAssumption DEF View, Open, TypeOK
  <1>4. cand[p].scope = View[p].scope
    BY <1>1, <1>3 DEF ScopeInv, Publishing
  <1>5. View' = [View EXCEPT ![p] = cand[p]]
    BY DEF Publish, Goto, View, Open, TypeOK
  <1>6. QED BY <1>1, <1>2, <1>3, <1>4, <1>5 DEF Checkpoint!Settle, View

LEMMA CheckpointStep ==
  TypeOK /\ ExclusiveWriter /\ NoLostAck /\ ScopeInv /\ InDoubt /\ [Next]_vars
    => [Checkpoint!Next]_(Checkpoint!vars)
  <1> SUFFICES ASSUME TypeOK, ExclusiveWriter, NoLostAck, ScopeInv, InDoubt, [Next]_vars
               PROVE  Checkpoint!Next \/ UNCHANGED <<View, acked, doubtful>>
    BY DEF Checkpoint!vars, View
  <1> USE DEF files, process, ghosts, TypeOK, PCs, View, Open
  <1>0. TypeOK
    OBVIOUS
  <1>1. ASSUME NEW p \in Procs, AcquireLock(p) PROVE Checkpoint!Next \/ UNCHANGED <<View, acked, doubtful>>
    BY <1>0, <1>1 DEF AcquireLock, Goto
  <1>2. ASSUME NEW p \in Procs, LockModeFails(p) PROVE Checkpoint!Next \/ UNCHANGED <<View, acked, doubtful>>
    BY <1>0, <1>2 DEF LockModeFails, Goto
  <1>3. ASSUME NEW p \in Procs, Load(p) PROVE Checkpoint!Next \/ UNCHANGED <<View, acked, doubtful>>
    <2>1. Loaded(file) \in {acked} \cup doubtful
      BY DEF NoLostAck
    <2>2. \A q \in Procs : View[q] = Absent
      BY <1>3 DEF Load, Goto, ExclusiveWriter, Live
    <2>3. View' = [View EXCEPT ![p] = Bound(Loaded(file), ScopeOf[p])]
      BY <1>0, <1>3 DEF Load, Goto
    <2>4. Checkpoint!Open(p)
      BY <2>1, <2>2, <2>3, <1>3
         DEF Load, Checkpoint!Open, Bindable, Checkpoint!Bindable, HoldsHistory,
             Checkpoint!HoldsHistory, Bound, Checkpoint!Bound
    <2>5. QED BY <2>4 DEF Checkpoint!Next
  <1>4. ASSUME NEW p \in Procs, LoadFails(p) PROVE Checkpoint!Next \/ UNCHANGED <<View, acked, doubtful>>
    BY <1>0, <1>4 DEF LoadFails, Goto
  <1>5. ASSUME NEW p \in Procs, Close(p) PROVE Checkpoint!Next \/ UNCHANGED <<View, acked, doubtful>>
    <2>1. View' = [View EXCEPT ![p] = Absent] /\ View[p] # Absent
      BY <1>0, <1>5, FileAssumption DEF Close, Forget
    <2>2. QED BY <2>1, <1>5 DEF Close, Checkpoint!Next, Checkpoint!End
  <1>6. ASSUME NEW p \in Procs, NEW op \in Operations, NEW s \in SyncStates,
                 Transaction(p, op, s) PROVE Checkpoint!Next \/ UNCHANGED <<View, acked, doubtful>>
    BY <1>0, <1>6 DEF Transaction, Goto
  <1>7. ASSUME NEW p \in Procs, ExportTo(p) PROVE Checkpoint!Next \/ UNCHANGED <<View, acked, doubtful>>
    BY <1>0, <1>7 DEF ExportTo
  <1>8. ASSUME NEW p \in Procs, RestoreRename(p) PROVE Checkpoint!Next \/ UNCHANGED <<View, acked, doubtful>>
    <2>1. View' = View /\ View[p] = mem[p] /\ mem[p] # Absent
      BY <1>0, <1>8, FileAssumption DEF RestoreRename, Goto
    <2>2. artifact.scope = View[p].scope
      BY <2>1, <1>8 DEF RestoreRename
    <2>3. \E s \in doubtful' : Checkpoint!Attempt(p, s)
      BY <2>1, <2>2, <1>8 DEF RestoreRename, Checkpoint!Attempt
    <2>4. QED BY <2>3 DEF Checkpoint!Next
  <1>9. ASSUME NEW p \in Procs, StartBackup(p) PROVE Checkpoint!Next \/ UNCHANGED <<View, acked, doubtful>>
    BY <1>0, <1>9 DEF StartBackup, NeedsBackup, Goto
  <1>10. ASSUME NEW p \in Procs, FinishBackup(p) PROVE Checkpoint!Next \/ UNCHANGED <<View, acked, doubtful>>
    BY <1>0, <1>10 DEF FinishBackup, Goto
  <1>11. ASSUME NEW p \in Procs, SyncBackup(p) PROVE Checkpoint!Next \/ UNCHANGED <<View, acked, doubtful>>
    BY <1>0, <1>11 DEF SyncBackup, Goto
  <1>12. ASSUME NEW p \in Procs, SkipBackup(p) PROVE Checkpoint!Next \/ UNCHANGED <<View, acked, doubtful>>
    BY <1>0, <1>12 DEF SkipBackup, Goto
  <1>13. ASSUME NEW p \in Procs, Rename(p) PROVE Checkpoint!Next \/ UNCHANGED <<View, acked, doubtful>>
    <2>1. View' = View /\ View[p] = mem[p] /\ mem[p] # Absent
      BY <1>0, <1>13, FileAssumption DEF Rename, Goto
    <2>2. cand[p].scope = View[p].scope
      BY <2>1, <1>13 DEF Rename, Goto, ScopeInv, Publishing
    <2>3. \E s \in doubtful' : Checkpoint!Attempt(p, s)
      BY <2>1, <2>2, <1>13 DEF Rename, Checkpoint!Attempt
    <2>4. QED BY <2>3 DEF Checkpoint!Next
  <1>14. ASSUME NEW p \in Procs, SyncDirectory(p) PROVE Checkpoint!Next \/ UNCHANGED <<View, acked, doubtful>>
    <2>1. \E s \in doubtful : Checkpoint!Settle(p, s)
      BY <1>14, SettleStep DEF SyncDirectory
    <2>2. QED BY <2>1 DEF Checkpoint!Next
  <1>15. ASSUME NEW p \in Procs, RestoreSync(p) PROVE Checkpoint!Next \/ UNCHANGED <<View, acked, doubtful>>
    <2>1. \E s \in doubtful : Checkpoint!Settle(p, s)
      BY <1>15, SettleStep DEF RestoreSync
    <2>2. QED BY <2>1 DEF Checkpoint!Next
  <1>16. ASSUME NEW p \in Procs, CommitFails(p) PROVE Checkpoint!Next \/ UNCHANGED <<View, acked, doubtful>>
    BY <1>0, <1>16 DEF CommitFails, Abandon
  <1>17. ASSUME NEW p \in Procs, RestoreFails(p) PROVE Checkpoint!Next \/ UNCHANGED <<View, acked, doubtful>>
    BY <1>0, <1>17 DEF RestoreFails, Abandon
  <1>18. ASSUME NEW p \in Procs, Kill(p) PROVE Checkpoint!Next \/ UNCHANGED <<View, acked, doubtful>>
    <2>1. CASE Open(p)
      <3>1. View' = [View EXCEPT ![p] = Absent] /\ View[p] # Absent
        BY <1>0, <1>18, <2>1, FileAssumption DEF Kill, Forget
      <3>2. QED BY <3>1, <1>18 DEF Kill, Checkpoint!Next, Checkpoint!End
    <2>2. CASE ~Open(p)
      BY <1>0, <1>18, <2>2 DEF Kill, Forget
    <2>3. QED BY <2>1, <2>2
  <1>19. ASSUME NEW which \in {"primary", "backup"}, Writeback(which) PROVE Checkpoint!Next \/ UNCHANGED <<View, acked, doubtful>>
    BY <1>0, <1>19 DEF Writeback
  <1>20. CASE PowerLoss
    <2>1. CASE \A p \in Procs : ~Open(p)
      BY <1>0, <1>20, <2>1 DEF PowerLoss
    <2>2. CASE \E p \in Procs : Open(p)
      <3>1. PICK p \in Procs : Open(p)
        BY <2>2
      <3>2. \A q \in Procs : Open(q) => q = p
        BY <3>1 DEF ExclusiveWriter, Live
      <3>3. View' = [View EXCEPT ![p] = Absent] /\ View[p] # Absent
        BY <1>0, <1>20, <3>1, <3>2, FileAssumption DEF PowerLoss
      <3>4. QED BY <3>3, <1>20 DEF PowerLoss, Checkpoint!Next, Checkpoint!End
    <2>3. QED BY <2>1, <2>2
  <1>21. CASE OperatorRemovesLock
    BY <1>0, <1>21 DEF OperatorRemovesLock, AllDown
  <1>22. CASE RotPrimary
    BY <1>0, <1>22 DEF RotPrimary, AllDown
  <1>23. CASE UNCHANGED vars
    BY <1>0, <1>23 DEF vars
  <1>24. QED
    BY <1>0, <1>1, <1>2, <1>3, <1>4, <1>5, <1>6, <1>7, <1>8, <1>9, <1>10,
       <1>11, <1>12, <1>13, <1>14, <1>15, <1>16, <1>17, <1>18, <1>19,
       <1>20, <1>21, <1>22, <1>23, ClientCases DEF Next, OpenStep,
       CommitStep, Environment

(* Seen through what open stores show, the file protocol with its crashes,   *)
(* power losses and retries is the atomic checkpoint its clients rely on.   *)
THEOREM Refinement ==
  ASSUME "rot" \notin Faults
  PROVE  Spec => ImplementsCheckpoint
  <1>1. Init => Checkpoint!Init
    BY DEF Init, Checkpoint!Init, Open, EmptyState, Checkpoint!EmptyState
  <1>2. Init => ScopeInv /\ InDoubt
    BY DEF Init, ScopeInv, InDoubt, Open, Publishing
  <1>3. QED
    BY <1>1, <1>2, CheckpointStep, ScopeStep, InDoubtStep, NothingAckedIsLost,
       Exclusive, TypeCorrect, PTL
    DEF Spec, ImplementsCheckpoint, Checkpoint!Spec

-----------------------------------------------------------------------------
(* What a client stages: the next generation, under the same scope.         *)

Successor(s, t) == t.generation = s.generation + 1 /\ t.scope = s.scope

LEMMA CandidatesSucceed ==
  ASSUME NEW s \in SyncStates
  PROVE  /\ \A i \in Ids : Successor(s, Observed(s, i)) /\ Successor(s, Tombstoned(s, i))
         /\ \A rows \in SUBSET Ids :
              Successor(s, Refreshed(s, rows)) /\ Successor(s, Resurrected(s, rows))
         /\ \A o \in OpIds, w \in Work : Successor(s, Enqueued(s, o, w))
         /\ \A o \in OpIds, rows \in SUBSET Ids : Successor(s, Applied(s, o, rows))
  <1>1. ASSUME NEW i \in Ids
        PROVE  Successor(s, Observed(s, i)) /\ Successor(s, Tombstoned(s, i))
    BY DEF Successor, Observed, Tombstoned, NextGeneration, SyncStates
  <1>2. ASSUME NEW t \in SyncStates, NEW rows \in SUBSET Ids PROVE Successor(t, Refreshed(t, rows))
    BY DEF Successor, Refreshed, NextGeneration, SyncStates
  <1>3. ASSUME NEW rows \in SUBSET Ids PROVE Successor(s, Resurrected(s, rows))
    <2>1. LET t == [s EXCEPT !.tombstones = @ \ rows]
          IN  t \in SyncStates /\ t.scope = s.scope /\ t.generation = s.generation
      BY DEF SyncStates
    <2>2. QED BY <1>2, <2>1 DEF Resurrected, Successor
  <1>4. ASSUME NEW o \in OpIds, NEW w \in Work PROVE Successor(s, Enqueued(s, o, w))
    BY DEF Successor, Enqueued, NextGeneration, SyncStates
  <1>5. ASSUME NEW o \in OpIds, NEW rows \in SUBSET Ids PROVE Successor(s, Applied(s, o, rows))
    BY DEF Successor, Applied, NextGeneration, SyncStates
  <1>6. QED BY <1>1, <1>2, <1>3, <1>4, <1>5

LEMMA ClientSucceeds ==
  ASSUME TypeOK, NEW p \in Procs, ClientStep(p)
  PROVE  \/ \E op \in Api, s \in SyncStates : Transaction(p, op, s) /\ Successor(mem[p], s)
         \/ ExportTo(p)
         \/ RestoreRename(p)
  <1> DEFINE Staged(s) == s \in SyncStates /\ Successor(mem[p], s)
  <1>1. mem[p] \in SyncStates
    BY DEF TypeOK
  <1>2. ASSUME NEW op, NEW s, Staged(s), Transaction(p, op, s)
        PROVE  \E o \in Api, t \in SyncStates : Transaction(p, o, t) /\ Successor(mem[p], t)
    BY <1>2 DEF Transaction
  <1>3. CASE \E i \in Ids : Observe(p, i) \/ RecordTombstone(p, i)
    <2>1. PICK i \in Ids : Observe(p, i) \/ RecordTombstone(p, i)
      BY <1>3
    <2>2. Staged(Observed(mem[p], i)) /\ Staged(Tombstoned(mem[p], i))
      BY <1>1, ObservedType, CandidatesSucceed
    <2>3. QED BY <1>2, <2>1, <2>2 DEF Observe, RecordTombstone
  <1>4. CASE \E rows \in SUBSET Ids :
               ReplaceObserved(p, rows) \/ ReplaceObservedExplicitResurrection(p, rows)
    <2>1. PICK rows \in SUBSET Ids :
            ReplaceObserved(p, rows) \/ ReplaceObservedExplicitResurrection(p, rows)
      BY <1>4
    <2>2. Staged(Refreshed(mem[p], rows)) /\ Staged(Resurrected(mem[p], rows))
      BY <1>1, RefreshedType, CandidatesSucceed
    <2>3. QED BY <1>2, <2>1, <2>2 DEF ReplaceObserved, ReplaceObservedExplicitResurrection
  <1>5. CASE \E o \in OpIds, w \in Work : Enqueue(p, o, w)
    <2>1. PICK o \in OpIds, w \in Work : Enqueue(p, o, w)
      BY <1>5
    <2>2. Staged(Enqueued(mem[p], o, w))
      BY <1>1, EnqueuedType, CandidatesSucceed
    <2>3. QED BY <1>2, <2>1, <2>2 DEF Enqueue
  <1>6. CASE \E o \in OpIds, rows \in SUBSET Ids : MarkApplied(p, o, rows)
    <2>1. PICK o \in OpIds, rows \in SUBSET Ids : MarkApplied(p, o, rows)
      BY <1>6
    <2>2. Staged(Applied(mem[p], o, rows))
      BY <1>1, AppliedType, CandidatesSucceed
    <2>3. QED BY <1>2, <2>1, <2>2 DEF MarkApplied
  <1>7. QED BY <1>3, <1>4, <1>5, <1>6 DEF ClientStep

LEMMA LoadedType ==
  ASSUME TypeOK, NEW p \in Procs
  PROVE  /\ Loaded(file) \in SyncStates
         /\ Bound(Loaded(file), ScopeOf[p]) \in SyncStates
         /\ Bound(Loaded(file), ScopeOf[p]).generation = Loaded(file).generation
  <1>1. Loaded(file) \in SyncStates
    BY EmptyStateType DEF TypeOK, Loaded, Readable
  <1>2. QED BY <1>1, BoundType, ScopeAssumption DEF Bound, SyncStates

-----------------------------------------------------------------------------
(* The two copies, of a checkpoint that is not hit by a power loss.  A store *)
(* that has not recovered from the backup has a readable primary, or there   *)
(* is no file at all; one that has still holds what the backup holds.  So    *)
(* truncating the backup never removes the last readable copy, and the       *)
(* backup that stands when the candidate is renamed is at least as new as    *)
(* the memory the candidate follows.                                        *)

CopiesOf(p) ==
  /\ Open(p) /\ ~recovered[p] =>
       \/ Readable(file.primary) /\ mem[p].generation <= file.primary.generation
       \/ file.primary = Absent /\ file.backup = Absent
  /\ Open(p) /\ recovered[p] =>
       Readable(file.backup) /\ mem[p].generation <= file.backup.generation
  /\ pc[p] \in {"copying", "copied"} => ~recovered[p] /\ Readable(file.primary)
  /\ pc[p] \in {"copied", "ready"} /\ Readable(file.backup) =>
       mem[p].generation <= file.backup.generation
  /\ pc[p] = "copied" => Readable(file.backup)
  /\ pc[p] \in {"staged", "copying", "copied", "ready", "renamed"} =>
       cand[p].generation = mem[p].generation + 1
  /\ pc[p] = "renamed" => file.primary = cand[p]
  /\ pc[p] # "restoring"

Copies ==
  /\ SomeCopyReadable
  /\ BackupTrails
  /\ \A p \in Procs : CopiesOf(p)

LEMMA DownCopies ==
  ASSUME NEW p \in Procs, pc[p] = "down"
  PROVE  CopiesOf(p)
  BY DEF CopiesOf, Open

(* Only the process that takes the step is up.                              *)
LEMMA OthersDown ==
  ASSUME TypeOK, ExclusiveWriter, NEW p \in Procs, Live(p),
         NEW to, pc' = [pc EXCEPT ![p] = to], CopiesOf(p)'
  PROVE  \A q \in Procs : CopiesOf(q)'
  <1>1. ASSUME NEW q \in Procs, q # p PROVE CopiesOf(q)'
    <2>1. pc'[q] = "down"
      BY <1>1 DEF TypeOK, ExclusiveWriter, Live
    <2>2. QED BY <2>1 DEF CopiesOf, Open
  <1>2. QED BY <1>1

LEMMA CopiesStep ==
  ASSUME "power" \notin Faults, "restore" \notin Api
  PROVE  TypeOK /\ ExclusiveWriter /\ Copies /\ [Next]_vars => Copies'
  <1> SUFFICES ASSUME TypeOK, ExclusiveWriter, Copies, [Next]_vars PROVE Copies'
    OBVIOUS
  <1> USE FileAssumption DEF files, process, ghosts, TypeOK, Files, Contents, PCs,
              ExclusiveWriter, Live, Open, Copies, CopiesOf, SomeCopyReadable,
              BackupTrails, Unreadable
  <1>0. TypeOK /\ ExclusiveWriter /\ Copies /\ "power" \notin Faults /\ "restore" \notin Api
    OBVIOUS
  <1>G. /\ \A s \in SyncStates : s.generation \in Nat /\ Readable(s)
        /\ ~Readable(Absent) /\ ~Readable(Torn)
    BY DEF SyncStates, Readable
  <1>1. ASSUME NEW p \in Procs, AcquireLock(p) PROVE Copies'
    BY <1>0, <1>1 DEF AcquireLock, Goto
  <1>2. ASSUME NEW p \in Procs, LockModeFails(p) PROVE Copies'
    BY <1>0, <1>2 DEF LockModeFails, Goto
  <1>3. ASSUME NEW p \in Procs, Load(p) PROVE Copies'
    <2>1. /\ mem'[p] \in SyncStates /\ mem'[p].generation = Loaded(file).generation
          /\ pc'[p] = "idle" /\ (recovered'[p] <=> FromBackup(file)) /\ file' = file
          /\ ~Unreadable(file)
      BY <1>0, <1>3, LoadedType DEF Load, Goto, FromBackup
    <2>2. SomeCopyReadable' /\ BackupTrails'
      BY <1>0, <1>3 DEF Load
    <2>3. CopiesOf(p)'
      <3>1. CASE Readable(file.primary)
        <4>1. ~recovered'[p] /\ mem'[p].generation = file.primary.generation
          BY <2>1, <3>1 DEF FromBackup, Loaded
        <4>2. QED BY <1>G, <2>1, <3>1, <4>1 DEF Readable
      <3>2. CASE ~Readable(file.primary) /\ Readable(file.backup)
        <4>1. recovered'[p] /\ mem'[p].generation = file.backup.generation
          BY <2>1, <3>2 DEF FromBackup, Loaded
        <4>2. QED BY <1>G, <2>1, <3>2, <4>1 DEF Readable
      <3>3. CASE ~Readable(file.primary) /\ ~Readable(file.backup)
        <4>1. ~recovered'[p] /\ file.primary = Absent /\ file.backup = Absent
          BY <2>1, <3>3 DEF FromBackup
        <4>2. QED BY <2>1, <4>1
      <3>4. QED BY <3>1, <3>2, <3>3
    <2>4. Live(p) /\ pc' = [pc EXCEPT ![p] = "idle"]
      BY <1>0, <1>3 DEF Load, Goto
    <2>5. QED BY <1>0, <2>2, <2>3, <2>4, OthersDown
  <1>4. ASSUME NEW p \in Procs, LoadFails(p) PROVE Copies'
    BY <1>0, <1>4 DEF LoadFails, Goto
  <1>5. ASSUME NEW p \in Procs, Close(p) PROVE Copies'
    BY <1>0, <1>5 DEF Close, Forget
  <1>6. ASSUME NEW p \in Procs, NEW op \in Api, NEW s \in SyncStates,
                 Transaction(p, op, s), Successor(mem[p], s) PROVE Copies'
    <2>1. CopiesOf(p)'
      BY <1>0, <1>G, <1>6 DEF Transaction, Goto, Successor
    <2>2. Live(p) /\ pc' = [pc EXCEPT ![p] = "staged"] /\ file' = file /\ hopeless' = hopeless
      BY <1>0, <1>6 DEF Transaction, Goto
    <2>3. QED BY <1>0, <2>1, <2>2, OthersDown
  <1>7. ASSUME NEW p \in Procs, ExportTo(p) PROVE Copies'
    BY <1>0, <1>7 DEF ExportTo
  <1>8. ASSUME NEW p \in Procs, RestoreRename(p) PROVE Copies'
    BY <1>0, <1>8 DEF RestoreRename, Goto
  <1>9. ASSUME NEW p \in Procs, StartBackup(p) PROVE Copies'
    <2>1. file'.primary = file.primary /\ file'.backup = Torn /\ Readable(file.primary)
      BY <1>0, <1>9 DEF StartBackup, NeedsBackup, Goto
    <2>2. SomeCopyReadable' /\ BackupTrails'
      BY <1>0, <1>G, <1>9, <2>1 DEF StartBackup, NeedsBackup, Goto
    <2>3. CopiesOf(p)'
      BY <1>0, <1>G, <1>9, <2>1 DEF StartBackup, NeedsBackup, Goto
    <2>4. Live(p) /\ pc' = [pc EXCEPT ![p] = pc'[p]]
      BY <1>0, <1>9 DEF StartBackup, NeedsBackup, Goto
    <2>5. QED BY <1>0, <2>2, <2>3, <2>4, OthersDown
  <1>10. ASSUME NEW p \in Procs, FinishBackup(p) PROVE Copies'
    <2>1. file'.primary = file.primary /\ file'.backup = file.primary
      BY <1>0, <1>10 DEF FinishBackup, Goto
    <2>2. SomeCopyReadable' /\ BackupTrails'
      BY <1>0, <1>G, <1>10, <2>1 DEF FinishBackup, Goto
    <2>3. CopiesOf(p)'
      BY <1>0, <1>G, <1>10, <2>1 DEF FinishBackup, Goto
    <2>4. Live(p) /\ pc' = [pc EXCEPT ![p] = pc'[p]]
      BY <1>0, <1>10 DEF FinishBackup, Goto
    <2>5. QED BY <1>0, <2>2, <2>3, <2>4, OthersDown
  <1>11. ASSUME NEW p \in Procs, SyncBackup(p) PROVE Copies'
    BY <1>0, <1>11 DEF SyncBackup, Goto
  <1>12. ASSUME NEW p \in Procs, SkipBackup(p) PROVE Copies'
    <2>1. file' = file /\ (file.primary = Absent \/ recovered[p])
      BY <1>0, <1>12 DEF SkipBackup, NeedsBackup, Goto
    <2>2. SomeCopyReadable' /\ BackupTrails'
      BY <1>0, <1>G, <1>12, <2>1 DEF SkipBackup, NeedsBackup, Goto
    <2>3. CopiesOf(p)'
      BY <1>0, <1>G, <1>12, <2>1 DEF SkipBackup, NeedsBackup, Goto
    <2>4. Live(p) /\ pc' = [pc EXCEPT ![p] = pc'[p]]
      BY <1>0, <1>12 DEF SkipBackup, NeedsBackup, Goto
    <2>5. QED BY <1>0, <2>2, <2>3, <2>4, OthersDown
  <1>13. ASSUME NEW p \in Procs, Rename(p) PROVE Copies'
    <2>1. /\ file'.primary = cand[p] /\ file'.backup = file.backup
          /\ cand[p] \in SyncStates /\ mem[p] \in SyncStates
      BY <1>0, <1>13 DEF Rename, Goto
    <2>2. SomeCopyReadable' /\ BackupTrails'
      BY <1>0, <1>G, <1>13, <2>1 DEF Rename, Goto
    <2>3. CopiesOf(p)'
      BY <1>0, <1>G, <1>13, <2>1 DEF Rename, Goto
    <2>4. Live(p) /\ pc' = [pc EXCEPT ![p] = pc'[p]]
      BY <1>0, <1>13 DEF Rename, Goto
    <2>5. QED BY <1>0, <2>2, <2>3, <2>4, OthersDown
  <1>14. ASSUME NEW p \in Procs, SyncDirectory(p) PROVE Copies'
    <2>1. /\ file' = file /\ file.primary = cand[p] /\ mem'[p] = cand[p]
          /\ cand[p] \in SyncStates /\ recovered'[p] = FALSE
      BY <1>0, <1>14 DEF SyncDirectory, Publish, Goto
    <2>2. SomeCopyReadable' /\ BackupTrails'
      BY <1>0, <1>G, <1>14, <2>1 DEF SyncDirectory, Publish, Goto
    <2>3. CopiesOf(p)'
      BY <1>0, <1>G, <1>14, <2>1 DEF SyncDirectory, Publish, Goto
    <2>4. Live(p) /\ pc' = [pc EXCEPT ![p] = pc'[p]]
      BY <1>0, <1>14 DEF SyncDirectory, Publish, Goto
    <2>5. QED BY <1>0, <2>2, <2>3, <2>4, OthersDown
  <1>15. ASSUME NEW p \in Procs, RestoreSync(p) PROVE Copies'
    BY <1>0, <1>15 DEF RestoreSync, Publish, Goto
  <1>16. ASSUME NEW p \in Procs, CommitFails(p) PROVE Copies'
    BY <1>0, <1>16 DEF CommitFails, Abandon
  <1>17. ASSUME NEW p \in Procs, RestoreFails(p) PROVE Copies'
    BY <1>0, <1>17 DEF RestoreFails, Abandon
  <1>18. ASSUME NEW p \in Procs, Kill(p) PROVE Copies'
    BY <1>0, <1>18 DEF Kill, Forget
  <1>19. ASSUME NEW which \in {"primary", "backup"}, Writeback(which) PROVE Copies'
    BY <1>0, <1>19 DEF Writeback
  <1>20. CASE PowerLoss
    BY <1>0, <1>20 DEF PowerLoss
  <1>21. CASE OperatorRemovesLock
    BY <1>0, <1>21 DEF OperatorRemovesLock, AllDown
  <1>22. CASE RotPrimary
    <2>1. /\ file'.primary = Torn /\ file'.backup = file.backup /\ pc' = pc
          /\ hopeless' = (hopeless \/ ~Readable(file.backup))
          /\ \A p \in Procs : pc[p] = "down"
      BY <1>0, <1>22 DEF RotPrimary, AllDown
    <2>2. SomeCopyReadable' /\ BackupTrails'
      BY <1>0, <1>G, <2>1 DEF Readable
    <2>3. QED BY <2>1, <2>2
  <1>23. CASE UNCHANGED vars
    BY <1>0, <1>23 DEF vars
  <1>24. QED
    BY <1>0, <1>1, <1>2, <1>3, <1>4, <1>5, <1>6, <1>7, <1>8, <1>9, <1>10,
       <1>11, <1>12, <1>13, <1>14, <1>15, <1>16, <1>17, <1>18, <1>19,
       <1>20, <1>21, <1>22, <1>23, ClientSucceeds DEF Next, OpenStep,
       CommitStep, Environment

LEMMA CopiesAlways ==
  ASSUME "power" \notin Faults, "restore" \notin Api
  PROVE  Spec => []Copies
  <1>1. Init => Copies
    BY FileAssumption
    DEF Init, Copies, CopiesOf, SomeCopyReadable, BackupTrails, Unreadable, Readable, Open
  <1>2. QED BY <1>1, CopiesStep, Exclusive, TypeCorrect, PTL DEF Spec

(* SomeCopyReadable, of a checkpoint that is neither restored nor hit by a   *)
(* power loss: whichever file operation of a commit fails or is the last one *)
(* before a kill, recovered_from_backup keeps the only good copy.            *)
THEOREM OneCopyStaysReadable ==
  ASSUME "power" \notin Faults, "restore" \notin Api
  PROVE  Spec => []SomeCopyReadable
  <1>1. Copies => SomeCopyReadable
    BY DEF Copies
  <1>2. QED BY <1>1, CopiesAlways, PTL

(* BackupTrails, of the same checkpoint: the backup is at most one           *)
(* generation behind the primary, so that losing the primary loses one       *)
(* acknowledged state and not several.                                       *)
THEOREM BackupIsOneBehind ==
  ASSUME "power" \notin Faults, "restore" \notin Api
  PROVE  Spec => []BackupTrails
  <1>1. Copies => BackupTrails
    BY DEF Copies
  <1>2. QED BY <1>1, CopiesAlways, PTL

-----------------------------------------------------------------------------
(* Acknowledged generations.  A state in doubt, and a candidate, are newer   *)
(* than the acknowledged one, and no open store is behind it.                *)

NewerOf(p) ==
  /\ Open(p) => mem[p].generation >= acked.generation
  /\ pc[p] \in Publishing => cand[p].generation > acked.generation
  /\ pc[p] # "restoring"

Newer ==
  /\ \A s \in doubtful : s.generation > acked.generation
  /\ \A p \in Procs : NewerOf(p)

LEMMA NewerStep ==
  ASSUME "restore" \notin Api
  PROVE  TypeOK /\ ExclusiveWriter /\ NoLostAck /\ Newer /\ [Next]_vars
         => Newer' /\ (acked' = acked \/ acked'.generation > acked.generation)
  <1> DEFINE Grows == Newer' /\ (acked' = acked \/ acked'.generation > acked.generation)
  <1> SUFFICES ASSUME TypeOK, ExclusiveWriter, NoLostAck, Newer, [Next]_vars PROVE Grows
    OBVIOUS
  <1> USE DEF files, process, ghosts, TypeOK, PCs, ExclusiveWriter, Live, Open,
              Publishing, Newer, NewerOf
  <1>0. TypeOK /\ ExclusiveWriter /\ Newer /\ "restore" \notin Api
    OBVIOUS
  <1>G. \A s \in SyncStates : s.generation \in Nat
    BY DEF SyncStates
  <1>1. ASSUME NEW p \in Procs, AcquireLock(p) PROVE Grows
    BY <1>0, <1>1 DEF AcquireLock, Goto
  <1>2. ASSUME NEW p \in Procs, LockModeFails(p) PROVE Grows
    BY <1>0, <1>2 DEF LockModeFails, Goto
  <1>3. ASSUME NEW p \in Procs, Load(p) PROVE Grows
    <2>1. Loaded(file) \in {acked} \cup doubtful
      BY DEF NoLostAck
    <2>2. mem'[p].generation = Loaded(file).generation /\ pc'[p] = "idle"
      BY <1>0, <1>3, LoadedType DEF Load, Goto
    <2>3. Loaded(file).generation >= acked.generation
      BY <1>0, <1>G, <2>1
    <2>4. NewerOf(p)'
      BY <1>0, <1>3, <2>2, <2>3 DEF Load, Goto
    <2>5. \A q \in Procs : NewerOf(q)'
      BY <1>0, <1>3, <2>4 DEF Load, Goto
    <2>6. QED BY <1>0, <1>3, <2>5 DEF Load
  <1>4. ASSUME NEW p \in Procs, LoadFails(p) PROVE Grows
    BY <1>0, <1>4 DEF LoadFails, Goto
  <1>5. ASSUME NEW p \in Procs, Close(p) PROVE Grows
    BY <1>0, <1>5 DEF Close, Forget
  <1>6. ASSUME NEW p \in Procs, NEW op \in Api, NEW s \in SyncStates,
                 Transaction(p, op, s), Successor(mem[p], s) PROVE Grows
    BY <1>0, <1>G, <1>6 DEF Transaction, Goto, Successor
  <1>7. ASSUME NEW p \in Procs, ExportTo(p) PROVE Grows
    BY <1>0, <1>7 DEF ExportTo
  <1>8. ASSUME NEW p \in Procs, RestoreRename(p) PROVE Grows
    BY <1>0, <1>8 DEF RestoreRename, Goto
  <1>9. ASSUME NEW p \in Procs, StartBackup(p) PROVE Grows
    BY <1>0, <1>9 DEF StartBackup, NeedsBackup, Goto
  <1>10. ASSUME NEW p \in Procs, FinishBackup(p) PROVE Grows
    BY <1>0, <1>10 DEF FinishBackup, Goto
  <1>11. ASSUME NEW p \in Procs, SyncBackup(p) PROVE Grows
    BY <1>0, <1>11 DEF SyncBackup, Goto
  <1>12. ASSUME NEW p \in Procs, SkipBackup(p) PROVE Grows
    BY <1>0, <1>12 DEF SkipBackup, NeedsBackup, Goto
  <1>13. ASSUME NEW p \in Procs, Rename(p) PROVE Grows
    BY <1>0, <1>G, <1>13 DEF Rename, Goto
  <1>14. ASSUME NEW p \in Procs, SyncDirectory(p) PROVE Grows
    BY <1>0, <1>G, <1>14 DEF SyncDirectory, Publish, Goto
  <1>15. ASSUME NEW p \in Procs, RestoreSync(p) PROVE Grows
    BY <1>0, <1>15 DEF RestoreSync, Publish, Goto
  <1>16. ASSUME NEW p \in Procs, CommitFails(p) PROVE Grows
    BY <1>0, <1>16 DEF CommitFails, Abandon
  <1>17. ASSUME NEW p \in Procs, RestoreFails(p) PROVE Grows
    BY <1>0, <1>17 DEF RestoreFails, Abandon
  <1>18. ASSUME NEW p \in Procs, Kill(p) PROVE Grows
    BY <1>0, <1>18 DEF Kill, Forget
  <1>19. ASSUME NEW which \in {"primary", "backup"}, Writeback(which) PROVE Grows
    BY <1>0, <1>19 DEF Writeback
  <1>20. CASE PowerLoss
    BY <1>0, <1>20 DEF PowerLoss
  <1>21. CASE OperatorRemovesLock
    BY <1>0, <1>21 DEF OperatorRemovesLock, AllDown
  <1>22. CASE RotPrimary
    BY <1>0, <1>22 DEF RotPrimary, AllDown
  <1>23. CASE UNCHANGED vars
    BY <1>0, <1>23 DEF vars
  <1>24. QED
    BY <1>0, <1>1, <1>2, <1>3, <1>4, <1>5, <1>6, <1>7, <1>8, <1>9, <1>10,
       <1>11, <1>12, <1>13, <1>14, <1>15, <1>16, <1>17, <1>18, <1>19,
       <1>20, <1>21, <1>22, <1>23, ClientSucceeds DEF Next, OpenStep,
       CommitStep, Environment

(* AckedAdvances: of a store that is not restored and whose primary does not *)
(* rot, every acknowledged state is newer than the one before it.            *)
THEOREM AckedGenerationsGrow ==
  ASSUME "rot" \notin Faults, "restore" \notin Api
  PROVE  Spec => AckedAdvances
  <1>1. Init => Newer
    BY DEF Init, Newer, NewerOf, Open, Publishing
  <1>2. Newer' /\ (acked' = acked \/ acked'.generation > acked.generation)
          => Newer' /\ [acked'.generation > acked.generation]_acked
    OBVIOUS
  <1>3. QED BY <1>1, <1>2, NewerStep, NothingAckedIsLost, Exclusive, TypeCorrect, PTL
            DEF Spec, AckedAdvances

-----------------------------------------------------------------------------
(* Scopes on the path.  What an open store finds on its path belongs to its  *)
(* scope, if it records anything.                                            *)

OnPath(p) ==
  Open(p) /\ Readable(file.primary) /\ file.primary.generation # 0
    => file.primary.scope = mem[p].scope

PathScoped == \A p \in Procs : OnPath(p)

KeepsScope ==
  Readable(file.primary) /\ Readable(file'.primary) /\ file.primary.generation # 0
    => file'.primary.scope = file.primary.scope

LEMMA PathStep ==
  ASSUME "power" \notin Faults
  PROVE  TypeOK /\ ExclusiveWriter /\ ScopeInv /\ PathScoped /\ [Next]_vars
         => PathScoped' /\ KeepsScope
  <1> DEFINE Keeps == PathScoped' /\ KeepsScope
  <1> SUFFICES ASSUME TypeOK, ExclusiveWriter, ScopeInv, PathScoped, [Next]_vars PROVE Keeps
    OBVIOUS
  <1> USE FileAssumption DEF files, process, ghosts, TypeOK, Files, Contents, PCs,
              ExclusiveWriter, Live, Open, Publishing, ScopeInv, PathScoped, OnPath, KeepsScope
  <1>0. TypeOK /\ ExclusiveWriter /\ ScopeInv /\ PathScoped /\ "power" \notin Faults
    OBVIOUS
  <1>1. ASSUME NEW p \in Procs, AcquireLock(p) PROVE Keeps
    BY <1>0, <1>1 DEF AcquireLock, Goto
  <1>2. ASSUME NEW p \in Procs, LockModeFails(p) PROVE Keeps
    BY <1>0, <1>2 DEF LockModeFails, Goto
  <1>3. ASSUME NEW p \in Procs, Load(p) PROVE Keeps
    <2>1. Loaded(file) \in SyncStates
      BY LoadedType
    <2>2. Readable(file.primary) => Loaded(file) = file.primary
      BY DEF Loaded
    <2>3. mem'[p].scope = ScopeOf[p] /\ file' = file
      BY <1>0, <1>3, <2>1 DEF Load, Goto, Bound, Bindable, SyncStates
    <2>4. Readable(file.primary) /\ file.primary.generation # 0 => file.primary.scope = ScopeOf[p]
      BY <1>3, <2>1, <2>2 DEF Load, Bindable, HoldsHistory
    <2>5. OnPath(p)'
      BY <2>3, <2>4
    <2>6. \A q \in Procs : OnPath(q)'
      BY <1>0, <1>3, <2>5 DEF Load, Goto
    <2>7. QED BY <2>3, <2>6
  <1>4. ASSUME NEW p \in Procs, LoadFails(p) PROVE Keeps
    BY <1>0, <1>4 DEF LoadFails, Goto
  <1>5. ASSUME NEW p \in Procs, Close(p) PROVE Keeps
    BY <1>0, <1>5 DEF Close, Forget
  <1>6. ASSUME NEW p \in Procs, NEW op \in Api, NEW s \in SyncStates,
                 Transaction(p, op, s), Successor(mem[p], s) PROVE Keeps
    BY <1>0, <1>6 DEF Transaction, Goto
  <1>7. ASSUME NEW p \in Procs, ExportTo(p) PROVE Keeps
    BY <1>0, <1>7 DEF ExportTo
  <1>8. ASSUME NEW p \in Procs, RestoreRename(p) PROVE Keeps
    BY <1>0, <1>8 DEF RestoreRename, Goto
  <1>9. ASSUME NEW p \in Procs, StartBackup(p) PROVE Keeps
    BY <1>0, <1>9 DEF StartBackup, NeedsBackup, Goto
  <1>10. ASSUME NEW p \in Procs, FinishBackup(p) PROVE Keeps
    BY <1>0, <1>10 DEF FinishBackup, Goto
  <1>11. ASSUME NEW p \in Procs, SyncBackup(p) PROVE Keeps
    BY <1>0, <1>11 DEF SyncBackup, Goto
  <1>12. ASSUME NEW p \in Procs, SkipBackup(p) PROVE Keeps
    BY <1>0, <1>12 DEF SkipBackup, NeedsBackup, Goto
  <1>13. ASSUME NEW p \in Procs, Rename(p) PROVE Keeps
    BY <1>0, <1>13 DEF Rename, Goto
  <1>14. ASSUME NEW p \in Procs, SyncDirectory(p) PROVE Keeps
    BY <1>0, <1>14 DEF SyncDirectory, Publish, Goto
  <1>15. ASSUME NEW p \in Procs, RestoreSync(p) PROVE Keeps
    BY <1>0, <1>15 DEF RestoreSync, Publish, Goto
  <1>16. ASSUME NEW p \in Procs, CommitFails(p) PROVE Keeps
    BY <1>0, <1>16 DEF CommitFails, Abandon
  <1>17. ASSUME NEW p \in Procs, RestoreFails(p) PROVE Keeps
    BY <1>0, <1>17 DEF RestoreFails, Abandon
  <1>18. ASSUME NEW p \in Procs, Kill(p) PROVE Keeps
    BY <1>0, <1>18 DEF Kill, Forget
  <1>19. ASSUME NEW which \in {"primary", "backup"}, Writeback(which) PROVE Keeps
    BY <1>0, <1>19 DEF Writeback
  <1>20. CASE PowerLoss
    BY <1>0, <1>20 DEF PowerLoss
  <1>21. CASE OperatorRemovesLock
    BY <1>0, <1>21 DEF OperatorRemovesLock, AllDown
  <1>22. CASE RotPrimary
    <2>1. file'.primary = Torn /\ ~Readable(Torn)
      BY <1>0, <1>22 DEF RotPrimary, Readable
    <2>2. QED BY <2>1
  <1>23. CASE UNCHANGED vars
    BY <1>0, <1>23 DEF vars
  <1>24. QED
    BY <1>0, <1>1, <1>2, <1>3, <1>4, <1>5, <1>6, <1>7, <1>8, <1>9, <1>10,
       <1>11, <1>12, <1>13, <1>14, <1>15, <1>16, <1>17, <1>18, <1>19,
       <1>20, <1>21, <1>22, <1>23, ClientSucceeds DEF Next, OpenStep,
       CommitStep, Environment

(* ScopeKept: without a power loss, a checkpoint with history never passes   *)
(* from one binding scope to another, through opens, restores or rot.        *)
THEOREM HistoryKeepsItsScope ==
  ASSUME "power" \notin Faults
  PROVE  Spec => ScopeKept
  <1>1. Init => ScopeInv /\ PathScoped
    BY DEF Init, ScopeInv, PathScoped, OnPath, Open, Publishing
  <1>2. PathScoped' /\ KeepsScope => PathScoped' /\ [KeepsScope]_file
    OBVIOUS
  <1>3. QED BY <1>1, <1>2, PathStep, ScopeStep, Exclusive, TypeCorrect, PTL
            DEF Spec, ScopeKept, KeepsScope

-----------------------------------------------------------------------------
(* Tombstones.  Every state there is, in a file, a memory, a candidate or an *)
(* artifact, keeps its observed and its deleted identities apart.            *)

Apart(s) == s.observed \cap s.tombstones = {}

ApartIfReadable(c) == Readable(c) => Apart(c)

Separated ==
  /\ ApartIfReadable(file.primary) /\ ApartIfReadable(file.backup)
  /\ ApartIfReadable(disk.primary) /\ ApartIfReadable(disk.backup)
  /\ ApartIfReadable(artifact)
  /\ \A p \in Procs : Apart(mem[p]) /\ Apart(cand[p])

LEMMA CandidatesApart ==
  ASSUME NEW s \in SyncStates, Apart(s)
  PROVE  /\ \A i \in Ids : Apart(Tombstoned(s, i))
         /\ \A rows \in SUBSET Ids :
              /\ ~RefreshBlocked(s, rows) => Apart(Refreshed(s, rows))
              /\ Apart(Resurrected(s, rows))
         /\ \A o \in OpIds, w \in Work : Apart(Enqueued(s, o, w))
  <1>1. ASSUME NEW i \in Ids PROVE Apart(Tombstoned(s, i))
    BY DEF Apart, Tombstoned, NextGeneration, SyncStates
  <1>2. ASSUME NEW t \in SyncStates, NEW rows \in SUBSET Ids
        PROVE  /\ Refreshed(t, rows).observed = rows
               /\ Refreshed(t, rows).tombstones = t.tombstones \cup (t.observed \ rows)
    BY DEF Refreshed, NextGeneration, SyncStates
  <1>3. ASSUME NEW rows \in SUBSET Ids, ~RefreshBlocked(s, rows) PROVE Apart(Refreshed(s, rows))
    BY <1>2, <1>3 DEF Apart, RefreshBlocked
  <1>4. ASSUME NEW rows \in SUBSET Ids PROVE Apart(Resurrected(s, rows))
    <2> DEFINE t == [s EXCEPT !.tombstones = @ \ rows]
    <2>1. t \in SyncStates /\ t.tombstones \cap rows = {}
      BY DEF SyncStates
    <2> HIDE DEF t
    <2>2. Apart(Refreshed(t, rows))
      BY <1>2, <2>1 DEF Apart
    <2>3. QED BY <2>2 DEF Resurrected, t
  <1>5. ASSUME NEW o \in OpIds, NEW w \in Work PROVE Apart(Enqueued(s, o, w))
    BY DEF Apart, Enqueued, NextGeneration, SyncStates
  <1>6. QED BY <1>1, <1>3, <1>4, <1>5

LEMMA ClientApart ==
  ASSUME TypeOK, Separated, Api \cap {"observe", "applied"} = {}, NEW p \in Procs, ClientStep(p)
  PROVE  \/ \E op \in Api, s \in SyncStates : Transaction(p, op, s) /\ Apart(s)
         \/ ExportTo(p)
         \/ RestoreRename(p)
  <1>1. mem[p] \in SyncStates /\ Apart(mem[p])
    BY DEF TypeOK, Separated
  <1>2. ASSUME NEW op, NEW s \in SyncStates, Apart(s), Transaction(p, op, s)
        PROVE  \E o \in Api, t \in SyncStates : Transaction(p, o, t) /\ Apart(t)
    BY <1>2 DEF Transaction
  <1>3. ASSUME NEW i \in Ids, Observe(p, i) \/ RecordTombstone(p, i)
        PROVE  \E o \in Api, t \in SyncStates : Transaction(p, o, t) /\ Apart(t)
    <2>1. Tombstoned(mem[p], i) \in SyncStates /\ Apart(Tombstoned(mem[p], i))
      BY <1>1, ObservedType, CandidatesApart
    <2>2. ~ Observe(p, i)
      BY DEF Observe, Transaction
    <2>3. QED BY <1>2, <1>3, <2>1, <2>2 DEF RecordTombstone
  <1>4. ASSUME NEW rows \in SUBSET Ids,
               ReplaceObserved(p, rows) \/ ReplaceObservedExplicitResurrection(p, rows)
        PROVE  \E o \in Api, t \in SyncStates : Transaction(p, o, t) /\ Apart(t)
    <2>1. Refreshed(mem[p], rows) \in SyncStates /\ Resurrected(mem[p], rows) \in SyncStates
      BY <1>1, RefreshedType
    <2>2. CASE ReplaceObserved(p, rows)
      <3>1. Apart(Refreshed(mem[p], rows))
        BY <1>1, <2>2, CandidatesApart DEF ReplaceObserved
      <3>2. QED BY <1>2, <2>1, <2>2, <3>1 DEF ReplaceObserved
    <2>3. CASE ReplaceObservedExplicitResurrection(p, rows)
      <3>1. Apart(Resurrected(mem[p], rows))
        BY <1>1, CandidatesApart
      <3>2. QED BY <1>2, <2>1, <2>3, <3>1 DEF ReplaceObservedExplicitResurrection
    <2>4. QED BY <1>4, <2>2, <2>3
  <1>5. ASSUME NEW o \in OpIds, NEW w \in Work, Enqueue(p, o, w)
        PROVE  \E op \in Api, t \in SyncStates : Transaction(p, op, t) /\ Apart(t)
    <2>1. Enqueued(mem[p], o, w) \in SyncStates /\ Apart(Enqueued(mem[p], o, w))
      BY <1>1, EnqueuedType, CandidatesApart
    <2>2. QED BY <1>2, <1>5, <2>1 DEF Enqueue
  <1>6. \A o \in OpIds, rows \in SUBSET Ids : ~ MarkApplied(p, o, rows)
    BY DEF MarkApplied, Transaction
  <1>7. QED BY <1>3, <1>4, <1>5, <1>6 DEF ClientStep

LEMMA SeparatedStep ==
  ASSUME Api \cap {"observe", "applied"} = {}
  PROVE  TypeOK /\ Separated /\ [Next]_vars => Separated'
  <1> SUFFICES ASSUME TypeOK, Separated, [Next]_vars PROVE Separated'
    OBVIOUS
  <1> USE FileAssumption DEF files, process, ghosts, TypeOK, Files, Contents, PCs, Separated
  <1>0. TypeOK /\ Separated /\ Api \cap {"observe", "applied"} = {}
    OBVIOUS
  <1>G. Apart(EmptyState) /\ ApartIfReadable(Torn) /\ ApartIfReadable(Absent)
        /\ \A s : Apart(s) => ApartIfReadable(s)
    BY DEF Apart, EmptyState, ApartIfReadable, Readable
  <1>1. ASSUME NEW p \in Procs, AcquireLock(p) PROVE Separated'
    BY <1>0, <1>G, <1>1 DEF AcquireLock, Goto
  <1>2. ASSUME NEW p \in Procs, LockModeFails(p) PROVE Separated'
    BY <1>0, <1>G, <1>2 DEF LockModeFails, Goto
  <1>3. ASSUME NEW p \in Procs, Load(p) PROVE Separated'
    <2>1. Apart(Loaded(file)) /\ Loaded(file) \in SyncStates
      BY <1>0, <1>G, LoadedType DEF Loaded, ApartIfReadable
    <2>2. Apart(Bound(Loaded(file), ScopeOf[p]))
      BY <2>1 DEF Bound, Apart, SyncStates
    <2>3. QED BY <1>0, <1>3, <2>2 DEF Load
  <1>4. ASSUME NEW p \in Procs, LoadFails(p) PROVE Separated'
    BY <1>0, <1>G, <1>4 DEF LoadFails, Goto
  <1>5. ASSUME NEW p \in Procs, Close(p) PROVE Separated'
    BY <1>0, <1>G, <1>5 DEF Close, Forget
  <1>6. ASSUME NEW p \in Procs, NEW op \in Api, NEW s \in SyncStates,
                 Transaction(p, op, s), Apart(s) PROVE Separated'
    BY <1>0, <1>6 DEF Transaction, Goto
  <1>7. ASSUME NEW p \in Procs, ExportTo(p) PROVE Separated'
    BY <1>0, <1>G, <1>7 DEF ExportTo
  <1>8. ASSUME NEW p \in Procs, RestoreRename(p) PROVE Separated'
    <2>1. Apart(artifact)
      BY <1>0, <1>8 DEF RestoreRename, ApartIfReadable, Readable
    <2>2. QED BY <1>0, <1>G, <1>8, <2>1 DEF RestoreRename, Goto
  <1>9. ASSUME NEW p \in Procs, StartBackup(p) PROVE Separated'
    BY <1>0, <1>G, <1>9 DEF StartBackup, NeedsBackup, Goto
  <1>10. ASSUME NEW p \in Procs, FinishBackup(p) PROVE Separated'
    BY <1>0, <1>G, <1>10 DEF FinishBackup, Goto
  <1>11. ASSUME NEW p \in Procs, SyncBackup(p) PROVE Separated'
    BY <1>0, <1>G, <1>11 DEF SyncBackup, Goto
  <1>12. ASSUME NEW p \in Procs, SkipBackup(p) PROVE Separated'
    BY <1>0, <1>G, <1>12 DEF SkipBackup, NeedsBackup, Goto
  <1>13. ASSUME NEW p \in Procs, Rename(p) PROVE Separated'
    BY <1>0, <1>G, <1>13 DEF Rename, Goto
  <1>14. ASSUME NEW p \in Procs, SyncDirectory(p) PROVE Separated'
    BY <1>0, <1>G, <1>14 DEF SyncDirectory, Publish, Goto
  <1>15. ASSUME NEW p \in Procs, RestoreSync(p) PROVE Separated'
    BY <1>0, <1>G, <1>15 DEF RestoreSync, Publish, Goto
  <1>16. ASSUME NEW p \in Procs, CommitFails(p) PROVE Separated'
    BY <1>0, <1>G, <1>16 DEF CommitFails, Abandon
  <1>17. ASSUME NEW p \in Procs, RestoreFails(p) PROVE Separated'
    BY <1>0, <1>G, <1>17 DEF RestoreFails, Abandon
  <1>18. ASSUME NEW p \in Procs, Kill(p) PROVE Separated'
    BY <1>0, <1>G, <1>18 DEF Kill, Forget
  <1>19. ASSUME NEW which \in {"primary", "backup"}, Writeback(which) PROVE Separated'
    <2>1. CASE which = "primary"
      BY <1>0, <1>19, <2>1 DEF Writeback
    <2>2. CASE which = "backup"
      BY <1>0, <1>19, <2>2 DEF Writeback
    <2>3. QED BY <2>1, <2>2
  <1>20. CASE PowerLoss
    BY <1>0, <1>G, <1>20 DEF PowerLoss
  <1>21. CASE OperatorRemovesLock
    BY <1>0, <1>G, <1>21 DEF OperatorRemovesLock, AllDown
  <1>22. CASE RotPrimary
    BY <1>0, <1>G, <1>22 DEF RotPrimary, AllDown
  <1>23. CASE UNCHANGED vars
    BY <1>0, <1>G, <1>23 DEF vars
  <1>24. QED
    BY <1>0, <1>1, <1>2, <1>3, <1>4, <1>5, <1>6, <1>7, <1>8, <1>9, <1>10,
       <1>11, <1>12, <1>13, <1>14, <1>15, <1>16, <1>17, <1>18, <1>19,
       <1>20, <1>21, <1>22, <1>23, ClientApart DEF Next, OpenStep,
       CommitStep, Environment

(* TombstonedNotObserved, through every fault, for a client that does not    *)
(* call observe or mark_applied: the service's own.                          *)
THEOREM DeletedIsNotObserved ==
  ASSUME Api \cap {"observe", "applied"} = {}
  PROVE  Spec => []TombstonedNotObserved
  <1>1. Init => Separated
    BY FileAssumption DEF Init, Separated, ApartIfReadable, Apart, Readable, EmptyState
  <1>2. Separated => TombstonedNotObserved
    BY DEF Separated, Apart, TombstonedNotObserved
  <1>3. QED BY <1>1, <1>2, SeparatedStep, TypeCorrect, PTL DEF Spec
===============================================================================
