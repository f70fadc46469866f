-------------------------- MODULE AuditJournalProofs --------------------------
(***************************************************************************)
(* Theorems about the audit journal, for any number of callers, events,     *)
(* segments, crashes, power losses and failed writes.                       *)
(***************************************************************************)
EXTENDS AuditJournal, Integers, FiniteSetTheorems, SequenceTheorems, TLAPS

-----------------------------------------------------------------------------
(* Directories as sequences of records.                                      *)

LEMMA Whole ==
  ASSUME NEW d \in Directories
  PROVE  /\ All(d) \in Seq(Records)
         /\ Len(All(d)) \in Nat
         /\ DOMAIN All(d) = 1..Len(All(d))
         /\ d.closed \in Seq(Records) /\ d.active \in Seq(Records)
  <1>1. d.closed \in Seq(Records) /\ d.active \in Seq(Records)
    BY DEF Directories
  <1>2. All(d) \in Seq(Records)
    BY <1>1, ConcatProperties DEF All
  <1>3. QED BY <1>1, <1>2, LenProperties

LEMMA Extending ==
  ASSUME NEW d \in Directories, NEW r \in Records
  PROVE  LET e == [d EXCEPT !.active = Append(d.active, r)]
         IN  e \in Directories /\ All(e) = Append(All(d), r)
  <1> DEFINE e == [d EXCEPT !.active = Append(d.active, r)]
  <1>1. d.closed \in Seq(Records) /\ d.active \in Seq(Records) /\ All(d) \in Seq(Records)
    BY Whole
  <1>2. Append(d.active, r) \in Seq(Records) /\ <<r>> \in Seq(Records)
    BY <1>1, AppendProperties
  <1>3. e \in Directories /\ e.closed = d.closed /\ e.active = Append(d.active, r)
    BY <1>1, <1>2 DEF Directories
  <1> HIDE DEF e
  <1>4. All(e) = d.closed \o (d.active \o <<r>>)
    BY <1>1, <1>3, AppendIsConcat DEF All
  <1>5. All(e) = (d.closed \o d.active) \o <<r>>
    <2>1. \A s, t, u \in Seq(Records) : (s \o t) \o u = s \o (t \o u)
      BY ConcatAssociative
    <2>2. QED BY <1>1, <1>2, <1>4, <2>1, Zenon
  <1>6. (d.closed \o d.active) \o <<r>> = Append(All(d), r)
    BY <1>1, AppendIsConcat DEF All
  <1>7. QED BY <1>3, <1>5, <1>6 DEF e

LEMMA Closing ==
  ASSUME NEW d \in Directories
  PROVE  LET e == [closed |-> All(d), active |-> <<>>]
         IN  e \in Directories /\ All(e) = All(d)
  <1>1. All(d) \in Seq(Records) /\ <<>> \in Seq(Records)
    BY Whole, EmptySeq
  <1>2. QED BY <1>1, ConcatEmptySeq DEF All, Directories

Numbered(d) == \A i \in DOMAIN All(d) : All(d)[i].sequence = i

LEMMA NumberedLast ==
  ASSUME NEW d \in Directories, Numbered(d)
  PROVE  LastSequence(All(d)) = Len(All(d))
  <1>1. /\ All(d) \in Seq(Records) /\ Len(All(d)) \in Nat
        /\ DOMAIN All(d) = 1..Len(All(d))
    BY Whole
  <1>2. CASE All(d) = <<>>
    BY <1>2 DEF LastSequence
  <1>3. CASE All(d) # <<>>
    <2> DEFINE numbers == {All(d)[i].sequence : i \in DOMAIN All(d)}
               greatest(n) == \A i \in DOMAIN All(d) : All(d)[i].sequence <= n
    <2>1. Len(All(d)) \in 1..Len(All(d))
      BY <1>1, <1>3, EmptySeq
    <2>2. numbers = 1..Len(All(d))
      BY <1>1 DEF Numbered
    <2>3. greatest(Len(All(d)))
      BY <1>1 DEF Numbered
    <2>4. \A n \in numbers : greatest(n) => n = Len(All(d))
      BY <1>1, <2>1, <2>2 DEF Numbered
    <2>5. LastSequence(All(d)) = CHOOSE n \in numbers : greatest(n)
      BY <1>3 DEF LastSequence
    <2> HIDE DEF numbers, greatest
    <2>6. QED BY <2>1, <2>2, <2>3, <2>4, <2>5
  <1>4. QED BY <1>2, <1>3

-----------------------------------------------------------------------------
(* Types, as far as the theorems need them.                                  *)

Stages == {"closed", "recover", "acquire", "run", "write", "sync"}

TypeInv ==
  /\ pc \in [Procs -> Stages]
  /\ DOMAIN held = Procs
  /\ queue \in [Procs -> Seq(Commands)]
  /\ work \in [Procs -> Commands \cup {NoCommand}]
  /\ call \in [Procs -> [Callers -> Commands \cup {NoCommand}]]
  /\ DOMAIN sent = Procs
  /\ DOMAIN health = Procs
  /\ events \in Nat

LEMMA HeadCommand ==
  ASSUME TypeInv, NEW p \in Procs, queue[p] # <<>>
  PROVE  /\ Head(queue[p]) \in Commands
         /\ Tail(queue[p]) \in Seq(Commands)
         /\ Head(queue[p]).caller \in Callers
  <1>1. queue[p] \in Seq(Commands)
    BY DEF TypeInv
  <1>2. Head(queue[p]) \in Commands /\ Tail(queue[p]) \in Seq(Commands)
    BY <1>1, HeadTailProperties
  <1>3. QED BY <1>2 DEF Commands

LEMMA TypeStep == TypeInv /\ [Next]_vars => TypeInv'
  <1> SUFFICES ASSUME TypeInv, [Next]_vars PROVE TypeInv'
    OBVIOUS
  <1> USE DEF TypeInv, Stages
  <1>1. ASSUME NEW p \in Procs, OpenStore(p) \/ RecoverActive(p) PROVE TypeInv'
    BY <1>1 DEF OpenStore, RecoverActive, writer, spent
  <1>2. ASSUME NEW p \in Procs, AcquireLock(p) PROVE TypeInv'
    BY <1>2 DEF AcquireLock, spent
  <1>3. ASSUME NEW p \in Procs, OpenFails(p) PROVE TypeInv'
    BY <1>3 DEF OpenFails, writer, spent
  <1>4. ASSUME NEW p \in Procs, NEW c \in Callers, SubmitAppend(p, c) PROVE TypeInv'
    <2>1. [kind |-> "append", event |-> events', caller |-> c] \in Commands
      BY <1>4, JournalAssumption DEF SubmitAppend, Commands, Events
    <2>2. QED BY <1>4, <2>1 DEF SubmitAppend
  <1>5. ASSUME NEW p \in Procs, NEW c \in Callers, SubmitReport(p, c) PROVE TypeInv'
    <2>1. \A k \in Reports : [kind |-> k, caller |-> c] \in Commands
      BY DEF Commands
    <2>2. QED BY <1>5, <2>1 DEF SubmitReport
  <1>6. ASSUME NEW p \in Procs, NEW c \in Callers, Send(p, c) PROVE TypeInv'
    <2>1. call[p][c] \in Commands
      BY <1>6 DEF Send
    <2>2. Append(queue[p], call[p][c]) \in Seq(Commands)
      BY <2>1, AppendProperties
    <2>3. QED BY <1>6, <2>2 DEF Send, spent
  <1>7. ASSUME NEW p \in Procs, TakeAppend(p) PROVE TypeInv'
    <2>1. queue' \in [Procs -> Seq(Commands)] /\ events' = events
      BY <1>7, HeadCommand DEF TakeAppend, spent
    <2>2. CASE pc'[p] = "write"
      <3>1. ~ AppendFailed(p)
        BY <2>2 DEF AppendFailed
      <3>2. /\ held' = [held EXCEPT ![p] = Append(dir.active, RecordFor(Head(queue[p]).event))]
            /\ work' = [work EXCEPT ![p] = Head(queue[p])]
            /\ pc' = [pc EXCEPT ![p] = "write"]
            /\ UNCHANGED <<call, sent, health>>
        BY <1>7, <3>1 DEF TakeAppend
      <3>3. Head(queue[p]) \in Commands
        BY <1>7, HeadCommand DEF TakeAppend
      <3>4. QED BY <2>1, <3>2, <3>3
    <2>3. CASE pc'[p] # "write"
      <3>1. AppendFailed(p) /\ Reply(p, Head(queue[p]).caller) /\ UNCHANGED held
        BY <1>7, <2>3 DEF TakeAppend
      <3>2. QED BY <2>1, <3>1 DEF AppendFailed, Reply
    <2>4. QED BY <2>2, <2>3
  <1>8. ASSUME NEW p \in Procs, TakeReport(p) PROVE TypeInv'
    BY <1>8, HeadCommand DEF TakeReport, Reply, spent
  <1>9. ASSUME NEW p \in Procs, Write(p) PROVE TypeInv'
    BY <1>9 DEF Write, writer, spent
  <1>10. ASSUME NEW p \in Procs, SyncActive(p) PROVE TypeInv'
    BY <1>10 DEF SyncActive, Reply, spent
  <1>11. ASSUME NEW p \in Procs, WriteFails(p) PROVE TypeInv'
    BY <1>11 DEF WriteFails, AppendFailed, Reply, spent
  <1>12. ASSUME NEW p \in Procs, Shutdown(p) PROVE TypeInv'
    BY <1>12 DEF Shutdown, spent
  <1>13. ASSUME NEW ps \in SUBSET Procs, Gone(ps), events' = events PROVE TypeInv'
    <2>1. <<>> \in Seq(Commands)
      BY EmptySeq
    <2>2. QED BY <1>13, <2>1 DEF Gone
  <1>14. ASSUME NEW p \in Procs, Kill(p) PROVE TypeInv'
    BY <1>13, <1>14 DEF Kill, spent
  <1>15. CASE PowerLoss
    BY <1>13, <1>15 DEF PowerLoss, spent
  <1>16. CASE Rollover \/ CheckLock \/ RemoveStaleLock
    BY <1>16 DEF Rollover, CheckLock, RemoveStaleLock, writer, spent
  <1>17. CASE UNCHANGED vars
    BY <1>17 DEF vars, writer, spent
  <1>18. QED
    BY <1>1, <1>2, <1>3, <1>4, <1>5, <1>6, <1>7, <1>8, <1>9, <1>10, <1>11, <1>12, <1>14, <1>15,
       <1>16, <1>17 DEF Next, Worker

-----------------------------------------------------------------------------
(* The journal with one process: OpenStore rewrites the active file before   *)
(* the lock is taken, so a second process may undo what the first one wrote. *)

OneProcess == \A p, q \in Procs : p = q

Trails(d) ==
  /\ Len(All(d)) <= Len(All(dir))
  /\ \A i \in 1..Len(All(d)) : All(d)[i] = All(dir)[i]

Keeps(d) == \A r \in acked : r.sequence <= Len(All(d))

(* Whatever a power loss may leave behind is a numbered beginning of the     *)
(* journal and holds all that was acknowledged.                              *)
DirInv ==
  /\ dir \in possible
  /\ possible \subseteq Directories
  /\ \A d \in possible : Numbered(d) /\ Trails(d) /\ Keeps(d)

AckedInv ==
  /\ acked \subseteq Records
  /\ acked # {} => \E r \in acked : \A q \in acked : q.sequence <= r.sequence

HoldsNext(p) ==
  \E e \in Events :
    held[p] = Append(dir.active, [sequence |-> Len(All(dir)) + 1, event |-> e])

HoldsLast(p) ==
  LET r == held[p][Len(held[p])]
  IN r \in Records /\ r.sequence = Len(All(dir)) /\ \A q \in acked : q.sequence < r.sequence

(* What a process is about to write continues what is there.                 *)
ProcInv ==
  \A p \in Procs :
    /\ pc[p] = "recover" => held[p] = dir.active
    /\ pc[p] = "write" => HoldsNext(p)
    /\ pc[p] = "sync" => HoldsLast(p)

LogInv == DirInv /\ AckedInv /\ ProcInv

Underway == {"recover", "write", "sync"}

(* The journal stays, or is synced as it is, and no process begins to write. *)
LEMMA Quiet ==
  ASSUME LogInv, UNCHANGED <<dir, acked>>, possible' \in {possible, {dir}},
         \A p \in Procs : pc'[p] \in Underway => pc'[p] = pc[p] /\ held'[p] = held[p]
  PROVE  LogInv'
  <1>1. DirInv'
    BY DEF LogInv, DirInv, Numbered, Trails, Keeps, All
  <1>2. AckedInv'
    BY DEF LogInv, AckedInv
  <1>3. ProcInv'
    BY DEF LogInv, ProcInv, HoldsNext, HoldsLast, Underway, All
  <1>4. QED BY <1>1, <1>2, <1>3 DEF LogInv

LEMMA OpenStoreStep ==
  ASSUME TypeInv, LogInv, NEW p \in Procs, OpenStore(p)
  PROVE  LogInv'
  <1>1. /\ UNCHANGED <<dir, possible, acked>>
        /\ held' = [held EXCEPT ![p] = dir.active]
        /\ pc' = [pc EXCEPT ![p] = "recover"]
    BY DEF OpenStore, journal
  <1>2. DirInv' /\ AckedInv'
    BY <1>1 DEF LogInv, DirInv, AckedInv, Numbered, Trails, Keeps, All
  <1>3. ProcInv'
    BY <1>1 DEF TypeInv, LogInv, ProcInv, HoldsNext, HoldsLast, All
  <1>4. QED BY <1>2, <1>3 DEF LogInv

(* The active file is rewritten with what was just read from it.             *)
LEMMA RecoverStep ==
  ASSUME TypeInv, LogInv, NEW p \in Procs, RecoverActive(p)
  PROVE  LogInv' /\ dir' = dir
  <1>1. dir \in Directories /\ held[p] = dir.active
    BY DEF LogInv, DirInv, ProcInv, RecoverActive
  <1>2. [dir EXCEPT !.active = dir.active] = dir
    BY <1>1 DEF Directories
  <1>3. dir' = dir /\ possible' = possible
    BY <1>1, <1>2 DEF RecoverActive, Replace, LogInv, DirInv
  <1>4. acked' = acked /\ held' = held /\ pc' = [pc EXCEPT ![p] = "acquire"]
    BY DEF RecoverActive
  <1>5. QED BY <1>3, <1>4, Quiet DEF TypeInv, Underway

LEMMA TakeAppendStep ==
  ASSUME OneProcess, TypeInv, LogInv, NEW p \in Procs, TakeAppend(p)
  PROVE  LogInv'
  <1>1. UNCHANGED <<dir, possible, acked>>
    BY DEF TakeAppend, journal
  <1>2. CASE AppendFailed(p) /\ UNCHANGED held
    BY <1>1, <1>2, Quiet DEF AppendFailed, TypeInv, Underway
  <1>3. CASE /\ held' = [held EXCEPT ![p] = Append(dir.active, RecordFor(Head(queue[p]).event))]
             /\ pc' = [pc EXCEPT ![p] = "write"]
    <2>1. LastSequence(All(dir)) = Len(All(dir))
      BY NumberedLast DEF LogInv, DirInv
    <2>2. Head(queue[p]).event \in Events
      <3>1. Head(queue[p]) \in Commands /\ Head(queue[p]).kind = "append"
        BY HeadCommand DEF TakeAppend
      <3>2. QED BY <3>1 DEF Commands, Reports
    <2>3. HoldsNext(p)'
      BY <1>1, <1>3, <2>1, <2>2 DEF HoldsNext, RecordFor, TypeInv, All
    <2>4. ProcInv'
      BY <1>3, <2>3 DEF ProcInv, TypeInv, OneProcess
    <2>5. DirInv' /\ AckedInv'
      BY <1>1 DEF LogInv, DirInv, AckedInv, Numbered, Trails, Keeps, All
    <2>6. QED BY <2>4, <2>5 DEF LogInv
  <1>4. QED BY <1>2, <1>3 DEF TakeAppend

(* The rename puts one more record at the end; until the sync a power loss   *)
(* may still bring back any of the journals that were possible before.       *)
LEMMA WriteStep ==
  ASSUME OneProcess, TypeInv, LogInv, NEW p \in Procs, Write(p)
  PROVE  /\ LogInv'
         /\ \E e \in Events :
              All(dir)' = Append(All(dir), [sequence |-> Len(All(dir)) + 1, event |-> e])
  <1>1. /\ pc[p] = "write" /\ pc' = [pc EXCEPT ![p] = "sync"]
        /\ dir' = [dir EXCEPT !.active = held[p]]
        /\ possible' = possible \cup {dir'}
        /\ UNCHANGED <<held, acked>>
    BY DEF Write, Replace
  <1>2. PICK e \in Events :
          held[p] = Append(dir.active, [sequence |-> Len(All(dir)) + 1, event |-> e])
    BY <1>1 DEF LogInv, ProcInv, HoldsNext
  <1> DEFINE r == [sequence |-> Len(All(dir)) + 1, event |-> e]
             n == Len(All(dir))
             d0 == All(dir)
  <1>3. dir \in Directories /\ n \in Nat /\ d0 \in Seq(Records) /\ DOMAIN d0 = 1..n
        /\ dir.active \in Seq(Records)
    BY Whole DEF LogInv, DirInv
  <1>4. r \in Records /\ r.sequence = n + 1
    BY <1>3 DEF Records
  <1>5. dir' \in Directories /\ All(dir') = Append(d0, r)
    <2> HIDE DEF r
    <2>1. held[p] = Append(dir.active, r)
      BY <1>2 DEF r
    <2>2. dir' = [dir EXCEPT !.active = Append(dir.active, r)]
      BY <1>1, <2>1
    <2>3. QED BY <1>3, <1>4, <2>2, Extending
  <1> HIDE DEF r, n, d0
  <1>6. /\ Len(All(dir')) = n + 1
        /\ \A i \in 1..n : All(dir')[i] = d0[i]
        /\ All(dir')[n + 1] = r
        /\ DOMAIN All(dir') = 1..(n + 1)
    BY <1>3, <1>4, <1>5, AppendProperties, Whole DEF n, d0
  <1>7. n = Len(All(dir)) /\ d0 = All(dir)
    BY DEF n, d0
  <1>8. Numbered(dir')
    BY <1>3, <1>4, <1>6, <1>7 DEF Numbered, LogInv, DirInv
  <1>9. ASSUME NEW d \in possible
        PROVE  Numbered(d)' /\ Trails(d)' /\ Keeps(d)'
    <2>1. Numbered(d) /\ Trails(d) /\ Keeps(d) /\ Len(All(d)) \in Nat
      BY <1>9, Whole DEF LogInv, DirInv
    <2>2. Trails(d)'
      BY <1>3, <1>6, <1>7, <2>1 DEF Trails
    <2>3. QED BY <1>1, <2>1, <2>2 DEF Numbered, Keeps
  <1>10. ASSUME NEW q \in acked PROVE q.sequence \in Nat /\ q.sequence < n + 1
    <2>1. q.sequence \in Nat /\ q.sequence <= n
      BY <1>7 DEF LogInv, DirInv, AckedInv, Keeps, Records
    <2>2. QED BY <1>3, <2>1
  <1>11. DirInv'
    <2>1. ASSUME NEW d, d = dir' PROVE Numbered(d)' /\ Trails(d)' /\ Keeps(d)'
      <3>1. Len(All(d)) = n + 1 /\ Len(All(dir')) \in Nat
        BY <1>3, <1>6, <2>1
      <3>2. Numbered(d)'
        BY <1>8, <2>1 DEF Numbered
      <3>3. Trails(d)'
        BY <2>1, <3>1 DEF Trails
      <3>4. Keeps(d)'
        BY <1>1, <1>3, <1>10, <3>1 DEF Keeps
      <3>5. QED BY <3>2, <3>3, <3>4
    <2>2. QED BY <1>1, <1>5, <1>9, <2>1 DEF DirInv, LogInv
  <1>12. HoldsLast(p)'
    <2>1. Len(held[p]) \in Nat /\ held[p][Len(held[p])] = r
      BY <1>2, <1>3, <1>4, AppendProperties, LenProperties DEF r
    <2>2. QED BY <1>1, <1>4, <1>6, <1>10, <2>1 DEF HoldsLast
  <1>13. ProcInv'
    BY <1>1, <1>12 DEF ProcInv, TypeInv, OneProcess
  <1>14. AckedInv'
    BY <1>1 DEF AckedInv, LogInv
  <1>15. QED BY <1>5, <1>11, <1>13, <1>14 DEF LogInv, r, d0

(* The sync makes the journal the only one possible, and the record can be   *)
(* acknowledged.                                                             *)
LEMMA SyncStep ==
  ASSUME OneProcess, TypeInv, LogInv, NEW p \in Procs, SyncActive(p)
  PROVE  LogInv' /\ dir' = dir
  <1> DEFINE r == held[p][Len(held[p])]
  <1>1. /\ pc[p] = "sync" /\ pc' = [pc EXCEPT ![p] = "run"]
        /\ possible' = {dir} /\ acked' = acked \cup {r}
        /\ UNCHANGED <<dir, held>>
    BY DEF SyncActive, Settled
  <1>2. r \in Records /\ r.sequence = Len(All(dir)) /\ \A q \in acked : q.sequence < r.sequence
    BY <1>1 DEF LogInv, ProcInv, HoldsLast
  <1> HIDE DEF r
  <1>3. dir \in possible /\ dir \in Directories /\ Numbered(dir) /\ Trails(dir) /\ Keeps(dir)
        /\ Len(All(dir)) \in Nat
    BY Whole DEF LogInv, DirInv
  <1>4. Keeps(dir)'
    BY <1>1, <1>2, <1>3 DEF Keeps
  <1>5. DirInv'
    BY <1>1, <1>3, <1>4 DEF DirInv, Numbered, Trails
  <1>6. AckedInv'
    <2>1. \A q \in acked : q.sequence \in Nat
      BY DEF LogInv, AckedInv, Records
    <2>2. r.sequence \in Nat
      BY <1>2, <1>3
    <2>3. \A q \in acked' : q.sequence <= r.sequence
      BY <1>1, <1>2, <2>1, <2>2
    <2>4. QED BY <1>1, <1>2, <2>3 DEF AckedInv, LogInv
  <1>7. ProcInv'
    BY <1>1 DEF ProcInv, TypeInv, OneProcess
  <1>8. QED BY <1>1, <1>5, <1>6, <1>7 DEF LogInv

LEMMA RolloverStep ==
  ASSUME TypeInv, LogInv, Rollover
  PROVE  LogInv' /\ All(dir)' = All(dir)
  <1>1. /\ \A p \in Procs : pc[p] \in {"closed", "run"}
        /\ dir' = [closed |-> All(dir), active |-> <<>>]
        /\ possible' \subseteq possible \cup {dir'} /\ dir' \in possible'
        /\ UNCHANGED <<pc, acked>>
    BY DEF Rollover
  <1>2. dir \in possible /\ dir \in Directories
    BY DEF LogInv, DirInv
  <1>3. dir' \in Directories /\ All(dir') = All(dir)
    BY <1>1, <1>2, Closing
  <1>4. \A d \in possible : Numbered(d)' /\ Trails(d)' /\ Keeps(d)'
    BY <1>1, <1>3 DEF LogInv, DirInv, Numbered, Trails, Keeps
  <1>5. ASSUME NEW d, d = dir' PROVE Numbered(d)' /\ Trails(d)' /\ Keeps(d)'
    BY <1>1, <1>2, <1>3, <1>4, <1>5 DEF Numbered, Trails, Keeps
  <1>6. DirInv'
    BY <1>1, <1>3, <1>4, <1>5 DEF LogInv, DirInv
  <1>7. AckedInv' /\ ProcInv'
    BY <1>1 DEF LogInv, AckedInv, ProcInv
  <1>8. QED BY <1>3, <1>6, <1>7 DEF LogInv

LEMMA PowerLossStep ==
  ASSUME LogInv, PowerLoss
  PROVE  LogInv'
  <1>1. /\ dir' \in possible /\ possible' = {dir'} /\ acked' = acked
        /\ \A p \in Procs : pc'[p] = "closed"
    BY DEF PowerLoss, Gone
  <1>2. dir' \in Directories /\ Numbered(dir') /\ Keeps(dir') /\ Len(All(dir')) \in Nat
    BY <1>1, Whole DEF LogInv, DirInv
  <1>3. DirInv'
    BY <1>1, <1>2 DEF DirInv, Numbered, Trails, Keeps
  <1>4. AckedInv' /\ ProcInv'
    BY <1>1 DEF LogInv, AckedInv, ProcInv
  <1>5. QED BY <1>3, <1>4 DEF LogInv

LEMMA LogInvStep == OneProcess /\ TypeInv /\ LogInv /\ [Next]_vars => LogInv'
  <1> SUFFICES ASSUME OneProcess, TypeInv, LogInv, [Next]_vars PROVE LogInv'
    OBVIOUS
  <1> USE DEF TypeInv, Underway, journal
  <1>1. ASSUME NEW p \in Procs,
               OpenStore(p) \/ RecoverActive(p) \/ TakeAppend(p) \/ Write(p) \/ SyncActive(p)
        PROVE  LogInv'
    BY <1>1, OpenStoreStep, RecoverStep, TakeAppendStep, WriteStep, SyncStep
  <1>2. ASSUME NEW p \in Procs, AcquireLock(p) \/ OpenFails(p) PROVE LogInv'
    BY <1>2, Quiet DEF AcquireLock, OpenFails, Settled
  <1>3. ASSUME NEW p \in Procs, TakeReport(p) PROVE LogInv'
    BY <1>3, Quiet DEF TakeReport
  <1>4. ASSUME NEW p \in Procs, WriteFails(p) PROVE LogInv'
    BY <1>4, Quiet DEF WriteFails, AppendFailed
  <1>5. ASSUME NEW p \in Procs, Shutdown(p) PROVE LogInv'
    BY <1>5, Quiet DEF Shutdown
  <1>6. ASSUME NEW p \in Procs, NEW c \in Callers,
               SubmitAppend(p, c) \/ SubmitReport(p, c) \/ Send(p, c)
        PROVE  LogInv'
    BY <1>6, Quiet DEF SubmitAppend, SubmitReport, Send
  <1>7. ASSUME NEW p \in Procs, Kill(p) PROVE LogInv'
    BY <1>7, Quiet DEF Kill, Gone
  <1>8. CASE CheckLock \/ RemoveStaleLock
    BY <1>8, Quiet DEF CheckLock, RemoveStaleLock
  <1>9. CASE Rollover \/ PowerLoss
    BY <1>9, RolloverStep, PowerLossStep
  <1>10. CASE UNCHANGED vars
    BY <1>10, Quiet DEF vars
  <1>11. QED
    BY <1>1, <1>2, <1>3, <1>4, <1>5, <1>6, <1>7, <1>8, <1>9, <1>10 DEF Next, Worker

LEMMA StartsEmpty == Init => TypeInv /\ LogInv
  <1> SUFFICES ASSUME Init PROVE TypeInv /\ LogInv
    OBVIOUS
  <1>1. <<>> \in Seq(Commands) /\ <<>> \in Seq(Records)
    BY EmptySeq
  <1>2. TypeInv
    BY <1>1, JournalAssumption DEF Init, TypeInv, Stages
  <1>3. dir \in Directories /\ All(dir) = <<>> /\ Len(All(dir)) = 0
    BY <1>1, ConcatEmptySeq, EmptySeq DEF Init, Directories, All
  <1>4. DirInv
    BY <1>3 DEF Init, DirInv, Numbered, Trails, Keeps
  <1>5. AckedInv /\ ProcInv
    BY DEF Init, AckedInv, ProcInv
  <1>6. QED BY <1>2, <1>4, <1>5 DEF LogInv

(* The records of every journal a power loss may leave behind are numbered   *)
(* one by one from 1, across closed segments and the active file: what       *)
(* validate_sequence refuses never comes about by a failed append, a         *)
(* restart, a rollover or a crash of the one process that has the journal.   *)
THEOREM NumberedOneByOne ==
  ASSUME OneProcess
  PROVE  Spec => []JournalContiguous
  <1>1. LogInv => JournalContiguous
    BY DEF LogInv, DirInv, JournalContiguous, Numbered
  <1>2. QED BY <1>1, StartsEmpty, TypeStep, LogInvStep, PTL DEF Spec

-----------------------------------------------------------------------------
(* The abstract log.                                                         *)

LogOf(d) == [i \in DOMAIN All(d) |-> All(d)[i].event]

LastAcked ==
  IF acked = {} THEN 0
  ELSE (CHOOSE r \in acked : \A q \in acked : q.sequence <= r.sequence).sequence

LEMMA LogType ==
  ASSUME NEW d \in Directories
  PROVE  LogOf(d) \in Seq(Events) /\ Len(LogOf(d)) = Len(All(d))
  <1>1. /\ Len(All(d)) \in Nat /\ DOMAIN All(d) = 1..Len(All(d)) /\ All(d) \in Seq(Records)
    BY Whole
  <1>2. \A i \in 1..Len(All(d)) : All(d)[i].event \in Events
    <2>1. \A i \in 1..Len(All(d)) : All(d)[i] \in Records
      BY <1>1, ElementOfSeq
    <2>2. QED BY <2>1 DEF Records
  <1>3. LogOf(d) \in [1..Len(All(d)) -> Events]
    BY <1>1, <1>2 DEF LogOf
  <1>4. QED BY <1>1, <1>3

LEMMA LogGrows ==
  ASSUME NEW d \in Directories, NEW e \in Directories, NEW r \in Records,
         All(e) = Append(All(d), r)
  PROVE  LogOf(e) = Append(LogOf(d), r.event)
  <1>1. /\ Len(All(d)) \in Nat /\ DOMAIN All(d) = 1..Len(All(d)) /\ All(d) \in Seq(Records)
    BY Whole
  <1>2. /\ Len(All(e)) = Len(All(d)) + 1 /\ DOMAIN All(e) = 1..Len(All(e))
        /\ \A i \in 1..Len(All(d)) : All(e)[i] = All(d)[i]
        /\ All(e)[Len(All(d)) + 1] = r
    BY <1>1, AppendProperties, Whole
  <1>3. /\ LogOf(d) \in Seq(Events) /\ Len(LogOf(d)) = Len(All(d))
        /\ LogOf(e) \in Seq(Events) /\ Len(LogOf(e)) = Len(All(e))
    BY LogType
  <1>4. r.event \in Events
    BY DEF Records
  <1> DEFINE grown == Append(LogOf(d), r.event)
  <1>5. /\ grown \in Seq(Events) /\ Len(grown) = Len(All(d)) + 1
        /\ \A i \in 1..Len(All(d)) : grown[i] = LogOf(d)[i]
        /\ grown[Len(All(d)) + 1] = r.event
    BY <1>3, <1>4, AppendProperties
  <1> HIDE DEF grown
  <1>6. \A i \in 1..Len(All(e)) : LogOf(e)[i] = grown[i]
    BY <1>1, <1>2, <1>5 DEF LogOf
  <1>7. LogOf(e) = grown
    BY <1>2, <1>3, <1>5, <1>6, SeqEqual
  <1>8. QED BY <1>7 DEF grown

LEMMA LogShrinks ==
  ASSUME NEW d \in Directories, NEW e \in Directories,
         Len(All(e)) <= Len(All(d)),
         \A i \in 1..Len(All(e)) : All(e)[i] = All(d)[i]
  PROVE  LogOf(e) = SubSeq(LogOf(d), 1, Len(All(e)))
  <1>1. /\ Len(All(d)) \in Nat /\ DOMAIN All(d) = 1..Len(All(d))
        /\ Len(All(e)) \in Nat /\ DOMAIN All(e) = 1..Len(All(e))
    BY Whole
  <1>2. /\ LogOf(d) \in Seq(Events) /\ Len(LogOf(d)) = Len(All(d))
        /\ LogOf(e) \in Seq(Events) /\ Len(LogOf(e)) = Len(All(e))
    BY LogType
  <1> DEFINE s == LogOf(d)  n == Len(All(e))  kept == SubSeq(s, 1, n)
  <1>3. \A i \in 1..n : s[i] \in Events
    BY <1>1, <1>2, ElementOfSeq
  <1>4. /\ kept \in Seq(Events) /\ Len(kept) = n
        /\ \A i \in 1..n : kept[i] = s[i]
    <2> HIDE DEF s, n
    <2>1. n \in Nat
      BY <1>1 DEF n
    <2>2. QED BY <1>3, <2>1, SubSeqProperties
  <1>5. \A i \in 1..n : LogOf(e)[i] = s[i]
    BY <1>1 DEF LogOf
  <1> HIDE DEF s, n, kept
  <1>6. n = Len(LogOf(e))
    BY <1>2 DEF n
  <1>7. LogOf(e) = kept
    BY <1>2, <1>4, <1>5, <1>6, SeqEqual
  <1>8. QED BY <1>7 DEF kept, n, s

(* The last acknowledged number is that of a record in every possible        *)
(* journal.                                                                  *)
LEMMA LastAckedBound ==
  ASSUME LogInv, NEW d \in possible
  PROVE  LastAcked \in Nat /\ LastAcked <= Len(All(d)) /\ (acked # {} => \E r \in acked : r.sequence = LastAcked)
  <1>1. CASE acked = {}
    BY <1>1, Whole DEF LastAcked, LogInv, DirInv
  <1>2. CASE acked # {}
    <2> DEFINE last == CHOOSE r \in acked : \A q \in acked : q.sequence <= r.sequence
    <2>1. last \in acked
      BY <1>2 DEF LogInv, AckedInv
    <2>2. LastAcked = last.sequence
      BY <1>2 DEF LastAcked
    <2> HIDE DEF last
    <2>3. QED BY <2>1, <2>2 DEF LogInv, AckedInv, DirInv, Keeps, Records
  <1>3. QED BY <1>1, <1>2

LEMMA AcknowledgeStep ==
  ASSUME OneProcess, TypeInv, LogInv, NEW p \in Procs, SyncActive(p)
  PROVE  LastAcked' \in (LastAcked + 1)..Len(All(dir))
  <1> DEFINE r == held[p][Len(held[p])]
  <1>1. pc[p] = "sync" /\ acked' = acked \cup {r}
    BY DEF SyncActive
  <1>2. r \in Records /\ r.sequence = Len(All(dir)) /\ \A q \in acked : q.sequence < r.sequence
    BY <1>1 DEF LogInv, ProcInv, HoldsLast
  <1> HIDE DEF r
  <1>3. dir \in possible /\ dir \in Directories /\ Len(All(dir)) \in Nat \ {0}
    BY <1>2, Whole DEF LogInv, DirInv, Records
  <1>4. \A q \in acked : q.sequence \in Nat
    BY DEF LogInv, AckedInv, Records
  <1> DEFINE latest(s) == \A q \in acked' : q.sequence <= s.sequence
  <1>5. r \in acked' /\ latest(r)
    BY <1>1, <1>2, <1>3, <1>4
  <1>6. \A s \in acked' : latest(s) => s = r
    BY <1>1, <1>2, <1>3, <1>4
  <1>7. LastAcked' = (CHOOSE s \in acked' : latest(s)).sequence
    BY <1>5 DEF LastAcked
  <1> HIDE DEF latest
  <1>8. LastAcked' = Len(All(dir))
    BY <1>2, <1>5, <1>6, <1>7
  <1>9. LastAcked \in Nat /\ LastAcked < Len(All(dir))
    <2>1. LastAcked \in Nat /\ (acked # {} => \E q \in acked : q.sequence = LastAcked)
      BY <1>3, LastAckedBound
    <2>2. acked = {} => LastAcked = 0
      BY DEF LastAcked
    <2>3. QED BY <1>2, <1>3, <2>1, <2>2
  <1>10. QED BY <1>3, <1>8, <1>9

LogStates == <<LogOf(dir), LastAcked>>

LEMMA LogStep ==
  ASSUME OneProcess, TypeInv, LogInv, [Next]_vars, LogInv'
  PROVE  Log!Next \/ UNCHANGED LogStates
  <1> USE DEF LogStates
  <1>1. dir \in Directories /\ dir' \in Directories /\ dir \in possible
    BY DEF LogInv, DirInv
  <1>2. ASSUME NEW p \in Procs, Write(p) PROVE Log!Extend
    <2>1. PICK e \in Events :
            All(dir)' = Append(All(dir), [sequence |-> Len(All(dir)) + 1, event |-> e])
      BY <1>2, WriteStep
    <2> DEFINE r == [sequence |-> Len(All(dir)) + 1, event |-> e]
    <2>2. r \in Records /\ r.event = e
      BY <1>1, Whole DEF Records
    <2>3. All(dir') = Append(All(dir), r)
      BY <2>1
    <2> HIDE DEF r
    <2>4. LogOf(dir') = Append(LogOf(dir), e)
      BY <1>1, <2>2, <2>3, LogGrows
    <2>5. LastAcked' = LastAcked
      BY <1>2 DEF Write, LastAcked
    <2>6. QED BY <2>4, <2>5 DEF Log!Extend, LogOf, LastAcked
  <1>3. ASSUME NEW p \in Procs, SyncActive(p) PROVE Log!Acknowledge
    <2>1. LogOf(dir)' = LogOf(dir)
      BY <1>3, SyncStep DEF LogOf, All
    <2>2. LastAcked' \in (LastAcked + 1)..Len(LogOf(dir))
      BY <1>1, <1>3, AcknowledgeStep, LogType
    <2>3. QED BY <2>1, <2>2 DEF Log!Acknowledge, LogOf, LastAcked
  <1>4. CASE PowerLoss
    <2>1. dir' \in possible /\ acked' = acked
      BY <1>4 DEF PowerLoss
    <2>2. LogOf(dir') = SubSeq(LogOf(dir), 1, Len(All(dir')))
      BY <1>1, <2>1, LogShrinks DEF LogInv, DirInv, Trails
    <2>3. Len(All(dir')) \in LastAcked..Len(LogOf(dir))
      BY <1>1, <2>1, LastAckedBound, LogType, Whole DEF LogInv, DirInv, Trails
    <2>4. LastAcked' = LastAcked
      BY <2>1 DEF LastAcked
    <2>5. Log!Lose
      BY <2>2, <2>3, <2>4 DEF Log!Lose, LogOf, LastAcked
    <2>6. QED BY <2>5 DEF Log!Next
  <1>5. CASE Rollover
    BY <1>5, RolloverStep DEF Rollover, LogOf, LastAcked
  <1>6. ASSUME NEW p \in Procs, RecoverActive(p) PROVE UNCHANGED LogStates
    <2>1. acked' = acked /\ dir' = dir
      BY <1>6, RecoverStep DEF RecoverActive
    <2>2. QED BY <2>1 DEF LogOf, All, LastAcked
  <1>7. CASE UNCHANGED <<dir, acked>>
    BY <1>7 DEF LogOf, All, LastAcked
  <1>8. \/ UNCHANGED <<dir, acked>>
        \/ \E p \in Procs : Write(p) \/ SyncActive(p) \/ RecoverActive(p)
        \/ PowerLoss \/ Rollover
    <2>1. ASSUME NEW p \in Procs,
                 OpenStore(p) \/ AcquireLock(p) \/ OpenFails(p) \/ TakeAppend(p) \/ TakeReport(p)
                   \/ WriteFails(p) \/ Shutdown(p) \/ Kill(p)
          PROVE  UNCHANGED <<dir, acked>>
      BY <2>1 DEF OpenStore, AcquireLock, OpenFails, TakeAppend, TakeReport, WriteFails, Shutdown,
                  Kill, journal
    <2>2. ASSUME NEW p \in Procs, NEW c \in Callers,
                 SubmitAppend(p, c) \/ SubmitReport(p, c) \/ Send(p, c)
          PROVE  UNCHANGED <<dir, acked>>
      BY <2>2 DEF SubmitAppend, SubmitReport, Send, journal
    <2>3. CheckLock \/ RemoveStaleLock \/ UNCHANGED vars => UNCHANGED <<dir, acked>>
      BY DEF CheckLock, RemoveStaleLock, vars, journal
    <2>4. QED BY <2>1, <2>2, <2>3 DEF Next, Worker
  <1>9. QED BY <1>2, <1>3, <1>4, <1>5, <1>6, <1>7, <1>8 DEF Log!Next

(* The journal implements AuditLog: through crashes, power losses, failed    *)
(* appends and rollovers it only grows at its end and nothing acknowledged   *)
(* is lost, as long as one process has it.                                   *)
THEOREM JournalImplementsLog ==
  ASSUME OneProcess
  PROVE  Spec => ImplementsLog
  <1>1. Init => Log!Init
    <2> SUFFICES ASSUME Init PROVE Log!Init
      OBVIOUS
    <2>1. dir \in Directories /\ Len(All(dir)) = 0 /\ acked = {}
      <3>1. <<>> \in Seq(Records)
        BY EmptySeq
      <3>2. QED BY <3>1, ConcatEmptySeq, EmptySeq DEF Init, Directories, All
    <2>2. LogOf(dir) \in Seq(Events) /\ Len(LogOf(dir)) = 0
      BY <2>1, LogType
    <2>3. LogOf(dir) = <<>>
      BY <2>2, EmptySeq
    <2>4. QED BY <2>1, <2>3 DEF Log!Init, LogOf
  <1>2. TypeInv /\ LogInv /\ LogInv' /\ [Next]_vars => [Log!Next]_LogStates
    BY LogStep
  <1>3. QED
    BY <1>1, <1>2, StartsEmpty, TypeStep, LogInvStep, PTL
    DEF Spec, ImplementsLog, Log!Spec, LogStates, LogOf, LastAcked

-----------------------------------------------------------------------------
(* The counters of WriterHealth.                                             *)

WriterStates == {"healthy", "degraded", "unavailable"}

Healths == [accepted : Int, persisted : Int, failed : Int, queued : Int,
            state : WriterStates, running : BOOLEAN]

Accepting(h)  == [h EXCEPT !.accepted = h.accepted + 1, !.queued = h.queued + 1]
Failing(h)    == [h EXCEPT !.queued = h.queued - 1, !.failed = h.failed + 1,
                           !.state = "unavailable"]
Persisting(h) == [h EXCEPT !.queued = h.queued - 1, !.persisted = h.persisted + 1,
                           !.state = "healthy"]
Moved(h, s)   == [h EXCEPT !.state = s]

LEMMA AcceptingCounts ==
  ASSUME NEW h \in Healths
  PROVE  /\ Accepting(h) \in Healths
         /\ Accepting(h).accepted = h.accepted + 1 /\ Accepting(h).queued = h.queued + 1
         /\ Accepting(h).persisted = h.persisted /\ Accepting(h).failed = h.failed
  <1> DEFINE a == h.accepted + 1  q == h.queued + 1
             g == [h EXCEPT !.accepted = a, !.queued = q]
  <1>1. a \in Int /\ q \in Int
    BY DEF Healths
  <1> HIDE DEF a, q
  <1>2. /\ g \in Healths /\ g.accepted = a /\ g.queued = q
        /\ g.persisted = h.persisted /\ g.failed = h.failed
    BY <1>1 DEF Healths
  <1>3. QED BY <1>2 DEF Accepting, a, q

LEMMA FailingCounts ==
  ASSUME NEW h \in Healths
  PROVE  /\ Failing(h) \in Healths
         /\ Failing(h).accepted = h.accepted /\ Failing(h).queued = h.queued - 1
         /\ Failing(h).persisted = h.persisted /\ Failing(h).failed = h.failed + 1
  <1> DEFINE n == h.failed + 1  q == h.queued - 1
             g == [h EXCEPT !.queued = q, !.failed = n, !.state = "unavailable"]
  <1>1. n \in Int /\ q \in Int
    BY DEF Healths
  <1> HIDE DEF n, q
  <1>2. /\ g \in Healths /\ g.failed = n /\ g.queued = q
        /\ g.persisted = h.persisted /\ g.accepted = h.accepted
    BY <1>1 DEF Healths, WriterStates
  <1>3. QED BY <1>2 DEF Failing, n, q

LEMMA PersistingCounts ==
  ASSUME NEW h \in Healths
  PROVE  /\ Persisting(h) \in Healths
         /\ Persisting(h).accepted = h.accepted /\ Persisting(h).queued = h.queued - 1
         /\ Persisting(h).persisted = h.persisted + 1 /\ Persisting(h).failed = h.failed
  <1> DEFINE n == h.persisted + 1  q == h.queued - 1
             g == [h EXCEPT !.queued = q, !.persisted = n, !.state = "healthy"]
  <1>1. n \in Int /\ q \in Int
    BY DEF Healths
  <1> HIDE DEF n, q
  <1>2. /\ g \in Healths /\ g.persisted = n /\ g.queued = q
        /\ g.failed = h.failed /\ g.accepted = h.accepted
    BY <1>1 DEF Healths, WriterStates
  <1>3. QED BY <1>2 DEF Persisting, n, q

LEMMA MovedCounts ==
  ASSUME NEW h \in Healths, NEW s \in WriterStates
  PROVE  /\ Moved(h, s) \in Healths
         /\ Moved(h, s).accepted = h.accepted /\ Moved(h, s).queued = h.queued
         /\ Moved(h, s).persisted = h.persisted /\ Moved(h, s).failed = h.failed
  BY DEF Healths, Moved

LEMMA NewHealthCounts ==
  /\ NewHealth \in Healths
  /\ NewHealth.accepted = 0 /\ NewHealth.persisted = 0 /\ NewHealth.failed = 0
  /\ NewHealth.queued = 0
  /\ NoHealth \in Healths
  /\ NoHealth.accepted = 0 /\ NoHealth.persisted = 0 /\ NoHealth.failed = 0
  /\ NoHealth.queued = 0
  <1>1. /\ NewHealth \in Healths
        /\ NewHealth.accepted = 0 /\ NewHealth.persisted = 0 /\ NewHealth.failed = 0
        /\ NewHealth.queued = 0
    BY DEF NewHealth, Healths, WriterStates
  <1>2. \A h \in Healths :
          LET g == [h EXCEPT !.running = FALSE]
          IN  /\ g \in Healths
              /\ g.accepted = h.accepted /\ g.persisted = h.persisted
              /\ g.failed = h.failed /\ g.queued = h.queued
    BY DEF Healths
  <1> HIDE DEF NewHealth
  <1>3. QED BY <1>1, <1>2, Zenon DEF NoHealth

(* The callers whose event is accepted and neither persisted nor failed.     *)
Pending(p) == {c \in Callers : call[p][c] # NoCommand /\ call[p][c].kind = "append"}

(* A command in the channel or in the worker's hands is what its caller      *)
(* waits for, and no caller has two of them.                                 *)
QueueInv ==
  \A p \in Procs :
    /\ \A i \in DOMAIN queue[p] :
         /\ queue[p][i].caller \in sent[p]
         /\ call[p][queue[p][i].caller] = queue[p][i]
    /\ \A i, j \in DOMAIN queue[p] : i # j => queue[p][i].caller # queue[p][j].caller

WorkInv ==
  \A p \in Procs : pc[p] \in {"write", "sync"} =>
    /\ work[p] \in Commands /\ work[p].kind = "append"
    /\ work[p].caller \in sent[p]
    /\ call[p][work[p].caller] = work[p]
    /\ \A i \in DOMAIN queue[p] : queue[p][i].caller # work[p].caller

IdleInv == \A p \in Procs : ~ Serving(p) => call[p] = [c \in Callers |-> NoCommand]

OwnInv ==
  \A p \in Procs : \A c \in Callers : call[p][c] # NoCommand => call[p][c].caller = c

WaitInv == QueueInv /\ WorkInv /\ IdleInv /\ OwnInv

Balanced(p) ==
  /\ health[p].accepted = health[p].persisted + health[p].failed + health[p].queued
  /\ health[p].queued = Cardinality(Pending(p))

CountInv ==
  /\ health \in [Procs -> Healths]
  /\ \A p \in Procs : IsFiniteSet(Pending(p)) /\ Balanced(p)

LEMMA Channel ==
  ASSUME TypeInv, NEW p \in Procs
  PROVE  /\ queue[p] \in Seq(Commands) /\ Len(queue[p]) \in Nat
         /\ DOMAIN queue[p] = 1..Len(queue[p])
         /\ \A i \in DOMAIN queue[p] : queue[p][i] \in Commands
  <1>1. queue[p] \in Seq(Commands)
    BY DEF TypeInv
  <1>2. QED BY <1>1, LenProperties, ElementOfSeq

LEMMA ChannelHead ==
  ASSUME TypeInv, NEW p \in Procs, queue[p] # <<>>
  PROVE  /\ Head(queue[p]) = queue[p][1] /\ 1 \in DOMAIN queue[p]
         /\ DOMAIN Tail(queue[p]) = 1..(Len(queue[p]) - 1)
         /\ \A i \in DOMAIN Tail(queue[p]) :
              i + 1 \in DOMAIN queue[p] /\ i + 1 # 1 /\ Tail(queue[p])[i] = queue[p][i + 1]
  <1>1. queue[p] \in Seq(Commands) /\ Len(queue[p]) \in Nat \ {0}
        /\ DOMAIN queue[p] = 1..Len(queue[p])
    BY Channel, EmptySeq
  <1>2. Tail(queue[p]) \in Seq(Commands) /\ Len(Tail(queue[p])) = Len(queue[p]) - 1
        /\ \A i \in 1..Len(Tail(queue[p])) : Tail(queue[p])[i] = queue[p][i + 1]
    BY <1>1, HeadTailProperties
  <1>3. DOMAIN Tail(queue[p]) = 1..(Len(queue[p]) - 1)
    BY <1>2, LenProperties
  <1>4. Head(queue[p]) = queue[p][1]
    BY <1>1
  <1>5. QED BY <1>1, <1>2, <1>3, <1>4

(* A reply to the caller whose command is taken from the channel.            *)
LEMMA ReplyToHead ==
  ASSUME TypeInv, WaitInv, NEW p \in Procs, queue[p] # <<>>,
         queue' = [queue EXCEPT ![p] = Tail(@)],
         Reply(p, Head(queue[p]).caller),
         pc' \in {pc, [pc EXCEPT ![p] = "run"]}, pc[p] = "run",
         \A q \in Procs \ {p} : work'[q] = work[q]
  PROVE  WaitInv'
  <1> DEFINE c == Head(queue[p]).caller  t == Tail(queue[p])
  <1>0. \A i \in DOMAIN t :
          i \in Int /\ i + 1 \in DOMAIN queue[p] /\ i + 1 # 1 /\ t[i] = queue[p][i + 1]
    BY ChannelHead
  <1>1. c \in Callers /\ c = queue[p][1].caller /\ 1 \in DOMAIN queue[p]
    BY HeadCommand, ChannelHead
  <1>2. \A q \in Procs : pc'[q] = pc[q]
    BY DEF TypeInv
  <1>3. /\ \A q \in Procs \ {p} : queue'[q] = queue[q] /\ call'[q] = call[q] /\ sent'[q] = sent[q]
        /\ queue'[p] = t
        /\ \A d \in Callers \ {c} : call'[p][d] = call[p][d]
        /\ sent'[p] = sent[p] \ {c}
    BY DEF Reply, TypeInv
  <1> HIDE DEF c, t
  <1>4. ASSUME NEW i \in DOMAIN (queue'[p])
        PROVE  /\ i + 1 \in DOMAIN queue[p] /\ queue'[p][i] = queue[p][i + 1]
               /\ queue[p][i + 1].caller \in Callers \ {c}
    <2>1. i + 1 \in DOMAIN queue[p] /\ i + 1 # 1 /\ queue'[p][i] = queue[p][i + 1]
      BY <1>0, <1>3, <1>4
    <2>2. queue[p][i + 1] \in Commands
      BY <2>1, Channel
    <2>3. queue[p][i + 1].caller \in Callers
      BY <2>2 DEF Commands
    <2>4. QED BY <1>1, <2>1, <2>3 DEF WaitInv, QueueInv
  <1>5. \A i \in DOMAIN (queue'[p]) : i \in Int
    BY <1>0, <1>3
  <1>6. QueueInv'
    <2>1. ASSUME NEW i \in DOMAIN (queue'[p])
          PROVE  queue'[p][i].caller \in sent'[p] /\ call'[p][queue'[p][i].caller] = queue'[p][i]
      <3>1. /\ queue[p][i + 1].caller \in sent[p]
            /\ call[p][queue[p][i + 1].caller] = queue[p][i + 1]
        BY <1>4 DEF WaitInv, QueueInv
      <3>2. QED BY <1>3, <1>4, <3>1
    <2>2. ASSUME NEW i \in DOMAIN (queue'[p]), NEW j \in DOMAIN (queue'[p]), i # j
          PROVE  queue'[p][i].caller # queue'[p][j].caller
      BY <1>4, <1>5, <2>2 DEF WaitInv, QueueInv
    <2>3. QED BY <1>3, <2>1, <2>2 DEF WaitInv, QueueInv
  <1>7. WorkInv'
    BY <1>2, <1>3 DEF WaitInv, WorkInv
  <1>8. IdleInv' /\ OwnInv'
    BY <1>2, <1>3 DEF WaitInv, IdleInv, OwnInv, Serving, Reply, TypeInv
  <1>9. QED BY <1>6, <1>7, <1>8 DEF WaitInv

(* A reply to the caller whose event the worker was writing.                 *)
LEMMA ReplyToWork ==
  ASSUME TypeInv, WaitInv, NEW p \in Procs, pc[p] \in {"write", "sync"},
         pc' = [pc EXCEPT ![p] = "run"], queue' = queue,
         Reply(p, work[p].caller), work' = [work EXCEPT ![p] = NoCommand]
  PROVE  WaitInv'
  <1> DEFINE c == work[p].caller
  <1>1. \A i \in DOMAIN queue[p] : queue[p][i].caller # c /\ queue[p][i].caller \in Callers
    BY Channel DEF WaitInv, WorkInv, Commands
  <1>2. /\ \A q \in Procs \ {p} : call'[q] = call[q] /\ sent'[q] = sent[q] /\ work'[q] = work[q]
                                  /\ pc'[q] = pc[q]
        /\ pc'[p] = "run"
        /\ \A d \in Callers \ {c} : call'[p][d] = call[p][d]
        /\ sent'[p] = sent[p] \ {c}
    BY DEF Reply, TypeInv
  <1> HIDE DEF c
  <1>3. QueueInv'
    BY <1>1, <1>2 DEF WaitInv, QueueInv
  <1>4. WorkInv' /\ IdleInv' /\ OwnInv'
    BY <1>2 DEF WaitInv, WorkInv, IdleInv, OwnInv, Serving, Reply, TypeInv
  <1>5. QED BY <1>3, <1>4 DEF WaitInv

(* Steps that leave the writer alone.                                        *)
LEMMA WriterAlone ==
  ASSUME WaitInv, UNCHANGED <<queue, work, call, sent>>,
         \A p \in Procs : pc'[p] \in {"write", "sync"} => pc[p] \in {"write", "sync"},
         \A p \in Procs : Serving(p) => Serving(p)' \/ call[p] = [c \in Callers |-> NoCommand]
  PROVE  WaitInv'
  BY DEF WaitInv, QueueInv, WorkInv, IdleInv, OwnInv

LEMMA SubmitWaits ==
  ASSUME TypeInv, WaitInv, NEW p \in Procs, NEW c \in Callers, NEW command \in Commands,
         command.caller = c, Serving(p), call[p][c] = NoCommand, call' = [call EXCEPT ![p][c] = command],
         UNCHANGED <<pc, queue, work, sent>>
  PROVE  WaitInv'
  <1>1. NoCommand \notin Commands
    BY DEF NoCommand, Commands, Reports
  <1>2. /\ \A q \in Procs \ {p} : call'[q] = call[q]
        /\ \A d \in Callers \ {c} : call'[p][d] = call[p][d]
    BY DEF TypeInv
  <1>3. \A i \in DOMAIN queue[p] :
          queue[p][i].caller # c /\ queue[p][i].caller \in Callers
    <2>1. ASSUME NEW i \in DOMAIN queue[p] PROVE queue[p][i].caller # c /\ queue[p][i].caller \in Callers
      <3>1. queue[p][i] \in Commands /\ call[p][queue[p][i].caller] = queue[p][i]
        BY Channel DEF WaitInv, QueueInv
      <3>2. QED BY <1>1, <3>1 DEF Commands
    <2>2. QED BY <2>1
  <1>4. pc[p] \in {"write", "sync"} => work[p].caller # c /\ work[p].caller \in Callers
    <2>1. pc[p] \in {"write", "sync"} => work[p] \in Commands /\ call[p][work[p].caller] = work[p]
      BY DEF WaitInv, WorkInv
    <2>2. QED BY <1>1, <2>1 DEF Commands
  <1>5. QueueInv'
    BY <1>2, <1>3 DEF WaitInv, QueueInv
  <1>6. WorkInv'
    BY <1>2, <1>4 DEF WaitInv, WorkInv
  <1>7. IdleInv' /\ OwnInv'
    BY <1>2 DEF WaitInv, IdleInv, OwnInv, Serving, TypeInv
  <1>8. QED BY <1>5, <1>6, <1>7 DEF WaitInv

LEMMA SendWaits ==
  ASSUME TypeInv, WaitInv, NEW p \in Procs, NEW c \in Callers, Send(p, c)
  PROVE  WaitInv'
  <1> DEFINE m == call[p][c]  s == queue[p]  t == Append(s, m)
  <1>1. m \in Commands /\ m.caller = c /\ c \notin sent[p] /\ Serving(p)
    BY DEF Send, TypeInv, WaitInv, OwnInv
  <1>2. s \in Seq(Commands) /\ Len(s) \in Nat /\ DOMAIN s = 1..Len(s)
    BY Channel
  <1>3. /\ DOMAIN t = 1..(Len(s) + 1)
        /\ \A i \in DOMAIN s : t[i] = s[i]
        /\ t[Len(s) + 1] = m
    <2> HIDE DEF m, s
    <2>1. /\ t \in Seq(Commands) /\ Len(t) = Len(s) + 1
          /\ \A i \in 1..Len(s) : t[i] = s[i]
          /\ t[Len(s) + 1] = m
      BY <1>1, <1>2, AppendProperties
    <2> HIDE DEF t
    <2>2. QED BY <1>2, <2>1, LenProperties
  <1>4. /\ \A q \in Procs \ {p} : queue'[q] = queue[q] /\ sent'[q] = sent[q]
        /\ queue'[p] = t /\ sent'[p] = sent[p] \cup {c}
        /\ call' = call /\ work' = work /\ pc' = pc
    BY DEF Send, TypeInv
  <1> HIDE DEF t
  <1>5. \A i \in DOMAIN s :
          s[i].caller \in sent[p] /\ s[i].caller # c /\ call[p][s[i].caller] = s[i]
    BY <1>1 DEF WaitInv, QueueInv
  <1>6. \A i \in DOMAIN t : (i \in DOMAIN s /\ t[i] = s[i]) \/ (i = Len(s) + 1 /\ t[i] = m)
    <2> HIDE DEF s, m
    <2>1. QED BY <1>2, <1>3
  <1>7. QueueInv'
    <2>1. \A i, j \in DOMAIN s : i # j => s[i].caller # s[j].caller
      BY DEF WaitInv, QueueInv
    <2>2. \A i \in DOMAIN t : t[i].caller \in sent'[p] /\ call'[p][t[i].caller] = t[i]
      BY <1>1, <1>4, <1>5, <1>6
    <2> HIDE DEF s, m
    <2>3. \A i, j \in DOMAIN t : i # j => t[i].caller # t[j].caller
      BY <1>1, <1>5, <1>6, <2>1
    <2>4. QED BY <1>4, <2>2, <2>3 DEF WaitInv, QueueInv
  <1>8. WorkInv'
    <2>1. pc[p] \in {"write", "sync"} => work[p].caller # c
      BY <1>1 DEF WaitInv, WorkInv
    <2>2. pc[p] \in {"write", "sync"} =>
            \A i \in DOMAIN t : t[i].caller # work[p].caller
      BY <1>1, <1>6, <2>1 DEF WaitInv, WorkInv
    <2>3. QED BY <1>4, <2>2 DEF WaitInv, WorkInv
  <1>9. IdleInv' /\ OwnInv'
    BY <1>4 DEF WaitInv, IdleInv, OwnInv, Serving
  <1>10. QED BY <1>7, <1>8, <1>9 DEF WaitInv

(* The worker begins to write the event at the head of the channel.          *)
LEMMA TakeWaits ==
  ASSUME TypeInv, WaitInv, NEW p \in Procs, queue[p] # <<>>, pc[p] = "run",
         Head(queue[p]).kind = "append",
         queue' = [queue EXCEPT ![p] = Tail(@)],
         work' = [work EXCEPT ![p] = Head(queue[p])],
         pc' = [pc EXCEPT ![p] = "write"],
         UNCHANGED <<call, sent>>
  PROVE  WaitInv'
  <1> DEFINE m == Head(queue[p])  t == Tail(queue[p])
  <1>0. \A i \in DOMAIN t :
          i \in Int /\ i + 1 \in DOMAIN queue[p] /\ i + 1 # 1 /\ t[i] = queue[p][i + 1]
    BY ChannelHead
  <1>1. m \in Commands /\ m = queue[p][1] /\ 1 \in DOMAIN queue[p] /\ m.kind = "append"
    BY HeadCommand, ChannelHead
  <1>2. /\ \A q \in Procs \ {p} : queue'[q] = queue[q] /\ work'[q] = work[q] /\ pc'[q] = pc[q]
        /\ queue'[p] = t /\ work'[p] = m /\ pc'[p] = "write"
        /\ call' = call /\ sent' = sent
    BY DEF TypeInv
  <1> HIDE DEF m, t
  <1>3. QueueInv'
    <2>1. \A i \in DOMAIN t : t[i].caller \in sent[p] /\ call[p][t[i].caller] = t[i]
      BY <1>0 DEF WaitInv, QueueInv
    <2>2. \A i, j \in DOMAIN t : i # j => t[i].caller # t[j].caller
      <3>1. ASSUME NEW i \in DOMAIN t, NEW j \in DOMAIN t, i # j
            PROVE  queue[p][i + 1].caller # queue[p][j + 1].caller
        BY <1>0, <3>1 DEF WaitInv, QueueInv
      <3>2. QED BY <1>0, <3>1
    <2>3. ASSUME NEW q \in Procs \ {p}
          PROVE  /\ \A i \in DOMAIN queue[q] :
                      queue[q][i].caller \in sent[q] /\ call[q][queue[q][i].caller] = queue[q][i]
                 /\ \A i, j \in DOMAIN queue[q] : i # j => queue[q][i].caller # queue[q][j].caller
      BY DEF WaitInv, QueueInv
    <2>4. QED BY <1>2, <2>1, <2>2, <2>3 DEF QueueInv
  <1>4. WorkInv'
    <2>1. m.caller \in sent[p] /\ call[p][m.caller] = m
      BY <1>1 DEF WaitInv, QueueInv
    <2>2. \A i \in DOMAIN t : t[i].caller # m.caller
      BY <1>0, <1>1 DEF WaitInv, QueueInv
    <2>3. QED BY <1>1, <1>2, <2>1, <2>2 DEF WaitInv, WorkInv
  <1>5. IdleInv' /\ OwnInv'
    BY <1>2 DEF WaitInv, IdleInv, OwnInv, Serving
  <1>6. QED BY <1>3, <1>4, <1>5 DEF WaitInv

LEMMA GoneWaits ==
  ASSUME TypeInv, WaitInv, NEW ps \in SUBSET Procs, Gone(ps)
  PROVE  WaitInv'
  <1>1. \A q \in ps : /\ pc'[q] = "closed" /\ queue'[q] = <<>>
                      /\ call'[q] = [c \in Callers |-> NoCommand]
    BY DEF Gone
  <1>2. \A q \in Procs \ ps :
          /\ pc'[q] = pc[q] /\ queue'[q] = queue[q] /\ work'[q] = work[q]
          /\ call'[q] = call[q] /\ sent'[q] = sent[q]
    BY DEF Gone
  <1>3. QueueInv'
    BY <1>1, <1>2 DEF WaitInv, QueueInv
  <1>4. WorkInv' /\ IdleInv'
    BY <1>1, <1>2 DEF WaitInv, WorkInv, IdleInv, Serving
  <1>5. OwnInv'
    BY <1>1, <1>2 DEF WaitInv, OwnInv
  <1>6. QED BY <1>3, <1>4, <1>5 DEF WaitInv

LEMMA WaitStep == TypeInv /\ WaitInv /\ [Next]_vars => WaitInv'
  <1> SUFFICES ASSUME TypeInv, WaitInv, [Next]_vars PROVE WaitInv'
    OBVIOUS
  <1>1. ASSUME NEW p \in Procs,
               OpenStore(p) \/ RecoverActive(p) \/ AcquireLock(p) \/ OpenFails(p) \/ Write(p)
        PROVE  WaitInv'
    BY <1>1, WriterAlone DEF OpenStore, RecoverActive, AcquireLock, OpenFails, Write, writer,
                             TypeInv, Serving
  <1>2. ASSUME NEW p \in Procs, NEW c \in Callers, SubmitAppend(p, c) PROVE WaitInv'
    <2> DEFINE m == [kind |-> "append", event |-> events', caller |-> c]
    <2>1. m \in Commands /\ m.caller = c
      BY <1>2, JournalAssumption DEF SubmitAppend, Commands, Events, TypeInv
    <2>2. /\ Serving(p) /\ call[p][c] = NoCommand /\ call' = [call EXCEPT ![p][c] = m]
          /\ UNCHANGED <<pc, queue, work, sent>>
      BY <1>2 DEF SubmitAppend
    <2> HIDE DEF m
    <2>3. QED BY <2>1, <2>2, SubmitWaits
  <1>3. ASSUME NEW p \in Procs, NEW c \in Callers, SubmitReport(p, c) PROVE WaitInv'
    <2>1. PICK k \in Reports : call' = [call EXCEPT ![p][c] = [kind |-> k, caller |-> c]]
      BY <1>3 DEF SubmitReport
    <2> DEFINE m == [kind |-> k, caller |-> c]
    <2>2. m \in Commands /\ m.caller = c
      BY DEF Commands
    <2>3. /\ Serving(p) /\ call[p][c] = NoCommand /\ call' = [call EXCEPT ![p][c] = m]
          /\ UNCHANGED <<pc, queue, work, sent>>
      BY <1>3, <2>1 DEF SubmitReport
    <2> HIDE DEF m
    <2>4. QED BY <2>2, <2>3, SubmitWaits
  <1>4. ASSUME NEW p \in Procs, NEW c \in Callers, Send(p, c) PROVE WaitInv'
    BY <1>4, SendWaits
  <1>5. ASSUME NEW p \in Procs, TakeAppend(p) PROVE WaitInv'
    <2>1. CASE AppendFailed(p) /\ Reply(p, Head(queue[p]).caller)
      <3>1. \A q \in Procs \ {p} : work'[q] = work[q]
        BY <2>1 DEF AppendFailed, TypeInv
      <3>2. QED BY <1>5, <2>1, <3>1, ReplyToHead DEF TakeAppend, AppendFailed
    <2>2. CASE /\ work' = [work EXCEPT ![p] = Head(queue[p])]
               /\ pc' = [pc EXCEPT ![p] = "write"]
               /\ UNCHANGED <<call, sent>>
      BY <1>5, <2>2, TakeWaits DEF TakeAppend
    <2>3. QED BY <1>5, <2>1, <2>2 DEF TakeAppend
  <1>6. ASSUME NEW p \in Procs, TakeReport(p) PROVE WaitInv'
    BY <1>6, ReplyToHead DEF TakeReport
  <1>7. ASSUME NEW p \in Procs, SyncActive(p) \/ WriteFails(p) PROVE WaitInv'
    BY <1>7, ReplyToWork DEF SyncActive, WriteFails, AppendFailed
  <1>8. ASSUME NEW p \in Procs, Shutdown(p) PROVE WaitInv'
    <2>1. call[p] = [c \in Callers |-> NoCommand]
      BY <1>8 DEF Shutdown, TypeInv
    <2>2. QED BY <1>8, <2>1, WriterAlone DEF Shutdown, TypeInv, Serving
  <1>9. ASSUME NEW p \in Procs, Kill(p) PROVE WaitInv'
    BY <1>9, GoneWaits DEF Kill
  <1>10. CASE PowerLoss
    BY <1>10, GoneWaits DEF PowerLoss
  <1>11. CASE Rollover \/ CheckLock \/ RemoveStaleLock \/ UNCHANGED vars
    BY <1>11, WriterAlone DEF Rollover, CheckLock, RemoveStaleLock, vars, writer, Serving
  <1>12. QED
    BY <1>1, <1>2, <1>3, <1>4, <1>5, <1>6, <1>7, <1>8, <1>9, <1>10, <1>11 DEF Next, Worker

(* Counting.                                                                 *)

LEMMA OnePending ==
  ASSUME TypeInv, CountInv, NEW p \in Procs, NEW c \in Callers, c \notin Pending(p),
         Pending(p)' = Pending(p) \cup {c},
         \A q \in Procs \ {p} : call'[q] = call[q],
         health' = [health EXCEPT ![p] = Accepting(@)]
  PROVE  CountInv'
  <1>1. /\ IsFiniteSet(Pending(p))
        /\ Cardinality(Pending(p)) \in Nat
        /\ IsFiniteSet(Pending(p) \cup {c})
        /\ Cardinality(Pending(p) \cup {c}) = Cardinality(Pending(p)) + 1
    BY FS_AddElement, FS_CardinalityType DEF CountInv
  <1>2. health[p] \in Healths
    BY DEF CountInv
  <1>3. /\ Accepting(health[p]) \in Healths
        /\ Accepting(health[p]).accepted = health[p].accepted + 1
        /\ Accepting(health[p]).queued = health[p].queued + 1
        /\ Accepting(health[p]).persisted = health[p].persisted
        /\ Accepting(health[p]).failed = health[p].failed
    BY <1>2, AcceptingCounts
  <1>4. health'[p] = Accepting(health[p]) /\ \A q \in Procs \ {p} : health'[q] = health[q]
    BY DEF CountInv
  <1>5. Balanced(p)'
    BY <1>1, <1>2, <1>3, <1>4 DEF CountInv, Balanced, Healths
  <1>6. ASSUME NEW q \in Procs \ {p} PROVE IsFiniteSet(Pending(q))' /\ Balanced(q)'
    <2>1. Pending(q)' = Pending(q)
      BY DEF Pending
    <2>2. QED BY <1>4, <2>1 DEF CountInv, Balanced
  <1>7. health' \in [Procs -> Healths]
    BY <1>3 DEF CountInv
  <1>8. QED BY <1>1, <1>5, <1>6, <1>7 DEF CountInv

LEMMA OneLess ==
  ASSUME TypeInv, CountInv, NEW p \in Procs, NEW c \in Pending(p), Reply(p, c),
         health' = [health EXCEPT ![p] = Failing(@)]
           \/ health' = [health EXCEPT ![p] = Persisting(@)]
  PROVE  CountInv'
  <1>0. c \in Callers
    BY DEF Pending
  <1>1. /\ IsFiniteSet(Pending(p)) /\ Cardinality(Pending(p)) \in Nat
        /\ IsFiniteSet(Pending(p) \ {c})
        /\ Cardinality(Pending(p) \ {c}) = Cardinality(Pending(p)) - 1
    BY FS_RemoveElement, FS_CardinalityType DEF CountInv
  <1>2. Pending(p)' = Pending(p) \ {c} /\ \A q \in Procs \ {p} : call'[q] = call[q]
    BY <1>0 DEF Pending, Reply, TypeInv
  <1>3. health[p] \in Healths
    BY DEF CountInv
  <1>4. /\ health'[p] \in Healths
        /\ health'[p].accepted = health[p].accepted
        /\ health'[p].queued = health[p].queued - 1
        /\ health'[p].persisted + health'[p].failed = health[p].persisted + health[p].failed + 1
        /\ \A q \in Procs \ {p} : health'[q] = health[q]
        /\ health' \in [Procs -> Healths]
    <2>1. CASE health' = [health EXCEPT ![p] = Failing(@)]
      <3> DEFINE g == Failing(health[p])
      <3>1. /\ g \in Healths /\ g.accepted = health[p].accepted
            /\ g.queued = health[p].queued - 1
            /\ g.persisted = health[p].persisted /\ g.failed = health[p].failed + 1
        BY <1>3, FailingCounts
      <3>2. health' = [health EXCEPT ![p] = g]
        BY <2>1
      <3> HIDE DEF g
      <3>3. QED BY <1>3, <3>1, <3>2 DEF CountInv, Healths
    <2>2. CASE health' = [health EXCEPT ![p] = Persisting(@)]
      <3> DEFINE g == Persisting(health[p])
      <3>1. /\ g \in Healths /\ g.accepted = health[p].accepted
            /\ g.queued = health[p].queued - 1
            /\ g.persisted = health[p].persisted + 1 /\ g.failed = health[p].failed
        BY <1>3, PersistingCounts
      <3>2. health' = [health EXCEPT ![p] = g]
        BY <2>2
      <3> HIDE DEF g
      <3>3. QED BY <1>3, <3>1, <3>2 DEF CountInv, Healths
    <2>3. QED BY <2>1, <2>2
  <1>5. Balanced(p)'
    BY <1>1, <1>2, <1>3, <1>4 DEF CountInv, Balanced, Healths
  <1>6. ASSUME NEW q \in Procs \ {p} PROVE IsFiniteSet(Pending(q))' /\ Balanced(q)'
    <2>1. Pending(q)' = Pending(q)
      BY <1>2 DEF Pending
    <2>2. QED BY <1>4, <2>1 DEF CountInv, Balanced
  <1>7. QED BY <1>1, <1>2, <1>4, <1>5, <1>6 DEF CountInv

(* The counters of one process are those of a process that has nothing       *)
(* pending, or the pending events stay.                                      *)
LEMMA SameCounts ==
  ASSUME CountInv, health' \in [Procs -> Healths],
         \A q \in Procs :
           \/ /\ Pending(q)' = Pending(q)
              /\ health'[q].accepted = health[q].accepted /\ health'[q].failed = health[q].failed
              /\ health'[q].persisted = health[q].persisted
              /\ health'[q].queued = health[q].queued
           \/ Pending(q)' = {} /\ health'[q] \in {NewHealth, NoHealth}
  PROVE  CountInv'
  <1>1. ASSUME NEW q \in Procs PROVE IsFiniteSet(Pending(q))' /\ Balanced(q)'
    <2>1. CASE Pending(q)' = Pending(q) /\ health'[q].accepted = health[q].accepted
               /\ health'[q].failed = health[q].failed
               /\ health'[q].persisted = health[q].persisted
               /\ health'[q].queued = health[q].queued
      BY <2>1 DEF CountInv, Balanced
    <2>2. CASE Pending(q)' = {} /\ health'[q] \in {NewHealth, NoHealth}
      <3>1. IsFiniteSet({}) /\ Cardinality({}) = 0
        BY FS_EmptySet
      <3>2. /\ health'[q].accepted = 0 /\ health'[q].failed = 0
            /\ health'[q].persisted = 0 /\ health'[q].queued = 0
        BY <2>2, NewHealthCounts
      <3>3. QED BY <2>2, <3>1, <3>2 DEF Balanced
    <2>3. QED BY <2>1, <2>2
  <1>2. QED BY <1>1 DEF CountInv

LEMMA CountStep == TypeInv /\ WaitInv /\ CountInv /\ [Next]_vars => CountInv'
  <1> SUFFICES ASSUME TypeInv, WaitInv, CountInv, [Next]_vars PROVE CountInv'
    OBVIOUS
  <1>1. ASSUME UNCHANGED <<call, health>> PROVE CountInv'
    <2>1. \A p \in Procs : Pending(p)' = Pending(p)
      BY <1>1 DEF Pending
    <2>2. QED BY <1>1, <2>1, SameCounts DEF CountInv
  <1>2. ASSUME NEW p \in Procs, AcquireLock(p) PROVE CountInv'
    <2>1. /\ call' = call /\ health' = [health EXCEPT ![p] = NewHealth]
          /\ call[p] = [c \in Callers |-> NoCommand]
      BY <1>2 DEF AcquireLock, WaitInv, IdleInv, Serving
    <2>2. Pending(p)' = {} /\ \A q \in Procs : Pending(q)' = Pending(q)
      BY <2>1 DEF Pending
    <2>3. /\ health'[p] = NewHealth /\ \A q \in Procs \ {p} : health'[q] = health[q]
          /\ health' \in [Procs -> Healths]
      BY <2>1, NewHealthCounts DEF CountInv
    <2>4. QED BY <2>2, <2>3, SameCounts
  <1>3. ASSUME NEW p \in Procs, NEW c \in Callers, SubmitAppend(p, c) PROVE CountInv'
    <2> DEFINE m == [kind |-> "append", event |-> events', caller |-> c]
    <2>1. m # NoCommand /\ m.kind = "append" /\ call[p][c] = NoCommand
      BY <1>3 DEF NoCommand, SubmitAppend
    <2>2. call' = [call EXCEPT ![p][c] = m]
      BY <1>3 DEF SubmitAppend
    <2>3. health' = [health EXCEPT ![p] = Accepting(@)]
      BY <1>3 DEF SubmitAppend, CountInv, Accepting
    <2> HIDE DEF m
    <2>4. c \notin Pending(p) /\ Pending(p)' = Pending(p) \cup {c}
      BY <2>1, <2>2 DEF Pending, TypeInv
    <2>5. \A q \in Procs \ {p} : call'[q] = call[q]
      BY <2>2 DEF TypeInv
    <2>6. QED BY <2>3, <2>4, <2>5, OnePending
  <1>4. ASSUME NEW p \in Procs, NEW c \in Callers, SubmitReport(p, c) PROVE CountInv'
    <2>1. PICK k \in Reports : call' = [call EXCEPT ![p][c] = [kind |-> k, caller |-> c]]
      BY <1>4 DEF SubmitReport
    <2> DEFINE m == [kind |-> k, caller |-> c]
    <2>2. m.kind # "append" /\ call[p][c] = NoCommand /\ health' = health
      BY <1>4 DEF Reports, SubmitReport
    <2>3. call' = [call EXCEPT ![p][c] = m]
      BY <2>1
    <2> HIDE DEF m
    <2>4. \A q \in Procs : Pending(q)' = Pending(q)
      BY <2>2, <2>3 DEF Pending, TypeInv
    <2>5. QED BY <2>2, <2>4, SameCounts DEF CountInv
  <1>5. ASSUME NEW p \in Procs, TakeAppend(p) PROVE CountInv'
    <2>1. CASE UNCHANGED <<call, health>>
      BY <1>1, <2>1
    <2>2. CASE AppendFailed(p) /\ Reply(p, Head(queue[p]).caller)
      <3> DEFINE c == Head(queue[p]).caller
      <3>1. queue[p] # <<>> /\ Head(queue[p]).kind = "append"
        BY <1>5 DEF TakeAppend
      <3>2. c \in Callers /\ call[p][c] = Head(queue[p])
        BY <3>1, HeadCommand, ChannelHead DEF WaitInv, QueueInv
      <3>3. c \in Pending(p)
        BY <3>1, <3>2 DEF Pending, NoCommand
      <3>4. health' = [health EXCEPT ![p] = Failing(@)]
        BY <2>2 DEF AppendFailed, CountInv, Failing
      <3>5. Reply(p, c)
        BY <2>2
      <3> HIDE DEF c
      <3>6. QED BY <3>3, <3>4, <3>5, OneLess
    <2>3. QED BY <1>5, <2>1, <2>2 DEF TakeAppend
  <1>6. ASSUME NEW p \in Procs, TakeReport(p) PROVE CountInv'
    <2> DEFINE c == Head(queue[p]).caller
    <2>1. queue[p] # <<>> /\ Head(queue[p]).kind \in Reports /\ Reply(p, c)
      BY <1>6 DEF TakeReport
    <2>2. c \in Callers /\ call[p][c] = Head(queue[p])
      BY <2>1, HeadCommand, ChannelHead DEF WaitInv, QueueInv
    <2>3. c \notin Pending(p)
      BY <2>1, <2>2 DEF Pending, Reports
    <2>4. PICK ok \in BOOLEAN :
            health' = [health EXCEPT ![p].state = StateAfter(Head(queue[p]).kind, ok, @)]
      BY <1>6 DEF TakeReport
    <2> DEFINE s == StateAfter(Head(queue[p]).kind, ok, health[p].state)
    <2>5. health' = [health EXCEPT ![p] = Moved(health[p], s)]
      BY <2>4 DEF Moved, CountInv
    <2>6. health[p] \in Healths /\ s \in WriterStates
      BY DEF CountInv, StateAfter, Healths, WriterStates
    <2> HIDE DEF s, c
    <2>7. \A q \in Procs : Pending(q)' = Pending(q)
      BY <2>1, <2>2, <2>3 DEF Reply, Pending, TypeInv
    <2> DEFINE g == Moved(health[p], s)
    <2>8. /\ g \in Healths
          /\ g.accepted = health[p].accepted /\ g.queued = health[p].queued
          /\ g.persisted = health[p].persisted /\ g.failed = health[p].failed
      BY <2>6, MovedCounts
    <2>9. health' = [health EXCEPT ![p] = g]
      BY <2>5
    <2> HIDE DEF g
    <2>10. QED BY <2>7, <2>8, <2>9, SameCounts DEF CountInv
  <1>7. ASSUME NEW p \in Procs, SyncActive(p) \/ WriteFails(p) PROVE CountInv'
    <2> DEFINE c == work[p].caller
    <2>1. pc[p] \in {"write", "sync"} /\ Reply(p, c)
      BY <1>7 DEF SyncActive, WriteFails
    <2>2. work[p] \in Commands /\ work[p].kind = "append" /\ call[p][c] = work[p]
      BY <2>1 DEF WaitInv, WorkInv
    <2>3. c \in Pending(p)
      BY <2>2 DEF Pending, NoCommand, Commands
    <2>4. \/ health' = [health EXCEPT ![p] = Failing(@)]
          \/ health' = [health EXCEPT ![p] = Persisting(@)]
      BY <1>7 DEF SyncActive, WriteFails, AppendFailed, Failing, Persisting, CountInv
    <2> HIDE DEF c
    <2>5. QED BY <2>1, <2>3, <2>4, OneLess
  <1>8. ASSUME NEW p \in Procs, Shutdown(p) PROVE CountInv'
    <2>1. /\ call' = call /\ health' = [health EXCEPT ![p] = NoHealth]
      BY <1>8 DEF Shutdown
    <2>2. Pending(p)' = {} /\ \A q \in Procs : Pending(q)' = Pending(q)
      BY <1>8, <2>1 DEF Pending, Shutdown
    <2>3. /\ health'[p] = NoHealth /\ \A q \in Procs \ {p} : health'[q] = health[q]
          /\ health' \in [Procs -> Healths]
      BY <2>1, NewHealthCounts DEF CountInv
    <2>4. QED BY <2>2, <2>3, SameCounts
  <1>9. ASSUME NEW ps \in SUBSET Procs, Gone(ps) PROVE CountInv'
    <2>1. \A q \in ps : health'[q] = NoHealth /\ call'[q] = [c \in Callers |-> NoCommand]
      BY <1>9 DEF Gone
    <2>2. \A q \in Procs \ ps : health'[q] = health[q] /\ call'[q] = call[q]
      BY <1>9 DEF Gone
    <2>3. health' \in [Procs -> Healths]
      BY <1>9, NewHealthCounts DEF Gone, CountInv
    <2>4. /\ \A q \in ps : Pending(q)' = {}
          /\ \A q \in Procs \ ps : Pending(q)' = Pending(q)
      BY <2>1, <2>2 DEF Pending
    <2>5. QED BY <2>1, <2>2, <2>3, <2>4, SameCounts
  <1>10. ASSUME NEW p \in Procs, Kill(p) PROVE CountInv'
    BY <1>9, <1>10 DEF Kill
  <1>11. CASE PowerLoss
    BY <1>9, <1>11 DEF PowerLoss
  <1>12. ASSUME NEW p \in Procs,
                OpenStore(p) \/ RecoverActive(p) \/ OpenFails(p) \/ Write(p)
         PROVE  CountInv'
    BY <1>1, <1>12 DEF OpenStore, RecoverActive, OpenFails, Write, writer
  <1>13. ASSUME NEW p \in Procs, NEW c \in Callers, Send(p, c) PROVE CountInv'
    BY <1>1, <1>13 DEF Send
  <1>14. CASE Rollover \/ CheckLock \/ RemoveStaleLock \/ UNCHANGED vars
    BY <1>1, <1>14 DEF Rollover, CheckLock, RemoveStaleLock, vars, writer
  <1>15. QED
    BY <1>2, <1>3, <1>4, <1>5, <1>6, <1>7, <1>8, <1>10, <1>11, <1>12, <1>13, <1>14
       DEF Next, Worker

(* WriterHealth adds up at every moment, for any number of processes,        *)
(* callers and failures: each event accepted is persisted, failed, or        *)
(* counted as queued, and the queued ones are exactly those whose caller     *)
(* still waits.                                                              *)
THEOREM HealthAddsUp == Spec => []CountersAddUp
  <1>1. Init => WaitInv /\ CountInv
    <2> SUFFICES ASSUME Init PROVE WaitInv /\ CountInv
      OBVIOUS
    <2>1. WaitInv
      BY DEF Init, WaitInv, QueueInv, WorkInv, IdleInv, OwnInv
    <2>2. \A p \in Procs : Pending(p) = {} /\ health[p] = NoHealth
      BY DEF Init, Pending
    <2>3. IsFiniteSet({}) /\ Cardinality({}) = 0
      BY FS_EmptySet
    <2>4. health \in [Procs -> Healths]
      BY NewHealthCounts DEF Init
    <2>5. \A p \in Procs : Balanced(p)
      BY <2>2, <2>3, NewHealthCounts DEF Balanced
    <2>6. QED BY <2>1, <2>2, <2>3, <2>4, <2>5 DEF CountInv
  <1>2. CountInv => CountersAddUp
    BY DEF CountInv, Balanced, CountersAddUp, Pending
  <1>3. QED BY <1>1, <1>2, StartsEmpty, TypeStep, WaitStep, CountStep, PTL DEF Spec
===============================================================================
