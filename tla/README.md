# A verification project for any-cal

any-cal serves the contacts and tasks of an Anytype Space to CardDAV and
CalDAV clients, and to an Android account adapter. This directory holds TLA+
models of the parts of it whose correctness depends on ordering, failure or
concurrency, the TLC configurations that check them, and machine-checked
proofs. Paths below are relative to the repository.

## 1. Inventory

| Component | State | Operations | Hard behaviour | What makes it correct | Modules |
|---|---|---|---|---|---|
| Sync checkpoint store `crates/sync` | `SyncState` in memory, primary and backup file, lock file, `recovered_from_backup` | open, observe, replace, resurrect, enqueue, mark applied, tombstone, export, restore, drop | crash or failure between two file operations, second opener, corrupt primary, scopes | nothing acknowledged is lost; one writer; scopes never mix; deletions are remembered | `SyncState` `SyncStore` `DurableCheckpoint` |
| Anytype adapter `crates/anytype-adapter` | a cache of the Space, metrics, receipts | hydrate, get, list, create, update, archive, reconcile | other clients change the Space between calls, offset paging, calls with an unknown outcome | conditional writes change the version they name; identities stay unique; a write that is reported is stored | `AnytypeSpace` `AnytypeRepository` |
| DAV server `crates/dav-server` | none of its own | PUT, DELETE, OPTIONS, PROPFIND, GET, HEAD, REPORT, free-busy | conditions and answers rest on several reads | the server's own refusals are never preceded by a write; a client's copies stay current | `DavService` `DavReads` |
| Application `crates/app/src/lib.rs`, `admin.rs` | the registry, the store, audit, health, rate window | handle, checkpoint the visible state, Android push and pull, admin | write, checkpoint and audit are three effects; checks at several places | success means stored and recorded; only who may gets through | `ServiceFront` `DavService` `AndroidSync` |
| Listener `crates/app/src/lib.rs` 1536-1684, `http.rs` | slot counter, shutdown flag, the application mutex | accept, serve, shut down | slots, a poisoned mutex, silent clients | slots are returned; shutdown ends once the clients are silent | `Listener` |
| Domain registry `domain_registry.rs`, identity `identity.rs` | per-domain authorization state; credentials, grants, a snapshot | preflight, observe a response, reauthorize; add, revoke, save, load, authorize | stale authorization, shadowed routes | a denied domain is not contacted; revocation lasts | `DomainBindings` `IdentityPolicy` `Authorization` `ServiceFront` |
| Configuration `config.rs` | none | assemble three layers, validate | a combination nobody tried | what starts is safe to run | `Configuration` |
| Audit journal `crates/observability` | segments, active file, writer lock, queue | open, append, rotate, read back, export, shut down | crash between rename steps, a full queue, stale locks | sequences have no gap or repetition; an acknowledged event survives | `AuditLog` `AuditJournal` |
| Android bridge `core/src/bridge.rs`, `crates/android-bridge` | a batch on the device | push, pull | partial batches, lost answers, replays | no edit is lost or stored twice | `BridgeContract` `AndroidSync` |
| Formats, composition, discovery, retry classification, tools, user interface, the Kotlin client | see section 7 | | | | |

How they interact: a connection thread takes the application mutex and calls
`handle`; `handle` checks authorization and the rate, routes to a domain's
`DavServer`, which calls its `AnytypeRepository`, which calls the Space over
HTTP, several times per request. For PUT and DELETE that succeeded, `handle`
then lists the collections again through the adapter, gives the rows to
`SyncStore::replace_observed`, appends the audit event, and answers. Requests
are therefore serial behind the mutex. The concurrency that matters is with
*other clients of the Space*, among the listener's threads, between request
threads and the audit worker, with a second process on the same files, and with
crashes. `PROJECT.json` lists the hazards, each at its line.

## 2. Modules

```
SyncState        the record and what each operation computes from it
  |-- DurableCheckpoint   abstract: what the store promises its owner
  |-- SyncStore           detailed: lock, files, commit, crashes
        |-- MCSyncStore        instances
        |-- SyncStoreProofs

AnytypeSpace     the remote Space and its other clients (external)
  AnytypeRepository       hydrate, preflights, write calls, reconciliation
    |-- SpaceProofs       lemmas: what other clients, a write and a scan do
    |-- DavService        PUT and DELETE from lookup to answer; composed
    |                     with DurableCheckpoint
    |     |-- MCDavService, DavServiceProofs
    |-- DavReads          OPTIONS, PROPFIND, GET, HEAD, REPORT
    |     |-- MCDavReads, DavReadsProofs
    |-- AndroidSync       push and pull; also EXTENDS BridgeContract
          |-- MCAndroidSync, AndroidSyncProofs

AuditLog         abstract: an append-only log
AuditJournal     detailed: segments, rename, sync, lock, queue, worker
  |-- MCAuditJournal, AuditJournalProofs

DomainBindings   bindings, routes, and which domain a path belongs to
  Configuration           file, environment, command line, validation
IdentityPolicy   credentials, grants, the snapshot
  Authorization           who may send a request (over both of the above)
    ServiceFront          the service in front of DAV
      |-- MCServiceFront, ServiceFrontProofs

Listener         accept loop, worker threads, mutex, shutdown
  |-- MCListener, ListenerProofs
```

### The checkpoint store

**SyncState.** The state of the store without files. An identity stands for its
whole observed row or tombstone row; UID, ETag and dates are carried by the code
and inspected by no rule of this module. `HoldsHistory`, `Bindable` and `Bound`
are `bind_scope`; every candidate carries the next generation, as
`transaction` does.

**SyncStore.** One action per file operation that a crash or another process
can see. Opening is `AcquireLock` then `Load`; committing is `Transaction`,
`StartBackup` (`fs::copy` truncates), `FinishBackup`, `SyncBackup`, `Rename`,
`SyncDirectory`. Each can fail (`CommitFails`), returning to `idle` with the old
memory. `file` is what processes see and `disk` is what a power loss leaves;
`Writeback` may make either file durable early. The temporary file is private to
its commit and fsynced before the rename, so it needs no variable. `acked` and
`doubtful` are history variables: the last state reported as committed, and the
ones renamed since.

**DurableCheckpoint.** What a client may rely on: one settled state, a set of
attempts in doubt, `Open` shows one of them, success settles. It is the
abstract side of the refinement `ImplementsCheckpoint`, and the *same module*
is what `DavService` uses, so the model of the service rests on a proved
property of the store and not on an idealised disk.

### The Space and its readers and writers

**AnytypeSpace.** Code outside this repository, modelled from how the adapter
uses it: objects in creation order, list pages by offset over live objects, no
revisions and no conditional writes. Other clients create, edit, archive, or
change a property DAV does not project. `late` is the one outstanding call that
timed out and may still `Land`.

**AnytypeRepository.** `ReadPage`/`Hydrated`/`HydrateFails` are `hydrate` with
its staging and swap; `Accepts` and `Taken` are the preflight on the cache;
`TimeOut` lets a write take effect, never, or later; `Matches` and `Candidates`
are the comparisons of the two reconciliations. The ETag of a resource is the
digest of its canonical envelope, so it is represented by the row.

**DavService.** The stages of a PUT or DELETE, in the order of the code:
`lookup` (`get_resource` in `put` and `delete`), `condition` (`condition_for`),
`refresh` (hydrate and preflight of the write), `fetch` (the read in
`push_update`), `send`, `reconcile` or `confirm`, `contacts`, `tasks` (the
listing in `checkpoint_visible_state`), `commit`, `publishing`. Every hydrate
is a sequence of page reads between which other clients act. Every call of the
Space may fail with the statuses of `SpaceErrors`, as `map_transport_error` and
`status_for` tell them, and the error is answered at once: by a listing
(`ScanFails`), by the read in `push_update` (`FetchFails`; a 404 there is passed
over), by the write itself (`WriteFails`), and by the reads that confirm or
reconcile it. So a PUT or DELETE may be answered 404 or 409 after the write was
sent, or even carried out: `confirm_archive` after a successful archive reports
the 404 of its read (crates/anytype-adapter/src/lib.rs:1506), and where the
Space's answer is broken off or unreadable (`Unreadable`) the write may stand. A
panic poisons the service (`PutPanics`), and `Crash`/`Start` lose and rebuild
the process.

**DavReads.** A request is received, parsed and routed (`Discovery`,
`BadRequest`, `Route`, `Parse`), then a hydrate is read page by page for the
stage the method needs, then one action answers: `Get`, `PropfindResource`,
`PropfindCollection`, `PropfindList`, `PropfindHome`, `Report`. The variable
`held` is the client's copy of each resource; `Answer` updates it as a
synchronizing client does. Conditions (`NotModified`), selection of properties
(`Wanted`), time normalisation (`NormalizeTime`) and filters (`FilterMatches`)
are operators. Last-Modified is, as in the code, the second of the hydrate plus
the position of the row, and is not stored anywhere. A read that fails is 404 on
the single-resource and home forms of PROPFIND, and what `StatusFor` makes of
the error elsewhere. Since hydrate reads the whole Space, a 404 of the Space to
any page or object is answered to a GET as the 404 of its resource, and the
client drops its copy; the field `failure` of an answer records, for the
property only, which error it stands for.

**BridgeContract, AndroidSync.** The first is one exchange seen from the device:
the requests and responses the contract accepts, the endpoints the client will
send a token to, and what it makes of the bytes that come back. The second is
the whole of `android_pull` and `android_push`: the batch is validated, the
collection listed once, every item matched with what was listed (`Targets`), and
written item by item through the adapter (`Refresh`, `Fetch`, `Sent`,
`ReconcileWrite`, `ReconcileCreate`); the first error ends the batch with
whatever has been written. The device keeps `pending` until an answer without an
error reaches it (`Deliver`), and `Deliver(0)` loses the answer. Neither the
checkpoint nor the audit journal is involved: this path of the code writes
neither. A create is sent only while the bounded Space has room for it (`Room`).

### The audit journal

**AuditLog.** A log that grows at its end, where only what was not acknowledged
may be lost.

**AuditJournal.** `OpenStore` reads and validates all records, `RecoverActive`
rewrites the active file, and only then `AcquireLock` takes the lock: this is
the order of the code, and the reason why the theorems about the log assume one
process. A caller submits (`SubmitAppend`, `SubmitReport`), blocks while the
channel is full (`Send`), and waits; the worker takes one command at a time
(`TakeAppend`, `TakeReport`), renames the new active file (`Write`) and syncs
the directory (`SyncActive`), each of which may fail. `Rollover` closes a
segment, `CheckLock` and `RemoveStaleLock` are the two steps of
`recover_stale_lock`, `Shutdown` drains the queue. `dir` is the directory as
processes see it and `possible` the set of directories a power loss may leave.

### The service in front of DAV

**DomainBindings, Configuration, IdentityPolicy, Authorization.** Pure: which
bindings and routes are valid, which route a path takes, how the three layers of
settings override one another and what `validate` refuses; credentials, grants,
the snapshot a store is saved to and loaded from; and `AuthorizationStatus`, the
chain of checks that gives a request its 401, 403 or a pass. Bindings are a
function of domain identifiers, as the registry's ordered map is; the first
domain is the one with the least identifier.

**ServiceFront.** `Start` assembles, validates and builds; `Prepare` is what an
embedding program does around it (attach identities, revoke, save and load a
snapshot). `Handle` is one request under the mutex: refused, throttled,
administration, the Android bridge, health, and for DAV the preflight of the
domain, the DAV status, `Observed` (what the status teaches about the domain's
authorization), the checkpoint and the audit result. `Around` are the calls and
events between requests: reauthorization, the clocks, the journal degrading.
The DAV server enters as its status (`OwnStatuses`, `SpaceStatuses`), in which
200 is any success, and 404 and 503 are all the statuses the front takes no
notice of: only success, 401 and 403 matter to it. PROPFIND of one resource
answers 404 for every error, PROPFIND of a collection tells the error. What the
DAV server does is in the modules above. The
history variable `recent` holds, for each length up to a window, the requests
let through in the latest ticks of that length.

**Listener.** `Accept` admits, answers 503, or notices the shutdown flag; a
worker reads (`ReadRequest`, `ReadEnd`, `ReadTimeout`), takes the mutex (`Lock`,
which ends the connection when it is poisoned), handles or panics, writes and
goes on or leaves, without a look at the shutdown flag. `Return` is the end of
`serve`, after the slots drained. A client sends as many requests on its
connection as it likes (`Send`); nothing bounds them.

## 3. Runs

Times are those of a run alone, with two workers; several at once take twice as
long.

| Run | Question | Bounds | Time |
|---|---|---|---|
| `store_crash` | lock, durability and refinement with failures, kills and power loss between file operations | two processes of one scope, one identity, replace, resurrect and tombstone, 2 generations | 20 s |
| `store_rot` | form of the record and the backup, when the primary becomes unreadable | one process, pending work queued and applied, one operation identifier, 3 generations | 80 s |
| `store_scopes` | two scopes and an unscoped opener, export and restore | three processes, one identity, one generation and its restores | 25 s |
| `dav_writes` | two writes with every condition, against edits, archives, property changes and timed-out calls | two names, two UIDs, two bodies, one foreign change, one page; calls fail by a timeout only | 2 min |
| `dav_recovery` | termination with failing calls, late writes, crashes, failing commits and audit | pages of one object, one foreign create, two requests, two reconciliation reads; calls fail with 404, 409, 500, 503 or a timeout | 3 min |
| `dav_reads` | does a client that follows the answers hold what the Space holds | three names (one ends with another), two UIDs, two objects, pages of one object, two requests, one foreign edit or archive; reads fail with a timeout or with 404 | 1 min |
| `android_sync` | replays, partial batches, lost answers, pulls | three names (two of one UID), a batch of up to two items, one pull, one fault, one foreign change, one page | 2 min |
| `audit_journal` | the journal through failures, kills, power loss, rollover | one process, two callers, a queue of one, three events, one rollover, one report | 20 s |
| `service_front` | what starts, who gets in, what reaches a Space | 4 files x 2 environments x 8 command lines, 12 requests, a window of two ticks, one call around the service | 1 min |
| `listener` | slots, refusals and ends of threads | three connections for two slots, any number of requests, one panic | 1 min |
| `finding_*` | two comments of the source that the code does not meet | the smallest instance that shows each | seconds |

Why the bounds suffice. Every DAV property relates at most two requests (one and
its retry), one change by another client, and one crash or failure. Pages of one
object are what it takes for a listing to turn a page, two objects for another
to be missed. Two generations are what it takes for a backup to exist and three
for it to be overwritten. A queue of one with two callers has a caller blocked
behind a full queue; three events leave one in the closed segment, one in the
active file and one in doubt. Three connections for two slots have one refused
while both slots are taken. A batch of two items can fail after the first. The
configuration layers name, for each check of `validate` that another setting
decides, a combination on either side. `MaxGeneration`, `MaxRequests`,
`MaxForeign`, `MaxObjects`, `MaxEvents`, `MaxRolls`, `MaxReadbacks`,
`MaxBatches`, `MaxPulls`, `MaxItems`, `MaxFaults`, `MaxPanics`, `NumConns`,
`MaxClock` and `MaxCalls` are bounds; the theorems hold for every value of those
that occur in their modules.

`CHECK_DEADLOCK FALSE` is set everywhere because the bounded systems stop when
their requests, events or generations are used up, because a poisoned service
serves nothing more, and because a stopped listener has stopped. `service_front`
checks modulo a `VIEW` that drops the last answer, which no guard and no
invariant reads, and, once the service runs, the ledger and its snapshot, which
nothing reads any more. `dav_reads` is symmetric in the UIDs and has no liveness
property.

Each property has a mutant in `PROJECT.json`: an operator kept beside the
definition it replaces and introduced by a comment that begins "Seeded fault".
Replacing the definition by it must make the property fail.

### Properties

*Checkpoint store.* `ExclusiveWriter`: two live stores never share a checkpoint.
`NoLostAck`: after any crash the checkpoint opens, with the last acknowledged
state or one in doubt after it, for `file` and for `disk`. `AckedAdvances`,
`DeletionRemembered`: acknowledged generations grow, and no acknowledged
identity disappears without a tombstone, across owners; neither is claimed of a
store that is restored from an export, which goes back. `SomeCopyReadable`,
`BackupTrails`: `recovered_from_backup` protects the only good copy, and the
backup is at most one generation behind. `TombstonedNotObserved`: for the
operations the service uses and explicit resurrection; `observe` and
`mark_applied` do not keep it. `ScopeRespected`, `ScopeKept`: `bind_scope` and
the scope test of a restore. `ImplementsCheckpoint`: the refinement.

*DAV writes.* `UniqueIdentity`, `SuccessStored`, `SuccessRecorded`,
`RefusedUnsent` (nothing was sent for a request answered 412, nor for one
answered 404 or 409 where no call of the Space fails with that status; it says
no more, because the code relays those of the Space also after the write),
`EveryRequestEnds`, and `NoLostUpdate`, which excuses exactly
the window the protocol cannot close: a change by another client after the
service began the last hydrate before its write. `UniqueIdentity` and
`SuccessStored` are checked without calls that land late and without foreign
creates; with either the code has no means to keep them. `SuccessRecorded` is
checked with listings of one page (see section 4).

*DAV reads.* `CopyCurrent`: 304 means the copy is current, 404 and absence from
a listing mean the resource is gone, and a read that failed never looks like a
deletion unless the Space itself answered it with 404; resources another client
touched during the request are excused, and so is a listing during which another
object was archived. `MultigetAnswersEvery`: each href is answered once and
nothing else is sent, where no requested name is the ending of another.
`RangeExact`: inclusive start, exclusive end, for the date and the date-time
forms; the run has a task strictly inside a range, one exactly at its start and
one exactly at its end.

*Android.* `AcknowledgedStored`, `PullComplete`, `NoSecondObject`,
`EditsArrive`; the last is conditional on a Space that can be listed, since two
objects with one identity make every hydrate fail.

*Journal.* `JournalContiguous` of every directory a power loss may leave,
`CountersAddUp`, `ImplementsLog` (the refinement), `EveryAppendAnswered`.

*Front.* `StartedSafely`, `RoutesUnambiguous`, `RateBound` (any window, wherever
it starts, lets at most twice the limit through), `RevokedStaysOut`,
`CapabilitiesMatch`, `DeniedNotContacted` (of DAV requests below a domain's
routes: the homes, the Android bridge and `/ready` bypass the suspension and are
not part of it), `OptionsTruthful`.

*Listener.* `SlotsExact` (a slot leaks by a panic and by nothing else),
`RefusedUnhandled`; `WorkerEnds` and `SignalStops`, which suppose that the
clients stop sending at some time (`Silence`) and say that then every thread
ends without anyone hanging up, and that a signal ends `serve`. Without that
supposition neither holds of the code (section 4).

### Fairness

| Module | Assumed | Why the code justifies it |
|---|---|---|
| `DavService` | `WF(Serve)` | the handler is one synchronous call on a thread of its own; every HTTP call it makes has a timeout and so returns, and file operations return |
| `AndroidSync` | `WF(Serve)`, `WF(Push)`, `WF(Deliver(1))` | as above; the platform schedules a failed sync again; an answer that is not lost arrives |
| `AuditJournal` | `WF(Worker(p))`, `SF(Send(p, c))` | the worker loops on its channel; a sender blocked on the bounded channel is woken when there is room, in turn |
| `Listener` | `WF` of `Accept`, `SeeSignal`, `Return` and each `Worker(c)` | the accept loop polls; a read ends by the 5 s timeout, by a request, by the end of the stream, or, if its client sends byte by byte, by the limits of 64 KiB on the head and 16 MiB on the body; writes have a timeout; handling ends |

Nothing is assumed of other clients of the Space, of crashes, of new requests,
or of the operator. No fairness is assumed of HTTP clients either; `WorkerEnds`
and `SignalStops` have as their hypothesis that they fall silent.

## 4. Findings

1. `finding_wildcard_put`: PUT with `If-Match: *` to a missing resource panics
   under the application mutex. A comment (crates/dav-server/src/lib.rs:940)
   says that the lookup has established that the resource exists.
2. `finding_event_replayed`: a calendar event pushed again from Android is not
   found, because the adapter lists contacts and tasks only, and a second object
   is made. A comment (crates/app/src/lib.rs:847) says that this is prevented.

Differences from the documentation, and surprises, that the models show and that
are not kept as runs:

* A commit that reports failure after the rename is shown by the next open
  (crates/sync/src/lib.rs:604), while docs/plan/sync-durability.md says that a
  candidate is published only after success. `DurableCheckpoint` has the
  attempts in doubt for this reason.
* The read and the update that carry unknown properties forward are two calls
  (crates/anytype-adapter/src/lib.rs:1782), so a property changed in between is
  overwritten; a timed-out update that committed is not recognised when the
  object has read-only system properties (2054).
* A listing of several pages misses a live object when another one is archived
  meanwhile (crates/anytype-adapter/src/lib.rs:1600). GET then answers 404, a
  listing omits it, and `replace_observed` tombstones it
  (crates/app/src/lib.rs:1363).
* `serve` does not return after SIGTERM while a client goes on sending requests
  on its connection, so the checkpoint's lock file is not released:
  `serve_connection` (crates/app/src/lib.rs:1653) never looks at the shutdown
  flag, its timeout is per read, and `thread::scope` joins every worker.
  docs/plan/service-lifecycle-lock-cleanup-current.md:26 says that a signal
  drains the workers and returns through the normal drop paths. Nor does
  anything but the client end such a connection, which keeps its slot.
* A DELETE or PUT may be answered 404 or 409 although it was carried out, when
  the Space gives that status to a read that confirms or reconciles it
  (crates/anytype-adapter/src/lib.rs:1506, 1885, 1893) or to the write.
* A GET is answered 404 when the Space answers 404 to any page or object that
  hydrate reads (crates/anytype-adapter/src/lib.rs:1603, 1617), although the
  resource itself is untouched.
* Opening the audit journal rewrites the active file before the lock is taken
  (crates/observability/src/lib.rs:547).
* PROPFIND of one resource or of the caldav home answers 404 for every error of
  the repository; multiget matches hrefs by their ending
  (crates/dav-server/src/lib.rs:528); PROPFIND and REPORT on any other path
  below `/carddav/` and `/caldav/` answer for the collection; PROPFIND reports
  getlastmodified as not found where REPORT gives it.
* Homes, the Android bridge and `/ready` bypass the suspension of a domain; the
  administration answers 404 to everyone once identities are attached; an
  Android push leaves neither a checkpoint nor an audit record; the native
  client drops the body of an answer that is not 2xx, so the codes of the
  contract for a refused batch reach the device as an unavailable transport.

## 5. Theorems

All hold for every value of the constants (sets of processes, identities, names,
callers, scopes, page sizes, limits and bounds) that satisfies the assumptions
named in the modules, and the further one in the table.

| Theorem | Assumes | Argument |
|---|---|---|
| *SyncStoreProofs* | | |
| `TypeCorrect` | nothing more | each candidate operator maps states to states |
| `Exclusive` | nothing more | inductive with the type invariant: the lock is free or orphaned only when every store is down |
| `NothingAckedIsLost` | the primary does not rot | strengthened by `Durable`: each copy of the primary is absent, acknowledged or in doubt; once present it stays; a renamed candidate is the primary |
| `ScopesNeverMix` | nothing more | `ScopeInv` adds the candidate of a commit in progress |
| `DeletionsAreRemembered` | no rot, no restore | `KnownEverywhere`: whatever an open store holds or stages knows what was acknowledged |
| `Refinement` | no rot | `InDoubt`: the candidate on the path is in doubt until the directory sync; each file operation is a step of `DurableCheckpoint` or a stutter |
| `OneCopyStaysReadable`, `BackupIsOneBehind` | no power loss, no restore | `Copies`: what each stage of a commit knows about the two files |
| `AckedGenerationsGrow` | no rot, no restore | `Newer`: candidates and states in doubt are newer than the acknowledged one, and no open store is behind it |
| `HistoryKeepsItsScope` | no power loss | `PathScoped`: what an open store finds on its path belongs to its scope if it records anything |
| `DeletedIsNotObserved` | neither `observe` nor `mark_applied` | `Separated`: every state in a file, a memory, a candidate or an artifact keeps the two sets apart |
| *ListenerProofs* | | |
| `SlotsNeverLeak` | nothing more | `TypeOK`, `QueueExact` and `SlotsExact` together: a queued connection holds no slot, and each step moves a connection and the counter alike |
| `RefusalsAreClean` | nothing more | `Tale`: what was written to a connection is one answer per handled request, and a refusal only on the way out |
| *DavServiceProofs* | | |
| `RefusalsSendNothing` | nothing more | `RefusalInv`: nothing was sent in a stage before `send`; the stages after it answer with the error of a call of the Space, with 408 or with 500, hence with 412 never and with 404 or 409 only if the calls fail so |
| `WritesNameTheCurrentVersion` | no call lands late | `VersionInv`: rows of a scan are current or touched since the scan began; the cache, the target and the call of a request come from such a scan and agree with its condition |
| `ServiceTypes` | nothing more | `TypeInv`: what each stage has in hand is typed and names objects that were created; objects are never destroyed, so the steps of others keep it |
| `SuccessMeansStored`, `SuccessMeansRecorded` | no call lands late, `WholeListings` | `WriteInv`: a scan knows every object that no one touched since it began (`LookInv`); an update names a live or touched object, a create sent is the only one of its identity (`TargetInv`); after the write it stands unless touched (`StoredInv`); each list of names is complete for its kinds (`ListedInv`) |
| `OneResourcePerIdentity`, `LostUpdatesRuledOut` | as before, and no other client creates | `SafeInv` adds `VersionInv` and `SoleInv`: what a request looked up under its name stays the only live object of that name, so that every later look finds the same |
| *DavReadsProofs* | | |
| `CopiesStayCurrent` | `MultigetsPlain` | `WorldInv`: a row that was read is the present one, or its object was touched, and what replaced it came in the same second (`ScanInv`); a scan misses an untouched object only when another was archived (`Listed`); what replaced a client's copy is dated no earlier than the copy (`HeldInv`); a read that failed drops a copy only where the Space said 404 (`ScanErrors`). `RankInv`: an object that was read has at least as many before it among those read as among those live, so that Last-Modified, which counts the former, cannot call a change old by more than `Excused` allows |
| `MultigetsAreAnswered`, `RangesAreExact` | nothing more | every answer comes from one complete scan (`Answered`, `Steps`); Before orders the moments totally, and with one due time "some value satisfies each bound" is "one value satisfies both" |
| *AndroidSyncProofs* | | |
| `PullsAreComplete` | `WholeListings`, contacts | `PullInv`: a listing that no client disturbed equals the Space when it is done, and only a listing that is done becomes an answer |
| `AcknowledgedIsStored` | `WholeListings`, `ContactsOnly` | `SyncInv`: what was listed is still there for each item that waits (`WriteReady`), and each item done is in the Space as the answer will say (`PushInv`, `AnswerInv`), up to what others touched |
| `NoDuplicates` | `WholeListings`, `ContactsOnly` | from `SyncInv`: a create is sent only for an identity that has no live object |
| *ServiceFrontProofs* | | |
| `FrontTypes`, `ServesSafely`, `RoutesLead` | nothing more | `FrontInv`: a running service has settings that `validate` accepted and the bindings they give, and what is known of the upstream covers exactly their domains; accepted bindings have routes apart (`WellBound`) |
| `TwiceTheLimit` | nothing more | `RateInv`: the requests of the latest ticks are at most those of the present window and, if they reach beyond it, one limit more |
| `RefusalsAreKept` | nothing more | `DeniedInv`: a domain whose refusal was told to a routed request is suspended, and `Dispatch` asks the suspension first |
| `OptionsTellTheTruth` | nothing more | from `FrontInv`, by comparing the two chains of checks link by link |
| `RevokedForGood` | `DistinctTokens` | `RevokedInv`: the ledger, the saved snapshot and the attached store each hold the issued credentials, with those revoked by then marked |
| `ReportsMatch` | `DistinctTokens` | from `RevokedInv`: a token names at most one credential, so the report and the check look at the same one |
| *AuditJournalProofs* | | |
| `NumberedOneByOne` | `OneProcess` | `LogInv`: every directory a power loss may leave is a numbered beginning of the present one that holds everything acknowledged; what a process is about to write extends it by one |
| `JournalImplementsLog` | `OneProcess` | from `LogInv`, each step appends, acknowledges, shortens to the acknowledged part, or leaves the log as it is |
| `HealthAddsUp` | nothing more | `WaitInv`: a waiting caller has one command, in its hand, in the queue or with the worker; `CountInv`: the counters then balance |

Why the further assumptions.

* Checkpoint store: when the primary becomes unreadable the store falls back to
  the previous generation, which loses an acknowledged state by design; after a
  power loss the backup may be torn and, once, the primary rot; a restore goes
  back on purpose.
* A late call changes an object after every check that could have seen it.
* `WholeListings` says that other clients archive nothing or that all objects
  fit on one page: a listing of several pages otherwise omits a live object
  (section 4), and the service then really does answer for a resource that it
  has not seen. The theorems of `DavReadsProofs` do without it: `CopyCurrent`
  and `RangeExact` name that case (`Shifted`).
* Another client that creates the name or UID being written makes two of it,
  which the code cannot prevent: the Space has no conditional create.
* The device of the Android theorems syncs contacts, because the adapter lists
  no events and a replayed event becomes a second object (finding 2).
* `MultigetsPlain` says that clients put no filter into a multiget, which has no
  place for one in CalDAV and CardDAV. The code applies it if there is one
  (crates/dav-server/src/lib.rs:541), and then answers 404 for a resource that
  exists and does not match.
* `DistinctTokens` says that no two credentials of the ledger share a token;
  `add_credential` does not insist on it, and of two with one token the
  revocation of one leaves the other valid.
* `OneProcess`: two processes that open one journal can both rewrite the active
  file, because the lock is taken afterwards.

Assumptions on constants, which TLC evaluates on every run: `LayersTyped`,
`RequestsTyped` and `LedgerTyped` say what the Rust types of the inputs of
`ServiceFront` say. The others are named in the modules that declare the
constants, and are about sentinels, bounds and the inclusion of one set in
another; `ErrorsAssumption` says that the Space's calls fail with statuses the
adapter's errors map to. `DueTyped` and `ReportsTyped` do the same for the bodies and the report
documents of `DavReads`.

*Only model-checked.* Liveness: `EveryRequestEnds`, `EveryAppendAnswered`,
`WorkerEnds`, `SignalStops`, `EditsArrive`; proofs of liveness under fairness
are out of reach of the prover used. Every safety property that a passing run
checks is stated by a theorem. No module declares a RECURSIVE operator.

## 6. Abstractions

* A page of a listing and the full reads of its objects are one step. Reading an
  object one call later is the same as a change of it just before or after.
* Names reach the disk in the order they were made, as in a journaling file
  system; without this a power loss could keep a new backup and lose the
  primary it was copied from.
* At most one call is late at a time.
* `DavService`: an error of the Space is the status it is answered with
  (`RemoteErrors`); errors of one status are one.
  `If-Unmodified-Since`, lists of tags in one header, and a name sent to the
  wrong collection are left out; each name belongs to one collection. The Space
  starts with the checkpoint recording it completely. The rejected document
  formats of PUT end a request before anything is read.
* A panic is only modelled where a handler can reach one; in `Listener` it is a
  choice, since what is handled is left open there.
* `AuditJournal`: an event is a number and records are whole; a torn tail within
  a line is left out. Which closed segments exist is abstracted to their records.
* `ServiceFront`: a path is the sequence of its segments, a token stands for its
  digest, a window of 60 seconds is two ticks.
* `DavReads`: the body of a resource is a model value, and what filters find in
  it is given by constants (`DueOf`, `WordsOf`, `PartsOf`); times are normalised
  as the code does.
* `AndroidSync`: UIDs stand for the identities the server derives; events share
  the configured collection with tasks.

## 7. Not modelled

* *Formats* (the vCard and iCalendar code of `crates/core`): parsing and printing
  of text, input/output functions without state.
* *Composition and orchestration, discovery, person context*: read models
  computed from configuration and one snapshot, on request; nothing else reads
  what they keep.
* *Retry classification*: `classify` and `retry_decision` are functions of one
  error; nothing in the service calls them in a loop.
* *Command-line tools, desktop user interface*: no protocol state.
* *The Kotlin client*: projection onto Android's content provider, whose
  behaviour on process death is not in this repository. `AndroidSync` starts
  where the device has a batch.
* In partly modelled components: the static `restore_from` of the store;
  `delete_resource`, projected property mode, object locks, receipts and metrics
  of the adapter; free-busy reports, XML syntax and the content checks of PUT;
  what administrative pages print, artifact backups and reconciliation reports;
  the journal's event buffer and redaction; collections and indexes of the
  in-memory repository. Each is named in `PROJECT.json` under its component.
