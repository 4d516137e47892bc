# Verification of wolfee-watcher

TLA+ models of the parts of wolfee-watcher that must not lose, repeat or
reorder what they were given, the TLC runs that check them on small instances,
and TLAPS proofs for the durable spool. `PROJECT.json` lists components, runs,
findings, hazards, theorems and, for every definition, the lines it models.

Run a check with `tlc -config MCSpoolSafety.cfg DiskSpoolInv` (the table below
names module and configuration of each run) and a proof with
`tlapm DiskSpoolSafety.tla`.

## 1. The system

Collectors in every cluster send what they see to kvisior, which stores it in
PostgreSQL, evaluates rules and serves the UI. The inventory, with the state
each part keeps and what makes it hard:

| Part | State | Operations | Hard behaviour |
|---|---|---|---|
| durable spool, `pkg/alerts/spool.go` | files in a directory and in `dead/`, list of files, byte counters, channel | Enqueue, write, send, compact, quarantine, open, Close | two goroutines and callers; crash or power loss between file operations; receiver away or rejecting |
| audit log reader, `sentry-audit/internal/logtail` | checkpoint file, open file, offsets, failed batch | open, drain, push, follow rotation, stop, restart | the log is rotated by another process at any time |
| admission webhook and forwarder, `sentry-audit/internal/webhook` | batch buffer, counters | admit, flush, shed, shut down | shedding when the spool is full; shutdown order |
| informer watcher, registration, log source (sentry-audit) | ring of events, registered webhook | informer callbacks, register | repeated list on reconnect |
| audit receiver and inbox, `kvisior/internal/auditdelivery`, `store/auditinbox.go` | `audit_inbox`, advisory locks | accept, process head, book failure, clean | answers lost, several replicas, worker cut off between two transactions |
| audit engine, `kvisior/internal/auditengine`, `store/audit*.go` | `audit_ingest_state`, `audit_events`, `audit_rule_matches`, alerts | ingest event, ingest log record, enrich, merge, materialize | two sources of one change in any order, sweep beside the workers |
| push queue, `pkg/alerts/queue.go` | channel, fallback channel, flags | Push, TryPush, loop, Close | waits while holding a lock |
| webhook delivery, `pkg/alerts/delivery.go` | delivery rows with attempts | reserve, send, mark, give up | crash between sending and marking; throttling |
| Kafka consumer, `kvisior/internal/kafka` | offsets, violations | poll, process, retry, commit | crash before the commit, rebalance |
| event hub, `kvisior/internal/hub` | ring buffer, client channels | publish, subscribe with replay | slow clients, publishing during replay |
| anomaly detector, `anomaly` | offsets, baselines, dirty set | consume, emit, learn, lock, flush | failed emission, failed flush |
| scan pool, `scanner-agent/internal/api` | queue, active workers, cancel function | enqueue, take, stop, restart | stop and start while workers drain |
| tracee bridge | seen set, rate limits | broadcast | marked as seen before produced |
| certificate holder and issuer, `pkg/mtls`, `cert-server` | certificate, expiry | fetch, store, renew | failure at each step of renewal |
| sensor, audit runner, honeypot operator, forensic watcher | snapshots, jobs, seen lines | list and post; run a job; copy lines | partial snapshots, a job's name used again |
| HTTP API, accounts, posture, policies, schema, charts | tables | read, single-statement writes, pure functions | none that needs a model |

The audit path joins several of these: the webhook puts events into the spool,
the spool and the log reader push batches to the receiver, the receiver commits
them to the inbox, workers hand them to the engine. Its three links, each with
its own acknowledgement, are the core modelled here.

## 2. Modules and how they correspond to the code

### DiskSpool: `pkg/alerts/spool.go`

Records are numbers in the order of the calls. `disk` and `dead` are the two
directories, `stable` and `deadStable` what a power loss would leave of them:
file contents are synced before the rename, names only with the directory.
`files`, `bytes`, `deadFiles`, `deadBytes`, `sequence` are the fields of the
same names. The writer is at `wpc`: `WriterTake`, `Reserve` (capacity and name),
`WriteFile`, `Publish`. The sender is at `spc`: `TakeHead`, `ReadHead`,
`Deliver`, `DeliverSingle`, `Quarantine`, `QuarantineSync`, `RemoveSent`,
`Forget`, and compaction from `StartCompact` over `CollectFile`, `WriteSegment`,
`SyncSegment`, `SwapSegment` to `RemoveMerged`. Steps are cut where the code
gives up its mutex or calls the file system, so that a crash, a fault (`Try`) or
the other goroutine can come between any two. `Open`, `Close`, `Cancel`,
`Released`, `Crash` and `LosePower` start and stop the process; `Decay` makes a
file unreadable. `spoilt` records what the disk itself has lost: records of
decayed files, and records whose directory sync failed, which persist only logs.

`DiskSpoolInv` adds the inductive invariant `SpoolInv`.

### LogTail: `sentry-audit/internal/logtail/tail.go`

The API server (external) writes, renames, creates and removes files. The reader
takes `Choose` and `Open` (open), `Resend`, `Read`, `Flush` (drain and send),
`CheckRotated` and `Tick` (Run), and saves `cp`, the checkpoint. `Stop`,
`Cancel`, `Crash` and `Restart` end and begin it. `excused` holds the records it
cannot be asked for: written before its first start, or removed by rotation
before it came to them. `RaceOpen` and `RaceStop` switch on two interleavings
in which the code does not keep its promise (section 5).

### AuditIngest: `kvisior/internal/auditdelivery`, `auditengine`, `store/audit*.go`

`Deliver` is a request with the transaction of EnqueueAudit; its answer may be
lost. A worker takes the cluster's lock and the head of its inbox and reads the
progress of its records (`Begin`), commits them one by one (`Ingest`), and marks
the batch (`Finish`) or not (`Fail`). `LoseLock` ends the session that holds the
lock while the engine goes on, so that two workers process the same batch.
`materialize` and `dropPendingEvent` are the sweep. The operators
`IngestEvents`, `LogOfEvent`, `LogAlone`, `enrich`, `mergeAdmission`, `persist`
and `act` give the state and tables after one transaction. A transaction is one
step because WithAuditEvent locks its state row and the object where twins are
looked up. A change is joined with its own twin only: which candidate is chosen
among several changes of one object is left out.

`MCIngest` gives changes, batches and rules for TLC.

## 3. What the runs check

| Run | Module, configuration | Properties | What it shows |
|---|---|---|---|
| `spool_safety` | DiskSpoolInv, MCSpoolSafety | TypeOK, SpoolInv, AcceptedNotLost, ListOnDisk, BytesMatchList, RunStaysInList, NamesAreFresh, FirstDeliveryInOrder | nothing accepted is lost and list, counters and names stay true, with a fault, an outage and a crash, power loss or Close at any step |
| `spool_quarantine` | DiskSpool, MCSpoolQuarantine | RejectedKept, DeadIsRejected, WithinLimit, DeadCounted, RejectedCounted | rejected records and unreadable files go to `dead/` and are counted; only rejects that leave a gzip segment exceed the capacity; every refused record is counted once |
| `spool_live` | DiskSpool, MCSpoolLive | CloseDrains, EventuallySettled, CloseReturns | everything accepted is delivered or quarantined; Close drains and returns |
| `spool_dead_letter_collision` | DiskSpool, MCSpoolDeadLetter | RejectedKept | violated, section 5 |
| `spool_dead_count` | DiskSpool, MCSpoolDeadCount | DeadCounted | violated, section 5 |
| `tail_safe_and_live` | LogTail, MCTail | TypeOK, NoneSkipped, CheckpointAcked, HeadroomHonest, OldestFirst, AllDelivered | the reader skips nothing, its checkpoint stays behind the acknowledgements, and all retained records arrive |
| `tail_stop_in_rotated_file` | LogTail, MCTailStop | CheckpointAcked | violated, section 5 |
| `tail_rotation_during_open` | LogTail, MCTailRace | NoneSkipped | violated, section 5 |
| `ingest_safe` | MCIngest, MCIngest | TypeOK, OneRow, AlertOnce, AckedKept | one row and at most one alert per rule for a change; nothing acknowledged is lost |
| `ingest_live` | MCIngest, MCIngestLive | AckedStored | a cluster whose head fails for ever does not hold up another |

### Bounds

- Spool: three records are enough for a segment of two files and a file behind
  it. `SegmentMax` 3, `CompactMin` 2 and `CompactEager` 3 make runs full,
  too short and eager. `spool_quarantine` has four records, batches of two and
  `Limit` 4, so that the spool is soon full, a batch of two is refused as a whole,
  and the channel overflows; two of its records are rejected, and when they leave
  a segment together the capacity is exceeded. That is what the code does:
  quarantineRecords writes rejects uncompressed and asks for no room.
  `WithinLimit` says that nothing else exceeds it. One
  fault, outage and stop each reach every error path; pairs of faults are left
  to the proof. `FirstDeliveryInOrder` is stated for `MaxRot` 0: an unreadable
  file is set aside and what follows it overtakes.
- Reader: three records in up to three files give a file before, at and behind
  the reader; with `MaxKept` 1 rotation removes a file under it.
- Ingest: two changes, one per kind of source, in batches that hold both, so
  that a batch can be cut off between its records; two workers; four deliveries of
  two batches (three in `ingest_live`), so that a batch comes again, answered or
  not; one failure, one lost session, one crash. In
  `ingest_live` a second cluster holds a batch that always fails, and the
  database refuses an event and a logged record. The backlog limit is never
  reached: a delivery that is turned away changes nothing. Deadlock is not
  checked in these two runs: with every batch delivered and processed the
  system is at rest.

### Fairness

- Spool: the two goroutines run, a stopped pod starts again, Close goes through.
  Outages are finite (`MaxOutages`): the code retries without end.
- Reader: its goroutine runs (weak fairness of `Work`); a `select` with both
  channels ready takes either, so a stop is taken in the end (strong fairness of
  `Stop`); the API server completes a rotation it has begun.
- Ingest: a worker goes on with its batch; the sweep comes round; a cluster with
  a waiting head gets a worker (strong fairness of `Begin` per cluster). The
  last holds because a failing head is not eligible while its backoff lasts (up
  to 32 seconds, while workers poll every second), so others have their turn.

## 4. What is proved

For every number of records, capacity, batch and segment size, and any number
of faults, outages, crashes and power losses, from `SpoolAssumption` alone:

- `TypeCorrect` (DiskSpoolTypes): `Spec => []TypeOK`.
- `SpoolCorrect` (DiskSpoolSafety): `Spec => []SpoolInv`.
- `NothingLost`: `Spec => []AcceptedNotLost`.
- `NamesFresh`: `Spec => []NamesAreFresh`.
- `RunKept`: `Spec => []RunStaysInList`; the "spool changed during compaction"
  branches are never taken.

`AcceptedNotLost` is not inductive: that a record is in some file does not say
that the file is on the list, that it survives a power loss, or that the sender
is not about to remove it. `SpoolInv` says what each goroutine knows between two
steps. `Secured`: every record owed is in a listed file, on stable storage where
power can fail. `SendKnows`: the sender only gets to remove a file whose records
are received or rejected. `CompactKnows`: the run still stands in the list in
one piece (`Aligned`, the snapshot shifted by what was sent meanwhile) and the
synced segment holds its records before the swap. `NamesBounded`: names in use
are behind the sequence, so a new file overwrites nothing. `DiskSpoolScan` proves
that `scan` lists every file once in the order of the names: ranks differ, and a
directory is finite, so every position is taken. `DiskSpoolLists` has
the lemmas about the list, `DiskSpoolKnows` one lemma per conjunct, and
`DiskSpoolSafety` treats `SendKnows` and `Secured` and puts the parts together.

Only model-checked: liveness, under fairness, is out of the prover's reach;
`BytesMatchList` and `WithinLimit` are about sums, which need induction over
data; the remaining spool properties, LogTail and AuditIngest have no proofs yet.

Two exceptions of `AcceptedNotLost` carry over to the theorem: a record whose file
became unreadable, and, where power can be lost, a record whose directory sync
failed in persist, which logs the failure and accepts it. The model excuses the
latter for good, although a later sync of the directory would secure it.

## 5. Findings

Each is a run in which TLC refutes a sentence of the documentation.

1. `spool_dead_letter_collision`, `spool.go:474`: quarantineRecords takes an
   existing dead file of the same base name for its own. After a crash between
   writing the dead file and removing the sent one, a merge gives a segment that
   name, and its other rejected records are dropped.
2. `spool_dead_count`, `spool.go:474-480`: if the sync of `dead/` fails once, the
   retry returns before the file is counted against the capacity.
3. `tail_stop_in_rotated_file`, `tail.go:464`: a stop makes drain return nil in
   the middle of a rotated file; Run takes the file for finished, moves on and
   saves a checkpoint behind which unread records lie.
4. `tail_rotation_during_open`, `tail.go:355`: a rotation between the choice of
   a path and os.Open makes the reader open the next file and skip one.

The passing runs of these modules leave out the one condition that leads to the
finding: no crash in `spool_quarantine`, no fault there, and `RaceStop` and
`RaceOpen` FALSE in `tail_safe_and_live`.

## 6. Not modelled

`PROJECT.json` gives the reason per component. Within the modelled ones:
truncation of a log in place, inode numbers used again, equal modification
times, the probe (LogTail); the receiver's places and bytes in memory, backoff
times, thresholds, silences, severity marks, publishing to the hub after the
commit, records older than the retention, the choice among several twins, the
second key under which a log record may have been processed before an upgrade
(`legacy` in IngestLog) (AuditIngest).

## 7. Plan

1. AlertQueue (`queue.go`, `fallback.go`) and AlertDelivery (`delivery.go`):
   nothing handed to Push disappears uncounted, Close returns, an alert is sent
   at most once per reserved attempt.
2. Consumers: the Kafka consumer and the anomaly consumer over one module for
   offsets; no record is committed that was not processed.
3. Forwarder (`kvisior_fwd.go`) and AuditPipeline, which composes forwarder,
   spool, reader and inbox; an abstract spool (a set of owed records) that
   DiskSpool implements, and an abstract inbox for AuditIngest.
4. ScanPool, event hub, certificate holder, baselines, tracee bridge.
5. Twin selection (`informerTwin`, `logTwin`) as operators checked against a
   definition of the right twin.
6. Proofs: the invariants of AuditIngest (`OneRow`, `AlertOnce`, `AckedKept`)
   with an invariant relating state, rows and claims; `CheckpointAcked` of
   LogTail; that DiskSpool implements its abstract specification; the queue's
   accounting.
