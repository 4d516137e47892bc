------------------------------ MODULE DiskSpool ------------------------------
(***************************************************************************)
(* The durable spool of pkg/alerts/spool.go: callers hand records to       *)
(* Enqueue, a writer goroutine batches them into numbered files, a sender  *)
(* goroutine delivers the files oldest first and, while the receiver is    *)
(* away, merges them into gzip segments.  Records the receiver rejects for *)
(* good, and files that cannot be read, move to the dead/ directory.       *)
(*                                                                         *)
(* A record is a number, its place in the order in which calls reach       *)
(* Enqueue.  A file name is <<sequence, 0>> for NNN.json and <<sequence,   *)
(* 1>> for NNN.json.gz; the lexicographic order of such pairs is the       *)
(* order in which scan sorts the names.  A file holds the records of its   *)
(* JSON array and a flag that tells whether it still parses.               *)
(*                                                                         *)
(* Next to what is in the two directories the model keeps what would       *)
(* survive a power loss (stable, deadStable): file contents are fsynced    *)
(* before the rename, but a name added to or removed from a directory is   *)
(* only certain once that directory has been synced.                       *)
(***************************************************************************)
EXTENDS Integers, Sequences, FiniteSets, Functions

CONSTANTS
  NumRecords,    \* calls of Enqueue
  Poison,        \* the records the receiver rejects permanently
  JobsCap,       \* capacity of the jobs channel (256)
  MaxBatch,      \* records written to one file (64)
  Limit,         \* capacity of the spool in bytes
  BlockSize,     \* spoolBlock
  RecordBytes,   \* size of a record in a .json file
  PackedBytes,   \* size of a record in a .json.gz file
  SegmentMax,    \* segmentMaxRecords
  CompactMin,    \* compactMinFiles
  CompactEager,  \* compactEagerFiles
  Clock,         \* the values time.Now may have when the spool is opened
  MaxLate,       \* bound: calls that time out
  MaxFaults,     \* bound: failed file operations
  MaxRot,        \* bound: files that become unreadable
  MaxOutages,    \* bound: deliveries that fail for now
  MaxStops,      \* bound: crashes and orderly stops
  PowerLoss      \* whether a crash may undo unsynced directory changes

Records == 1..NumRecords
Names == Nat \X {0, 1}
Entries == [name : Names, size : Int]

ASSUME SpoolAssumption ==
  /\ NumRecords \in Nat
  /\ Poison \subseteq Records
  /\ {JobsCap, MaxBatch, BlockSize, RecordBytes, PackedBytes, SegmentMax} \subseteq Nat \ {0}
  /\ {Limit, CompactMin, CompactEager} \subseteq Nat
  /\ Clock \subseteq Nat /\ Clock # {}
  /\ {MaxLate, MaxFaults, MaxRot, MaxOutages, MaxStops} \subseteq Nat
  /\ PowerLoss \in BOOLEAN

VARIABLES
  \* the two directories, and what a power loss leaves of them
  disk, stable, dead, deadStable,
  \* the receiver; the records whose persist call has returned nil; the records
  \* the disk has let down: their file became unreadable, or the directory sync
  \* after their write failed, which persist only logs, and power may be lost
  received, accepted, spoilt,
  \* the calls of Enqueue and the fields that are lost with the process
  call, late, rejected, jobs, closed, cancelled,
  files, bytes, deadFiles, deadBytes, quarantined, sequence, wake, pressure,
  \* writeLoop
  wpc, batch, wname,
  \* sendLoop: current file, its records, progress of single deliveries
  spc, cur, raws, idx, rejects,
  \* compact: snapshot, next position, run, its records, where to return, segment
  snap, pos, run, recs, ret, seg,
  \* what the environment has done so far
  faults, rot, outages, stops

dirs       == <<disk, stable, dead, deadStable>>
calls      == <<call, late, rejected, jobs>>
list       == <<files, bytes>>
counters   == <<deadFiles, deadBytes, quarantined>>
signals    == <<wake, pressure>>
writerVars == <<wpc, batch, wname>>
sendVars   == <<cur, raws, idx, rejects>>
packVars   == <<snap, pos, run, recs, ret, seg>>
env        == <<faults, rot, outages, stops, spoilt>>
shutdown   == <<closed, cancelled>>
sender     == <<spc, sendVars, packVars>>
writer     == <<calls, sequence, writerVars>>
outside    == <<accepted, shutdown, writer, signals>>
vars == <<dirs, received, accepted, calls, shutdown, list, counters,
          sequence, signals, writerVars, sender, env>>

-----------------------------------------------------------------------------
(* Files, names and sizes *)

blocks(n) == ((n + BlockSize - 1) \div BlockSize) * BlockSize

File(rs) == [recs |-> rs, ok |-> TRUE]

\* The room a file with k records takes on disk.
SizeOf(name, k) == blocks(k * (IF name[2] = 0 THEN RecordBytes ELSE PackedBytes))

Put(d, n, f) == [m \in DOMAIN d \cup {n} |-> IF m = n THEN f ELSE d[m]]
Del(d, n) == Restrict(d, DOMAIN d \ {n})

SegmentName(n) == <<n[1], 1>>
DeadName(n) == <<n[1], 0>>

Before(a, b) == a[1] < b[1] \/ (a[1] = b[1] /\ a[2] < b[2])

Entry(d, n) == [name |-> n, size |-> SizeOf(n, Len(d[n].recs))]
TotalSize(d) == SumFunction([n \in DOMAIN d |-> SizeOf(n, Len(d[n].recs))])

\* The records of a directory.
Content(d) == UNION {Range(d[n].recs) : n \in DOMAIN d}

Works == UNCHANGED env

\* A file operation: it succeeds, or it fails and the caller takes its error path.
Try(success, failure) ==
  \/ success /\ Works
  \/ /\ faults < MaxFaults
     /\ faults' = faults + 1 /\ UNCHANGED <<rot, outages, stops, spoilt>>
     /\ failure

-----------------------------------------------------------------------------
(* Opening and stopping the spool *)

NoFile == <<0, 0>>

NoSend == cur' = NoFile /\ raws' = <<>> /\ idx' = 0 /\ rejects' = <<>>
NoPack == /\ snap' = <<>> /\ pos' = 0 /\ run' = <<>> /\ recs' = <<>>
          /\ ret' = "down" /\ seg' = NoFile

\* What a stopped process leaves behind in memory: nothing.  Calls that had not
\* returned are cut off with it.
Forgotten ==
  /\ call' = [r \in Records |-> IF call[r] = "new" THEN "new" ELSE "past"]
  /\ late' = 0 /\ rejected' = 0 /\ jobs' = <<>> /\ closed' = FALSE /\ cancelled' = FALSE
  /\ files' = <<>> /\ bytes' = 0 /\ deadFiles' = 0 /\ deadBytes' = 0 /\ quarantined' = 0
  /\ sequence' = 0 /\ wake' = FALSE /\ pressure' = FALSE
  /\ wpc' = "down" /\ batch' = <<>> /\ wname' = NoFile
  /\ spc' = "down" /\ NoSend /\ NoPack

Init ==
  /\ disk = <<>> /\ stable = <<>> /\ dead = <<>> /\ deadStable = <<>>
  /\ received = {} /\ accepted = {} /\ spoilt = {}
  /\ call = [r \in Records |-> "new"]
  /\ late = 0 /\ rejected = 0 /\ jobs = <<>> /\ closed = FALSE /\ cancelled = FALSE
  /\ files = <<>> /\ bytes = 0 /\ deadFiles = 0 /\ deadBytes = 0 /\ quarantined = 0
  /\ sequence = 0 /\ wake = FALSE /\ pressure = FALSE
  /\ wpc = "down" /\ batch = <<>> /\ wname = NoFile
  /\ spc = "down" /\ cur = NoFile /\ raws = <<>> /\ idx = 0 /\ rejects = <<>>
  /\ snap = <<>> /\ pos = 0 /\ run = <<>> /\ recs = <<>> /\ ret = "down" /\ seg = NoFile
  /\ faults = 0 /\ rot = 0 /\ outages = 0 /\ stops = 0

\* A list of files in the order of their names, without repetition.
Sorted(l) == \A i, j \in DOMAIN l : i < j => Before(l[i].name, l[j].name)
NamesOf(l) == {l[i].name : i \in DOMAIN l}

\* scan: the files of a directory in the order of their names.  A crash in the
\* middle of writeSynced leaves only a .tmp file, which scan deletes.
scan(d) ==
  LET rank(n) == Cardinality({m \in DOMAIN d : Before(m, n)})
  IN  [i \in 1..Cardinality(DOMAIN d) |-> Entry(d, CHOOSE n \in DOMAIN d : rank(n) = i - 1)]

\* What the sort establishes (lemma ScanCorrect).
IsScan(l, d) ==
  /\ l \in Seq(Entries)
  /\ Sorted(l)
  /\ NamesOf(l) = DOMAIN d

\* Variant: the sequence starts from the clock alone.
NewDiskSpoolClockOnly(now) ==
  /\ spc = "down"
  /\ files' = scan(disk)
  /\ bytes' = TotalSize(disk)
  /\ deadFiles' = Cardinality(DOMAIN dead)
  /\ deadBytes' = TotalSize(dead)
  /\ sequence' = now
  /\ wpc' = "idle"
  /\ spc' = "head"
  /\ UNCHANGED <<received, accepted, shutdown, quarantined, batch, wname, dirs, calls,
                 signals, sendVars, packVars, env>>

\* NewDiskSpool: both directories are scanned, and both push the sequence
\* beyond the clock.  The flock keeps a second process out.
NewDiskSpool(now) ==
  /\ spc = "down"
  /\ files' = scan(disk)
  /\ bytes' = TotalSize(disk)
  /\ deadFiles' = Cardinality(DOMAIN dead)
  /\ deadBytes' = TotalSize(dead)
  /\ LET seen == {now} \cup {n[1] : n \in DOMAIN disk \cup DOMAIN dead}
     IN  \E s \in seen : (\A m \in seen : m <= s) /\ sequence' = s
  /\ wpc' = "idle"
  /\ spc' = "head"
  /\ UNCHANGED <<received, accepted, shutdown, quarantined, batch, wname, dirs, calls,
                 signals, sendVars, packVars, env>>

\* What is left of directory d when the names in keep have their last state
\* and the others the state of the last sync.
Survivors(d, synced, keep) ==
  [n \in (DOMAIN d \cap keep) \cup (DOMAIN synced \ keep) |->
     IF n \in keep THEN d[n] ELSE synced[n]]

Stop == stops < MaxStops /\ stops' = stops + 1 /\ UNCHANGED <<faults, rot, outages, spoilt>>

Crash ==
  /\ spc # "down"
  /\ Forgotten /\ Stop
  /\ UNCHANGED <<received, accepted, dirs>>

LosePower ==
  /\ PowerLoss
  /\ spc # "down"
  /\ \E keep \in SUBSET (DOMAIN disk \cup DOMAIN stable),
        keepDead \in SUBSET (DOMAIN dead \cup DOMAIN deadStable) :
       /\ disk' = Survivors(disk, stable, keep)
       /\ dead' = Survivors(dead, deadStable, keepDead)
  /\ stable' = disk' /\ deadStable' = dead'
  /\ Forgotten /\ Stop
  /\ UNCHANGED <<received, accepted>>

\* Close: refuse new records, let the writer drain the channel, then stop the
\* sender.
Close ==
  /\ spc # "down" /\ ~closed
  /\ closed' = TRUE
  /\ Stop
  /\ UNCHANGED <<received, accepted, cancelled, sender, writer, dirs, list, counters,
                 signals>>

\* Variant: the sender is stopped before the writer has drained the channel.
CancelAtOnce ==
  /\ closed /\ ~cancelled
  /\ cancelled' = TRUE
  /\ UNCHANGED <<received, accepted, closed, sender, writer, dirs, list, counters,
                 signals, env>>

Cancel ==
  /\ closed /\ ~cancelled /\ wpc = "exited"
  /\ cancelled' = TRUE
  /\ UNCHANGED <<received, accepted, closed, sender, writer, dirs, list, counters,
                 signals, env>>

\* Close returns once both goroutines are done and releases the lock.
Released ==
  /\ spc = "exited" /\ wpc = "exited"
  /\ Forgotten
  /\ UNCHANGED <<received, accepted, dirs, env>>

-----------------------------------------------------------------------------
(* Enqueue *)

Enqueue(r) ==
  /\ spc # "down" /\ call[r] = "new"
  /\ \A s \in Records : s < r => call[s] # "new"
  /\ \/ /\ closed
        /\ call' = [call EXCEPT ![r] = "refused"]
        /\ UNCHANGED <<jobs, rejected>>
     \/ /\ ~closed /\ Len(jobs) < JobsCap
        /\ jobs' = Append(jobs, r)
        /\ call' = [call EXCEPT ![r] = "queued"]
        /\ UNCHANGED rejected
     \/ /\ ~closed /\ Len(jobs) = JobsCap
        /\ call' = [call EXCEPT ![r] = "full"]
        /\ rejected' = rejected + 1
        /\ UNCHANGED jobs
  /\ UNCHANGED <<received, accepted, late, shutdown, sequence, sender, dirs, list,
                 counters, signals, writerVars, env>>

\* The caller's context ends before the writer answers; the job stays queued.
Timeout(r) ==
  /\ call[r] = "queued" /\ late < MaxLate
  /\ call' = [call EXCEPT ![r] = "late"]
  /\ late' = late + 1
  /\ UNCHANGED <<received, accepted, jobs, shutdown, rejected, sequence, sender, dirs,
                 list, counters, signals, writerVars, env>>

-----------------------------------------------------------------------------
(* writeLoop and persist *)

WriterTake ==
  /\ wpc = "idle" /\ jobs # <<>>
  /\ LET k == IF Len(jobs) < MaxBatch THEN Len(jobs) ELSE MaxBatch
     IN  /\ batch' = SubSeq(jobs, 1, k)
         /\ jobs' = SubSeq(jobs, k + 1, Len(jobs))
  /\ wpc' = "reserve"
  /\ UNCHANGED <<dirs, received, accepted, call, late, rejected, shutdown, list,
                 counters, sequence, signals, wname, sender, env>>

\* The answer that every job of the batch gets.
Answer(result) ==
  /\ call' = [r \in Records |-> IF r \in Range(batch) THEN result ELSE call[r]]
  /\ wpc' = "idle" /\ batch' = <<>> /\ wname' = NoFile

\* Variant: a batch that is turned down counts as one record.
RejectOnce == Answer("err") /\ rejected' = rejected + 1

RejectBatch == Answer("err") /\ rejected' = rejected + Len(batch)

\* Variant: the capacity check forgets the dead files.
ReserveIgnoringDead ==
  /\ wpc = "reserve"
  /\ IF bytes + SizeOf(<<0, 0>>, Len(batch)) > Limit
     THEN RejectBatch /\ UNCHANGED sequence
     ELSE /\ sequence' = sequence + 1
          /\ wname' = <<sequence', 0>>
          /\ wpc' = "write"
          /\ UNCHANGED <<rejected, call, batch>>
  /\ UNCHANGED <<dirs, received, accepted, late, jobs, shutdown, list, counters,
                 signals, sender, env>>

Reserve ==
  /\ wpc = "reserve"
  /\ IF bytes + deadBytes + SizeOf(<<0, 0>>, Len(batch)) > Limit
     THEN RejectBatch /\ UNCHANGED sequence
     ELSE /\ sequence' = sequence + 1
          /\ wname' = <<sequence', 0>>
          /\ wpc' = "write"
          /\ UNCHANGED <<rejected, call, batch>>
  /\ UNCHANGED <<dirs, received, accepted, late, jobs, shutdown, list, counters,
                 signals, sender, env>>

WriteFile ==
  /\ wpc = "write"
  /\ Try(/\ disk' = Put(disk, wname, File(batch))
         /\ wpc' = "publish" /\ UNCHANGED <<rejected, call, batch, wname>>,
         RejectBatch /\ UNCHANGED disk)
  /\ UNCHANGED <<stable, dead, deadStable, received, accepted, late, jobs, shutdown,
                 list, counters, sequence, signals, sender>>

\* Variant: the sender is not woken.
PublishSilently ==
  /\ wpc = "publish"
  /\ stable' = disk /\ Works
  /\ accepted' = accepted \cup Range(batch)
  /\ files' = Append(files, [name |-> wname, size |-> SizeOf(wname, Len(batch))])
  /\ bytes' = bytes + SizeOf(wname, Len(batch))
  /\ pressure' = (pressure \/ bytes' + deadBytes >= Limit \div 2)
  /\ Answer("ok")
  /\ UNCHANGED <<disk, dead, deadStable, received, late, rejected, jobs, shutdown, wake,
                 counters, sequence, sender>>

\* The directory is synced (a failure is only logged), the file becomes visible
\* to the sender, the callers are answered.
Publish ==
  /\ wpc = "publish"
  /\ \/ stable' = disk /\ Works
     \/ /\ faults < MaxFaults /\ faults' = faults + 1
        /\ spoilt' = IF PowerLoss THEN spoilt \cup Range(batch) ELSE spoilt
        /\ UNCHANGED <<stable, rot, outages, stops>>
  /\ accepted' = accepted \cup Range(batch)
  /\ files' = Append(files, [name |-> wname, size |-> SizeOf(wname, Len(batch))])
  /\ bytes' = bytes + SizeOf(wname, Len(batch))
  /\ wake' = TRUE
  /\ pressure' = (pressure \/ bytes' + deadBytes >= Limit \div 2)
  /\ Answer("ok")
  /\ UNCHANGED <<disk, dead, deadStable, received, late, rejected, jobs, shutdown,
                 counters, sequence, sender>>

WriterExit ==
  /\ wpc = "idle" /\ closed /\ jobs = <<>>
  /\ wpc' = "exited"
  /\ UNCHANGED <<dirs, received, accepted, calls, shutdown, list, counters, sequence,
                 signals, batch, wname, sender, env>>

-----------------------------------------------------------------------------
(* compact, collectRun and writeSegment, called by sendLoop *)

\* compact(minFiles) starts from a snapshot of the list and comes back at pc back.
StartCompact(minFiles, back) ==
  IF Len(files) < minFiles
  THEN spc' = back /\ UNCHANGED packVars
  ELSE /\ spc' = "collect"
       /\ snap' = [i \in DOMAIN files |-> files[i].name]
       /\ pos' = 1 /\ run' = <<>> /\ recs' = <<>> /\ ret' = back /\ seg' = NoFile

EndCompact == spc' = ret /\ NoPack

Readable(n) == n \in DOMAIN disk /\ disk[n].ok

\* The file at pos may join the run.
Fits(n) == run = <<>> \/ Len(recs) + Len(disk[n].recs) <= SegmentMax
RunFull == run # <<>> /\ Len(recs) >= SegmentMax

CollectFile ==
  /\ spc = "collect" /\ pos <= Len(snap)
  /\ run # <<>> \/ ~cancelled
  /\ ~RunFull /\ Readable(snap[pos]) /\ Fits(snap[pos])
  /\ run' = Append(run, snap[pos])
  /\ recs' = recs \o disk[snap[pos]].recs
  /\ pos' = pos + 1
  /\ UNCHANGED <<received, outside, spc, snap, ret, seg, dirs, list, counters,
                 sendVars, env>>

\* Variant: a file that cannot be read is skipped in the middle of a run.
SkipFileInRun ==
  /\ spc = "collect" /\ pos <= Len(snap) /\ ~cancelled
  /\ Try(~Readable(snap[pos]), Readable(snap[pos]))
  /\ pos' = pos + 1
  /\ UNCHANGED <<dirs, received, outside, list, counters, spc, sendVars, snap, run,
                 recs, ret, seg>>

\* A file that cannot be read, for now or for good, is left where it is.
SkipFile ==
  /\ spc = "collect" /\ pos <= Len(snap) /\ run = <<>> /\ ~cancelled
  /\ Try(~Readable(snap[pos]), Readable(snap[pos]))
  /\ pos' = pos + 1
  /\ UNCHANGED <<dirs, received, outside, list, counters, spc, sendVars, snap, run,
                 recs, ret, seg>>

\* The run ends where the next file does not fit or cannot be read; a run of
\* one file is not worth a segment.
EndRun ==
  /\ spc = "collect" /\ run # <<>>
  /\ Try(pos <= Len(snap) => RunFull \/ ~Readable(snap[pos]) \/ ~Fits(snap[pos]),
         pos <= Len(snap) /\ ~RunFull /\ Readable(snap[pos]))
  /\ IF Len(run) < 2
     THEN run' = <<>> /\ recs' = <<>> /\ UNCHANGED <<spc, seg>>
     ELSE spc' = "segment" /\ seg' = SegmentName(run[1]) /\ UNCHANGED <<run, recs>>
  /\ UNCHANGED <<dirs, received, outside, list, counters, sendVars, snap, pos, ret>>

CollectDone ==
  /\ spc = "collect" /\ run = <<>>
  /\ pos > Len(snap) \/ cancelled
  /\ EndCompact
  /\ UNCHANGED <<dirs, received, outside, list, counters, sendVars, env>>

WriteSegment ==
  /\ spc = "segment"
  /\ Try(disk' = Put(disk, seg, File(recs)) /\ spc' = "segsync" /\ UNCHANGED packVars,
         EndCompact /\ UNCHANGED disk)
  /\ UNCHANGED <<stable, dead, deadStable, received, outside, list, counters, sendVars>>

\* Variant: the directory is not synced before the merged files are removed.
SyncSegmentLater ==
  /\ spc = "segsync"
  /\ spc' = "swap" /\ Works
  /\ UNCHANGED <<dirs, received, outside, list, counters, sendVars, packVars>>

SyncSegment ==
  /\ spc = "segsync"
  /\ Try(stable' = disk /\ spc' = "swap" /\ UNCHANGED packVars,
         EndCompact /\ UNCHANGED stable)
  /\ UNCHANGED <<disk, dead, deadStable, received, outside, list, counters, sendVars>>

\* The run still stands in the list, in one piece, from position at on.
RunAt(at) ==
  /\ at + Len(run) - 1 <= Len(files)
  /\ \A i \in DOMAIN run : files[at + i - 1].name = run[i]

\* Variant: the first file of the run is not given back.
RunSizeButFirst(at) == SumFunction([i \in DOMAIN run \ {1} |-> files[at + i - 1].size])

RunSize(at) == SumFunction([i \in DOMAIN run |-> files[at + i - 1].size])

\* Variants: the last file of the run stays; the segment goes to the end.
SplicedOneShort(at) ==
  SubSeq(files, 1, at - 1)
    \o <<[name |-> seg, size |-> SizeOf(seg, Len(recs))]>>
    \o SubSeq(files, at + Len(run) - 1, Len(files))
SplicedAtEnd(at) ==
  SubSeq(files, 1, at - 1)
    \o SubSeq(files, at + Len(run), Len(files))
    \o <<[name |-> seg, size |-> SizeOf(seg, Len(recs))]>>

\* The list with the segment in the place of the run.
Spliced(at) ==
  SubSeq(files, 1, at - 1)
    \o <<[name |-> seg, size |-> SizeOf(seg, Len(recs))]>>
    \o SubSeq(files, at + Len(run), Len(files))

\* The segment takes the place of its run; if the list has changed meanwhile,
\* compaction gives up.
SwapSegment ==
  /\ spc = "swap"
  /\ IF \E at \in DOMAIN files : RunAt(at)
     THEN \E at \in DOMAIN files :
            /\ RunAt(at)
            /\ files' = Spliced(at)
            /\ bytes' = bytes + SizeOf(seg, Len(recs)) - RunSize(at)
            /\ spc' = "unlink" /\ UNCHANGED packVars
     ELSE EndCompact /\ UNCHANGED list
  /\ UNCHANGED <<dirs, received, outside, counters, sendVars, env>>

\* The merged files are removed one by one; a failure is ignored.
RemoveMerged ==
  /\ spc = "unlink" /\ run # <<>>
  /\ Try(disk' = IF Head(run) = seg THEN disk ELSE Del(disk, Head(run)), UNCHANGED disk)
  /\ run' = Tail(run)
  /\ UNCHANGED <<stable, dead, deadStable, received, outside, list, counters, spc,
                 sendVars, snap, pos, recs, ret, seg>>

\* The last sync decides whether compact goes on with the rest of its snapshot.
SegmentDone ==
  /\ spc = "unlink" /\ run = <<>>
  /\ Try(/\ stable' = disk /\ spc' = "collect"
         /\ recs' = <<>> /\ seg' = NoFile /\ UNCHANGED <<snap, pos, run, ret>>,
         EndCompact /\ UNCHANGED stable)
  /\ UNCHANGED <<disk, dead, deadStable, received, outside, list, counters, sendVars>>

-----------------------------------------------------------------------------
(* sendLoop, send and the quarantine *)

\* The head is chosen before an eager compaction and sent after it.
TakeHead ==
  /\ spc = "head" /\ ~cancelled
  /\ IF files = <<>>
     THEN spc' = "wait" /\ UNCHANGED <<cur, packVars>>
     ELSE /\ cur' = files[1].name
          /\ IF Len(files) >= CompactEager
             THEN StartCompact(CompactMin, "send")
             ELSE spc' = "send" /\ UNCHANGED packVars
  /\ UNCHANGED <<received, outside, raws, idx, rejects, dirs, list, counters, env>>

Woken ==
  /\ spc = "wait" /\ wake
  /\ wake' = FALSE
  /\ spc' = "head"
  /\ UNCHANGED <<dirs, received, accepted, shutdown, writer, list, counters, pressure,
                 sendVars, packVars, env>>

\* Variant: only the wait for new files notices the end.
SenderExitFromWait ==
  /\ spc = "wait" /\ cancelled
  /\ spc' = "exited"
  /\ UNCHANGED <<dirs, received, outside, list, counters, sendVars, packVars, env>>

SenderExit ==
  /\ spc \in {"head", "wait", "backoff"} /\ cancelled
  /\ spc' = "exited"
  /\ UNCHANGED <<dirs, received, outside, list, counters, sendVars, packVars, env>>

\* Variant: whatever is first in the list is dropped.
dropFirst(n) ==
  IF files # <<>>
  THEN files' = Tail(files) /\ bytes' = bytes - files[1].size
  ELSE UNCHANGED list

\* dropHead: the list only loses its first entry if it is the file just sent.
dropHead(n) ==
  IF files # <<>> /\ files[1].name = n
  THEN files' = Tail(files) /\ bytes' = bytes - files[1].size
  ELSE UNCHANGED list

\* A file that is gone (merged since the head was chosen) is only forgotten.
ReadHead ==
  /\ spc = "send"
  /\ \/ cur \notin DOMAIN disk /\ spc' = "forget" /\ Works /\ UNCHANGED raws
     \/ /\ Readable(cur)
        /\ Try(raws' = disk[cur].recs /\ spc' = "deliver", spc' = "failed" /\ UNCHANGED raws)
  /\ UNCHANGED <<dirs, received, outside, list, counters, cur, idx, rejects, packVars>>

\* quarantineFile: the rename is one journalled operation.  When the sync of
\* dead/ fails the file has moved but is not counted.
QuarantineFile ==
  /\ spc = "send" /\ cur \in DOMAIN disk /\ ~disk[cur].ok
  /\ \/ /\ disk' = Del(disk, cur) /\ stable' = Del(stable, cur)
        /\ dead' = Put(dead, cur, disk[cur]) /\ deadStable' = Put(deadStable, cur, disk[cur])
        /\ \/ /\ Try(spc' = "head", spc' = "failed")
              /\ dropHead(cur) /\ NoSend
              /\ deadFiles' = deadFiles + 1
              /\ deadBytes' = deadBytes + bytes - bytes'
              /\ quarantined' = quarantined + 1
           \/ Try(FALSE, spc' = "failed" /\ UNCHANGED <<list, counters, sendVars>>)
     \/ Try(FALSE, spc' = "failed" /\ UNCHANGED <<dirs, list, counters, sendVars>>)
  /\ UNCHANGED <<received, outside, packVars>>

-----------------------------------------------------------------------------
(* Delivery.  The forwarder sends a file in chunks that the receiver commits   *)
(* one by one, so any outcome may follow a delivered prefix; a batch may also   *)
(* be refused as a whole although each of its records would pass.              *)

Delivered(k) ==
  /\ {raws[i] : i \in 1..k} \cap Poison = {}
  /\ received' = received \cup {raws[i] : i \in 1..k}

Outage ==
  IF cancelled
  THEN Works
  ELSE outages < MaxOutages /\ outages' = outages + 1 /\ UNCHANGED <<faults, rot, stops, spoilt>>

Deliver ==
  /\ spc = "deliver"
  /\ \/ /\ Delivered(Len(raws)) /\ Works
        /\ spc' = "remove" /\ UNCHANGED <<idx, rejects>>
     \/ /\ Len(raws) > 1
        /\ \E k \in 0..Len(raws) - 1 : Delivered(k)
        /\ spc' = "single" /\ idx' = 1 /\ Works /\ UNCHANGED rejects
     \/ /\ Len(raws) = 1 /\ raws[1] \in Poison
        /\ spc' = "quarantine" /\ rejects' = raws /\ Works /\ UNCHANGED <<received, idx>>
     \/ /\ \E k \in 0..Len(raws) : Delivered(k)
        /\ Outage /\ spc' = "failed" /\ UNCHANGED <<idx, rejects>>
  /\ UNCHANGED <<dirs, outside, list, counters, cur, raws, packVars>>

\* Variants: the file is removed without quarantine; the loop runs one too far.
DeliverSingleThenRemove ==
  /\ spc = "single"
  /\ LET r == raws[idx]
     IN  /\ IF r \in Poison
            THEN rejects' = Append(rejects, r) /\ UNCHANGED received
            ELSE received' = received \cup {r} /\ UNCHANGED rejects
         /\ spc' = (IF idx = Len(raws) THEN "remove" ELSE "single")
         /\ idx' = idx + 1 /\ Works
  /\ UNCHANGED <<dirs, outside, list, counters, cur, raws, packVars>>
DeliverSingleTooFar ==
  /\ spc = "single"
  /\ LET r == raws[idx]
     IN  /\ IF r \in Poison
            THEN rejects' = Append(rejects, r) /\ UNCHANGED received
            ELSE received' = received \cup {r} /\ UNCHANGED rejects
         /\ spc' = (IF idx > Len(raws) THEN "quarantine" ELSE "single")
         /\ idx' = idx + 1 /\ Works
  /\ UNCHANGED <<dirs, outside, list, counters, cur, raws, packVars>>

\* One record of a refused batch; a transient error leaves the file for later.
DeliverSingle ==
  /\ spc = "single"
  /\ LET r == raws[idx]
     IN  \/ /\ IF r \in Poison
               THEN rejects' = Append(rejects, r) /\ UNCHANGED received
               ELSE received' = received \cup {r} /\ UNCHANGED rejects
            /\ spc' = (IF idx = Len(raws) THEN "quarantine" ELSE "single")
            /\ idx' = idx + 1 /\ Works
         \/ /\ received' \in {received, received \cup ({r} \ Poison)}
            /\ Outage /\ spc' = "failed" /\ UNCHANGED <<idx, rejects>>
  /\ UNCHANGED <<dirs, outside, list, counters, cur, raws, packVars>>

\* Variant: the whole file is quarantined.
QuarantineAll ==
  /\ spc = "quarantine"
  /\ IF rejects = <<>> \/ DeadName(cur) \in DOMAIN dead
     THEN spc' = "remove" /\ Works /\ UNCHANGED dead
     ELSE Try(dead' = Put(dead, DeadName(cur), File(raws)) /\ spc' = "deadsync",
              spc' = "failed" /\ UNCHANGED dead)
  /\ UNCHANGED <<disk, stable, deadStable, received, outside, list, counters, sendVars,
                 packVars>>

\* quarantineRecords up to the write: nothing to do, or the dead file is
\* already there, or it is written now.
Quarantine ==
  /\ spc = "quarantine"
  /\ IF rejects = <<>> \/ DeadName(cur) \in DOMAIN dead
     THEN spc' = "remove" /\ Works /\ UNCHANGED dead
     ELSE Try(dead' = Put(dead, DeadName(cur), File(rejects)) /\ spc' = "deadsync",
              spc' = "failed" /\ UNCHANGED dead)
  /\ UNCHANGED <<disk, stable, deadStable, received, outside, list, counters, sendVars,
                 packVars>>

\* Variant: the dead file is not added to the counters.
QuarantineSyncUncounted ==
  /\ spc = "deadsync"
  /\ Try(deadStable' = dead /\ quarantined' = quarantined + Len(rejects) /\ spc' = "remove",
         spc' = "failed" /\ UNCHANGED <<deadStable, quarantined>>)
  /\ UNCHANGED <<disk, stable, dead, deadFiles, deadBytes, received, outside, list,
                 sendVars, packVars>>

QuarantineSync ==
  /\ spc = "deadsync"
  /\ Try(/\ deadStable' = dead
         /\ deadFiles' = deadFiles + 1
         /\ deadBytes' = deadBytes + SizeOf(DeadName(cur), Len(rejects))
         /\ quarantined' = quarantined + Len(rejects)
         /\ spc' = "remove",
         spc' = "failed" /\ UNCHANGED <<deadStable, counters>>)
  /\ UNCHANGED <<disk, stable, dead, received, outside, list, sendVars, packVars>>

RemoveSent ==
  /\ spc = "remove"
  /\ Try(disk' = Del(disk, cur) /\ spc' = "forget", spc' = "failed" /\ UNCHANGED disk)
  /\ UNCHANGED <<stable, dead, deadStable, received, outside, list, counters, sendVars,
                 packVars>>

Forget ==
  /\ spc = "forget"
  /\ Try(stable' = disk, UNCHANGED stable)
  /\ dropHead(cur) /\ NoSend
  /\ spc' = "head"
  /\ UNCHANGED <<disk, dead, deadStable, received, outside, counters, packVars>>

\* A failed send: merge what is pending, then wait.
SendFailed ==
  /\ spc = "failed"
  /\ StartCompact(CompactMin, "backoff")
  /\ NoSend
  /\ UNCHANGED <<received, outside, dirs, list, counters, env>>

\* The wait ends with its deadline or when the probe reaches the receiver.
Retry ==
  /\ spc = "backoff"
  /\ spc' = "head"
  /\ UNCHANGED <<received, outside, dirs, list, counters, sendVars, packVars, env>>

\* A crowded spool merges even two files while it waits.
Pressed ==
  /\ spc = "backoff" /\ pressure
  /\ pressure' = FALSE
  /\ StartCompact(2, "backoff")
  /\ UNCHANGED <<received, accepted, shutdown, wake, writer, dirs, list, counters,
                 sendVars, env>>

-----------------------------------------------------------------------------
(* A pending file decays on disk. *)

Spoil(f) == [f EXCEPT !.ok = FALSE]

Decay ==
  /\ rot < MaxRot
  /\ \E n \in DOMAIN disk \cap DOMAIN stable :
       /\ disk[n].ok
       /\ disk' = [disk EXCEPT ![n] = Spoil(@)]
       /\ stable' = [stable EXCEPT ![n] = Spoil(@)]
       /\ spoilt' = spoilt \cup Range(disk[n].recs) \cup Range(stable[n].recs)
  /\ rot' = rot + 1
  /\ UNCHANGED <<dead, deadStable, received, outside, faults, outages, stops, sender,
                 list, counters>>

\* Nothing is left to do: every record is settled and both loops are blocked.
Idle ==
  /\ \A r \in Records : call[r] # "new"
  /\ spc = "wait" /\ ~wake /\ wpc = "idle" /\ jobs = <<>>
  /\ UNCHANGED vars

WriterNext == WriterTake \/ Reserve \/ WriteFile \/ Publish \/ WriterExit

CompactNext ==
  \/ CollectFile \/ SkipFile \/ EndRun \/ CollectDone
  \/ WriteSegment \/ SyncSegment \/ SwapSegment \/ RemoveMerged \/ SegmentDone

SenderNext ==
  \/ TakeHead \/ Woken \/ SenderExit \/ ReadHead \/ QuarantineFile
  \/ Deliver \/ DeliverSingle \/ Quarantine \/ QuarantineSync
  \/ RemoveSent \/ Forget \/ SendFailed \/ Retry \/ Pressed
  \/ CompactNext

Open == \E now \in Clock : NewDiskSpool(now)

Next ==
  \/ \E r \in Records : Enqueue(r) \/ Timeout(r)
  \/ WriterNext \/ SenderNext
  \/ Open \/ Close \/ Cancel \/ Released
  \/ Crash \/ LosePower \/ Decay \/ Idle

Spec == Init /\ [][Next]_vars

\* The goroutines keep running, a stopped pod is started again, and Close goes
\* through; delivery failures are bounded by MaxOutages.
Fairness ==
  /\ WF_vars(WriterNext) /\ WF_vars(SenderNext)
  /\ WF_vars(Open) /\ WF_vars(Cancel) /\ WF_vars(Released)

FairSpec == Spec /\ Fairness

-----------------------------------------------------------------------------
(* Properties *)

WriterPCs == {"down", "idle", "reserve", "write", "publish", "exited"}
SenderPCs == {"down", "head", "wait", "send", "deliver", "single", "quarantine",
              "deadsync", "remove", "forget", "failed", "backoff", "collect",
              "segment", "segsync", "swap", "unlink", "exited"}
CallStates == {"new", "queued", "late", "ok", "err", "full", "refused", "past"}

IsFile(f) == f \in [recs : Seq(Records), ok : BOOLEAN]
IsDirectory(d) ==
  DOMAIN d \subseteq Names /\ IsFiniteSet(DOMAIN d) /\ \A n \in DOMAIN d : IsFile(d[n])

DirsOK == IsDirectory(disk) /\ IsDirectory(stable) /\ IsDirectory(dead) /\ IsDirectory(deadStable)
RecordsOK == received \subseteq Records /\ accepted \subseteq Records /\ spoilt \subseteq Records
CallsOK ==
  /\ call \in [Records -> CallStates] /\ jobs \in Seq(Records)
  /\ late \in Nat /\ rejected \in Nat /\ closed \in BOOLEAN /\ cancelled \in BOOLEAN
ListOK == files \in Seq(Entries) /\ quarantined \in Nat /\ sequence \in Nat
SignalsOK == wake \in BOOLEAN /\ pressure \in BOOLEAN
WriterOK == wpc \in WriterPCs /\ batch \in Seq(Records) /\ wname \in Names
SenderOK ==
  /\ spc \in SenderPCs /\ ret \in {"down", "send", "backoff"}
  /\ cur \in Names /\ raws \in Seq(Records) /\ idx \in Nat /\ rejects \in Seq(Records)
  /\ spc = "single" => idx \in 1..Len(raws)
PackOK ==
  /\ snap \in Seq(Names) /\ pos \in Nat /\ run \in Seq(Names)
  /\ recs \in Seq(Records) /\ seg \in Names
BoundsOK == faults \in Nat /\ rot \in Nat /\ outages \in Nat /\ stops \in Nat

\* Every variable holds a value of its kind; what the byte and file counters
\* hold is the subject of BytesMatchList and DeadCounted.
TypeOK ==
  /\ DirsOK /\ RecordsOK /\ CallsOK /\ ListOK /\ SignalsOK
  /\ WriterOK /\ SenderOK /\ PackOK /\ BoundsOK

\* A record the receiver would take is never lost once persist has returned
\* nil: it has been received or it is in a file of the spool.  Crashes, failed
\* file operations and a power loss between any two steps of send, compact and
\* quarantine included.  Excepted is what the disk let down (spoilt): the file
\* became unreadable, or the directory sync after its write failed, which persist
\* only logs, and power may be lost.
AcceptedNotLost ==
  \A r \in accepted \ (Poison \cup spoilt) : r \in received \cup Content(disk)

\* A record the receiver rejects for good is not dropped either: it stays in
\* the spool until it is in dead/ (quarantineRecords before os.Remove).
RejectedKept ==
  \A r \in accepted \cap Poison : r \in Content(disk) \cup Content(dead)

\* Only records the receiver has rejected end up in a readable dead file.
DeadIsRejected ==
  \A n \in DOMAIN dead : dead[n].ok => Range(dead[n].recs) \subseteq Poison

\* Records reach the receiver in the order in which they were enqueued: what
\* arrives for the first time is younger than everything that arrived before,
\* across merging, retries and restarts.
FirstDeliveryInOrder ==
  [][\A r \in received' \ received : \A s \in received : s < r]_received

\* The list that sendLoop works from is in name order without repetition.
ListSorted == Sorted(files)

\* Behind its head the list names only files that are on disk: neither a merge
\* nor a failed removal leaves an entry without its file.
ListOnDisk ==
  \A i \in DOMAIN files : i > 1 => files[i].name \in DOMAIN disk

\* The byte counter is the sum over the list, whatever compaction, quarantine
\* and a stale head did to it.
BytesMatchList ==
  bytes = SumFunction([i \in DOMAIN files |-> files[i].size])

\* A new file never takes a name that is in use in the spool or in dead/, nor
\* the name a later segment or dead file of another one would take, even when
\* the clock has gone back between two starts.
NamesAreFresh ==
  wpc = "write" =>
    \A n \in DOMAIN disk \cup DOMAIN dead : n[1] # wname[1]

\* Compaction never finds its run changed: only the sender takes entries away.
RunStaysInList ==
  spc = "swap" => \E at \in DOMAIN files : RunAt(at)

\* Room promised to the file that is being written (persist checks the capacity,
\* gives up the lock, and adds the file to the counter much later).
Promised == IF wpc \in {"write", "publish"} THEN SizeOf(wname, Len(batch)) ELSE 0

\* The room the dead files would take as compressed as they can have been before.
DeadPacked ==
  SumFunction([n \in DOMAIN dead |-> SizeOf(SegmentName(n), Len(dead[n].recs))])

\* The capacity is only ever exceeded by quarantine, and only by what rejected
\* records gain when they leave a gzip segment: quarantineRecords writes them
\* uncompressed and asks for no room.  Without that gain the pending files, the
\* dead ones and the file the writer has been promised room for fit into the
\* limit, whatever sender and compaction do between the check in persist and the
\* publication; excepted are the steps in which rejected records are in dead/ and
\* their file is not yet removed.
WithinLimit ==
  spc \notin {"deadsync", "remove", "forget"} => bytes + Promised + DeadPacked <= Limit

\* deadFiles and deadBytes, which count against the capacity, describe the dead/
\* directory whenever the sender has nothing left to send.
DeadCounted ==
  spc = "wait" => deadFiles = Cardinality(DOMAIN dead) /\ deadBytes = TotalSize(dead)

\* rejected counts every record that was turned down, once: by Enqueue because
\* the channel was full, by persist with its whole batch because the capacity was
\* (reject(err, len(jobs)) in writeLoop).
RejectedCounted ==
  rejected = Cardinality({r \in Records : call[r] \in {"err", "full"}})

\* Close drains the channel: when the sender is told to stop, every admitted
\* record, late ones included, is on disk or counted as rejected.
CloseDrains ==
  cancelled => \A r \in Records : call[r] \notin {"queued", "late"}

\* Every record the spool has accepted is received or ends up in dead/, once
\* deliveries stop failing.
EventuallySettled ==
  \A r \in Records :
    r \in accepted ~> r \in received \cup Content(dead)

\* Close comes to its end whatever the two goroutines are doing when it is
\* called: neither a backoff, nor a compaction, nor a full channel blocks it.
CloseReturns == closed ~> spc = "down"
====
