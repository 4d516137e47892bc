------------------------------- MODULE LogTail -------------------------------
(***************************************************************************)
(* The audit log reader of sentry-audit/internal/logtail/tail.go.  The API *)
(* server appends lines to the file at t.path and rotates it: the file is  *)
(* renamed, a new one is created, and old files are removed.  The reader   *)
(* polls, reads the lines that were appended, pushes the kept ones to      *)
(* kvisior in batches, moves on from a rotated file to the next one, and   *)
(* saves a checkpoint (file, offset) to continue from after a restart.     *)
(*                                                                         *)
(* A record is a number, its place in the order of writing.  A file is     *)
(* identified by the order of creation, which stands for its inode (no     *)
(* inode is used again) and for its path once renamed; an offset counts    *)
(* lines.  The clock advances with every change of a file, so no two files *)
(* have the same mtime.                                                    *)
(***************************************************************************)
EXTENDS Integers, Sequences, FiniteSets, Functions

CONSTANTS
  NumRecords,   \* lines the API server writes
  Noise,        \* records the filter drops
  Poison,       \* records kvisior rejects for good (400, 413, 422)
  MaxBatch,     \* maxBatch (200)
  MaxFiles,     \* bound: files created
  MaxKept,      \* rotated files the API server keeps
  MaxOutages,   \* bound: pushes that fail for now
  MaxStops,     \* bound: crashes and orderly stops
  RaceOpen,     \* whether files may move between choosing a path and opening it
  RaceStop      \* whether the reader may be stopped in a rotated file

Records == 1..NumRecords
FileIds == 1..MaxFiles

ASSUME TailAssumption ==
  /\ NumRecords \in Nat /\ Noise \subseteq Records /\ Poison \subseteq Records
  /\ {MaxBatch, MaxFiles} \subseteq Nat \ {0}
  /\ {MaxKept, MaxOutages, MaxStops} \subseteq Nat
  /\ {RaceOpen, RaceStop} \subseteq BOOLEAN

VARIABLES
  \* the log directory and its clock; records written
  files, now, written,
  \* kvisior: records it has committed, records it has rejected
  received, rejected,
  \* records the reader cannot be asked for: written before it first started, or
  \* removed by rotation before it read them
  excused,
  \* the checkpoint file
  cp,
  \* the Tailer: open file, positions, batch that failed, Run's first, ctx.Err
  fd, offset, committed, pending, pendingEnd, first, stopping,
  \* where Run is, what follows the current drain, the local batch, whether the
  \* reader met the end of the file, the path and offset open is about to use
  pc, phase, batch, eof, choice,
  \* what the environment has done so far
  outages, stops

logVars  == <<files, now, written>>
outcome  == <<received, rejected>>
position == <<fd, offset, committed>>
held     == <<pending, pendingEnd>>
work     == <<phase, batch, eof, choice>>
env      == <<outages, stops>>
vars == <<logVars, outcome, excused, cp, position, held, first, stopping, pc, work, env>>

NoCheckpoint == [file |-> 0, off |-> 0, mtime |-> 0]
Live == 0        \* t.path as a choice, and "no file" as a value of fd

TypeOK ==
  /\ files \in Seq([recs : Seq(Records), mtime : Nat, on : {"live", "kept", "gone"}])
  /\ Len(files) <= MaxFiles /\ now \in Nat /\ written \in 0..NumRecords
  /\ {received, rejected, excused} \subseteq SUBSET Records
  /\ cp \in [file : 0..MaxFiles, off : Nat, mtime : Nat]
  /\ fd \in 0..MaxFiles /\ {offset, committed, pendingEnd} \subseteq Nat
  /\ {pending, batch} \subseteq Seq(Records)
  /\ {first, stopping, eof} \subseteq BOOLEAN
  /\ pc \in {"down", "idle", "choose", "open", "drain", "flush", "rotated"}
  /\ phase \in {"check", "open"}
  /\ choice \in [file : 0..MaxFiles, off : Nat]
  /\ {outages, stops} \subseteq Nat

-----------------------------------------------------------------------------
(* The log directory *)

\* Variant: the last line is not counted.
SizeShort(f) == Len(files[f].recs) - 1

Size(f) == Len(files[f].recs)
Ids == DOMAIN files
LiveFiles == {f \in Ids : files[f].on = "live"}
retained == {f \in Ids : files[f].on = "kept"}

\* sort.Slice in retained: the oldest modification first.
Oldest(S) == CHOOSE f \in S : \A g \in S : files[f].mtime <= files[g].mtime

\* What lies before line k of file f.
Before(f, k) ==
  UNION {Range(files[g].recs) : g \in 1..(f - 1)} \cup {files[f].recs[i] : i \in 1..k \cap 1..Size(f)}

\* Files stay where they are while open has chosen a path and not yet opened it,
\* unless the reader starts for the first time and owes nothing yet.
Steady == RaceOpen \/ pc # "open" \/ (first /\ cp = NoCheckpoint)

-----------------------------------------------------------------------------
(* The API server *)

\* A line is appended.
Write ==
  /\ written < NumRecords
  /\ \E f \in LiveFiles :
       files' = [files EXCEPT ![f].recs = Append(@, written + 1), ![f].mtime = now + 1]
  /\ written' = written + 1 /\ now' = now + 1
  /\ UNCHANGED <<outcome, excused, cp, position, held, first, stopping, pc, work, env>>

\* Rotation renames the live file ...
Rename ==
  /\ Len(files) < MaxFiles /\ Steady /\ (RaceStop \/ ~stopping)
  /\ \E f \in LiveFiles : Size(f) > 0 /\ files' = [files EXCEPT ![f].on = "kept"]
  /\ UNCHANGED <<now, written, outcome, excused, cp, position, held, first, stopping, pc, work, env>>

\* ... and creates a new one.
Create ==
  /\ LiveFiles = {} /\ Len(files) < MaxFiles
  /\ files' = Append(files, [recs |-> <<>>, mtime |-> now + 1, on |-> "live"])
  /\ now' = now + 1
  /\ UNCHANGED <<written, outcome, excused, cp, position, held, first, stopping, pc, work, env>>

\* Rotation removes the oldest file beyond the ones it keeps.  A file the
\* reader has open stays readable for it.
Remove ==
  /\ Cardinality(retained) > MaxKept /\ Steady
  /\ LET f == Oldest(retained)
     IN /\ files' = [files EXCEPT ![f].on = "gone"]
        /\ excused' = IF f = fd THEN excused ELSE excused \cup Range(files[f].recs)
  /\ UNCHANGED <<now, written, outcome, cp, position, held, first, stopping, pc, work, env>>

-----------------------------------------------------------------------------
(* The checkpoint *)

\* Variant: the position of the reader is saved, not the acknowledged one.
saveOffset(f, c) ==
  cp' \in {cp} \cup {[file |-> g, off |-> offset, mtime |-> files[g].mtime] : g \in {f} \ {0}}

\* saveCheckpoint writes unless it ran less than saveEvery ago or the write
\* fails; the temporary file is synced and renamed, so the old one or the new
\* one is there.
saveCheckpoint(f, c) ==
  cp' \in {cp} \cup {[file |-> g, off |-> c, mtime |-> files[g].mtime] : g \in {f} \ {0}}

\* Variant: a checkpoint in a rotated file is given up.
startLive ==
  LET live == CHOOSE f \in LiveFiles : TRUE
  IN [file |-> Live, off |-> IF cp.file = live /\ cp.off <= Size(live) THEN cp.off ELSE 0]

\* start: where to read after a restart.
start ==
  LET live == CHOOSE f \in LiveFiles : TRUE
      later == {f \in retained : files[f].mtime >= cp.mtime}
  IN IF cp = NoCheckpoint THEN [file |-> Live, off |-> Size(live)]
     ELSE IF cp.file = live THEN [file |-> Live, off |-> IF cp.off <= Size(live) THEN cp.off ELSE 0]
     ELSE IF cp.file \in retained /\ cp.off <= Size(cp.file) THEN [file |-> cp.file, off |-> cp.off]
     ELSE IF later # {} THEN [file |-> Oldest(later), off |-> 0]
     ELSE [file |-> Live, off |-> 0]

\* Variant: the live file always comes next.
successorLive == Live

\* successor: the file to read after the current one.
successor ==
  LET later == {f \in retained \ {fd} : files[f].mtime > files[fd].mtime}
  IN IF later = {} THEN Live ELSE Oldest(later)

-----------------------------------------------------------------------------
(* open *)

\* The first half of open picks a path; start fails without a live file.
Choose ==
  /\ pc = "choose"
  /\ IF first /\ LiveFiles = {}
     THEN pc' = "idle" /\ UNCHANGED choice
     ELSE /\ pc' = "open"
          /\ choice' = IF first THEN start
                       ELSE [file |-> IF fd = 0 THEN Live ELSE successor, off |-> 0]
  /\ UNCHANGED <<logVars, outcome, excused, cp, position, held, first, stopping, phase, batch, eof, env>>

\* What the chosen path names by now.
Found == IF choice.file = Live THEN LiveFiles ELSE {choice.file} \cap retained

\* The second half opens it and takes over the position.  Without a checkpoint
\* the reader starts there: what came before is not its concern.
Open ==
  /\ pc = "open"
  /\ \E f \in Found :
       LET at == IF choice.off > Size(f) THEN 0 ELSE choice.off
       IN /\ fd' = f /\ offset' = at /\ committed' = at
          /\ saveCheckpoint(f, at)
          /\ excused' = IF first /\ cp = NoCheckpoint THEN excused \cup Before(f, at) ELSE excused
  /\ pending' = <<>> /\ pendingEnd' = 0 /\ first' = FALSE
  /\ pc' = "drain" /\ phase' = "check"
  /\ UNCHANGED <<logVars, outcome, stopping, batch, eof, choice, env>>

\* os.Open fails: the path is gone.  Run gives up the file it had.
OpenFails ==
  /\ pc = "open" /\ Found = {}
  /\ fd' = 0 /\ pc' = "idle"
  /\ UNCHANGED <<logVars, outcome, excused, cp, offset, committed, held, first, stopping, work, env>>

-----------------------------------------------------------------------------
(* drain *)

\* send halves a batch with a rejected record until the record is alone.
Delivered(rs) ==
  /\ received' = received \cup (Range(rs) \ Poison)
  /\ rejected' = rejected \cup (Range(rs) \cap Poison)

\* Cut off by an outage or by ctx, a first part of the batch, up to a boundary
\* of the halving, may have arrived; without a rejected record it is the whole
\* batch, whose answer was lost, or nothing.
Interrupted(rs) ==
  /\ \/ stopping /\ UNCHANGED outages
     \/ outages < MaxOutages /\ outages' = outages + 1
  /\ \E k \in 0..Len(rs) :
       /\ Range(rs) \cap Poison = {} => k \in {0, Len(rs)}
       /\ Delivered(SubSeq(rs, 1, k))

\* Variant: Run does not look for a rotation.
ReturnToTicker == IF phase = "check" THEN "idle" ELSE "choose"

\* What drain returns to: the next step of Run.
Return == IF phase = "check" THEN "rotated" ELSE "choose"

\* A batch that failed before is sent again.
Resend ==
  /\ pc = "drain" /\ pending # <<>>
  /\ pending' = <<>> /\ pendingEnd' = 0 /\ committed' = pendingEnd
  /\ ~stopping /\ Delivered(pending)
  /\ saveCheckpoint(fd, pendingEnd)
  /\ UNCHANGED <<logVars, excused, fd, offset, first, stopping, pc, work, env>>

ResendFails ==
  /\ pc = "drain" /\ pending # <<>>
  /\ Interrupted(pending)
  /\ saveCheckpoint(fd, committed) /\ pc' = "idle"
  /\ UNCHANGED <<logVars, excused, position, held, first, stopping, work, stops>>

IsKept(r) == r \notin Noise

\* How many lines the loop reads: until the batch is full or the file ends.
KeptIn(f, a, b) == SelectSeq(SubSeq(files[f].recs, a + 1, b), IsKept)
Until == LET full == {b \in offset..Size(fd) : Len(KeptIn(fd, offset, b)) = MaxBatch}
         IN IF full = {} THEN Size(fd) ELSE CHOOSE b \in full : \A c \in full : b <= c

\* The end of the dropped lines that come before the first kept one.
Skipped(f, a, b) ==
  CHOOSE c \in a..b : KeptIn(f, a, c) = <<>> /\ \A d \in c + 1..b : KeptIn(f, a, d) # <<>>

\* Lines are read and filtered into a batch; ctx is looked at before each.
\* Dropped lines in front of the batch are committed as they pass.
Read ==
  /\ pc = "drain" /\ pending = <<>>
  /\ \E b \in {offset} \cup offset..Until :
       /\ stopping \/ b = Until \/ offset > Size(fd)
       /\ offset' = b /\ batch' = KeptIn(fd, offset, b)
       /\ eof' = (stopping \/ Len(batch') < MaxBatch)
       /\ committed' = Skipped(fd, offset, b)
  /\ pc' = "flush"
  /\ UNCHANGED <<logVars, outcome, excused, cp, fd, held, first, stopping, phase, choice, env>>

\* flush succeeds: drain goes on, or returns nil at the end of the file or of ctx.
Flush ==
  /\ pc = "flush" /\ (batch = <<>> \/ ~stopping)
  /\ Delivered(batch)
  /\ committed' = offset /\ batch' = <<>>
  /\ saveCheckpoint(fd, offset)
  /\ pc' = IF eof \/ stopping THEN Return ELSE "drain"
  /\ UNCHANGED <<logVars, excused, fd, offset, held, first, stopping, phase, eof, choice, env>>

\* flush fails: the batch is kept for the next poll.
FlushFails ==
  /\ pc = "flush" /\ batch # <<>>
  /\ Interrupted(batch)
  /\ pending' = batch /\ pendingEnd' = offset /\ batch' = <<>>
  /\ saveCheckpoint(fd, committed) /\ pc' = "idle"
  /\ UNCHANGED <<logVars, excused, position, first, stopping, phase, eof, choice, stops>>

-----------------------------------------------------------------------------
(* Run *)

rotated == \E f \in LiveFiles : f # fd \/ Size(f) < offset

\* After a drain without error: a rotated file is drained once more before the
\* next one is opened, otherwise Run waits for the ticker.
CheckRotated ==
  /\ pc = "rotated"
  /\ IF rotated THEN pc' = "drain" /\ phase' = "open" /\ UNCHANGED cp
                ELSE pc' = "idle" /\ phase' = "check" /\ saveCheckpoint(fd, committed)
  /\ UNCHANGED <<logVars, outcome, excused, position, held, first, stopping, batch, eof, choice, env>>

\* A tick that is not within the backoff.
Tick ==
  /\ pc = "idle"
  /\ pc' = (IF fd = 0 THEN "choose" ELSE "drain") /\ phase' = "check"
  /\ UNCHANGED <<logVars, outcome, excused, cp, position, held, first, stopping, batch, eof, choice, env>>

Forget ==
  /\ pc' = "down" /\ stopping' = FALSE /\ fd' = 0 /\ offset' = 0 /\ committed' = 0
  /\ pending' = <<>> /\ pendingEnd' = 0 /\ batch' = <<>> /\ eof' = FALSE
  /\ first' = TRUE /\ phase' = "check" /\ choice' = [file |-> Live, off |-> 0]
  \* a removed file goes with its last reader
  /\ excused' = IF fd # 0 /\ files[fd].on = "gone"
                THEN excused \cup Range(files[fd].recs) ELSE excused

\* ctx is cancelled.
Cancel ==
  /\ pc # "down" /\ ~stopping /\ stops < MaxStops
  /\ RaceStop \/ fd \in LiveFiles
  /\ stopping' = TRUE /\ stops' = stops + 1
  /\ UNCHANGED <<logVars, outcome, excused, cp, position, held, first, pc, work, outages>>

\* Run sees ctx.Done and leaves: its deferred call saves the checkpoint.
Stop ==
  /\ pc = "idle" /\ stopping
  /\ saveCheckpoint(fd, committed) /\ Forget
  /\ UNCHANGED <<logVars, outcome, env>>

Crash ==
  /\ pc # "down" /\ stops < MaxStops /\ stops' = stops + 1
  /\ Forget
  /\ UNCHANGED <<logVars, outcome, cp, outages>>

Restart ==
  /\ pc = "down" /\ pc' = "choose"
  /\ UNCHANGED <<logVars, outcome, excused, cp, position, held, first, stopping, work, env>>

-----------------------------------------------------------------------------
Init ==
  /\ files = <<>> /\ now = 0 /\ written = 0
  /\ received = {} /\ rejected = {} /\ excused = {} /\ cp = NoCheckpoint
  /\ fd = 0 /\ offset = 0 /\ committed = 0 /\ pending = <<>> /\ pendingEnd = 0
  /\ first = TRUE /\ stopping = FALSE
  /\ pc = "down" /\ phase = "check" /\ batch = <<>> /\ eof = FALSE
  /\ choice = [file |-> Live, off |-> 0]
  /\ outages = 0 /\ stops = 0

ApiServer == Write \/ Rename \/ Create \/ Remove
Work == \/ Choose \/ Open \/ OpenFails \/ Resend \/ ResendFails \/ Read \/ Flush
        \/ FlushFails \/ CheckRotated \/ Tick \/ Restart
Next == ApiServer \/ Work \/ Cancel \/ Stop \/ Crash

Spec == Init /\ [][Next]_vars

\* The reader's goroutine runs; a select with both channels ready takes either,
\* so ctx.Done is taken in the end; the API server completes a rotation.
FairSpec == Spec /\ WF_vars(Work) /\ SF_vars(Stop) /\ WF_vars(Create)

-----------------------------------------------------------------------------
(* Properties *)

Settled == received \cup rejected \cup Noise \cup excused

\* The reader follows rotation: its committed position (t.committed in the open
\* file) never passes a record that kvisior has neither committed nor rejected,
\* in this file or in one rotated before it.
NoneSkipped == fd # 0 => Before(fd, committed) \subseteq Settled

\* "The checkpoint advances only after kvisior commits the batch": nothing
\* before the saved checkpoint is still owed, so a restart continues from the
\* last acknowledgement.
CheckpointAcked == cp # NoCheckpoint => Before(cp.file, cp.off) \subseteq Settled

\* Rotated files are read oldest first: a record that arrives for the first
\* time finds all older records settled.
OldestFirst ==
  [][\A r \in received' \ received : 1..(r - 1) \subseteq Settled']_vars

\* Variant: all kept files are counted.
headroomAll == Cardinality(retained)

\* measure looks for rotated files only once t.path no longer names the open file.
behind == fd # 0 /\ fd \notin LiveFiles

\* measure: the rotated files kept that rotation removes before it reaches a
\* file the reader has not started; the open file is one of them.
headroom ==
  Cardinality({f \in retained : ~ (f # fd /\ files[f].mtime > files[fd].mtime)})

\* The headroom that measure reports "while it is reading a rotated file ... the
\* number of kept rotated files that rotation deletes before it reaches unread
\* data" (docs/audit-delivery.md:56-58) is real: that many of the oldest files can
\* be removed without losing a record to a reader that stays up.  The open file is
\* counted although it holds unread lines (logtail_test.go:342 expects 1 for a file
\* of which nothing has arrived): the descriptor keeps its lines readable, so they
\* are excepted here.
HeadroomHonest ==
  behind => \A f \in retained :
    Cardinality({g \in retained : files[g].mtime <= files[f].mtime}) <= headroom
      => Range(files[f].recs) \subseteq Settled \cup Range(files[fd].recs)

\* Every record kept by the filter and still there reaches kvisior or is
\* rejected by it, through outages, rotations, crashes and restarts.
AllDelivered == \A r \in Records : (written >= r) ~> (r \in Settled)
=============================================================================
