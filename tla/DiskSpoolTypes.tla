--------------------------- MODULE DiskSpoolTypes ----------------------------
(***************************************************************************)
(* Type correctness of the spool: one lemma per part of TypeOK, each with a *)
(* case for every action that can disturb that part.                       *)
(***************************************************************************)
EXTENDS DiskSpoolScan

\* The constants that occur in arithmetic are numbers.
LEMMA Constants ==
  /\ \A c \in {JobsCap, MaxBatch, BlockSize, RecordBytes, PackedBytes, SegmentMax} :
    c \in Nat /\ c > 0
  /\ MaxBatch \in Nat /\ MaxBatch > 0
BY SpoolAssumption

\* Writing a file keeps a directory a directory.
LEMMA PutType ==
  ASSUME NEW d, IsDirectory(d), NEW n \in Names, NEW f, IsFile(f)
  PROVE  IsDirectory(Put(d, n, f))
<1>1. DOMAIN Put(d, n, f) = DOMAIN d \cup {n}
  BY DEF Put
<1>2. IsFiniteSet(DOMAIN Put(d, n, f))
  BY <1>1, FS_AddElement DEF IsDirectory
<1> QED BY <1>1, <1>2 DEF IsDirectory, Put

\* So does removing one.
LEMMA DelType ==
  ASSUME NEW d, IsDirectory(d), NEW n
  PROVE  IsDirectory(Del(d, n))
<1>1. DOMAIN Del(d, n) = DOMAIN d \ {n}
  BY DEF Del, Restrict
<1>2. IsFiniteSet(DOMAIN Del(d, n))
  BY <1>1, FS_RemoveElement DEF IsDirectory
<1> QED BY <1>1, <1>2 DEF IsDirectory, Del, Restrict

\* A freshly written file is a file.
LEMMA FileType == \A rs \in Seq(Records) : IsFile(File(rs))
BY DEF IsFile, File

\* What a power loss leaves of a directory is a directory.
LEMMA SurvivorsType ==
  ASSUME NEW d, IsDirectory(d), NEW s, IsDirectory(s), NEW keep
  PROVE  IsDirectory(Survivors(d, s, keep))
<1>1. DOMAIN Survivors(d, s, keep) = (DOMAIN d \cap keep) \cup (DOMAIN s \ keep)
  BY DEF Survivors
<1>2. IsFiniteSet(DOMAIN d \cap keep) /\ IsFiniteSet(DOMAIN s \ keep)
  BY FS_Intersection, FS_Difference DEF IsDirectory
<1>3. IsFiniteSet(DOMAIN Survivors(d, s, keep))
  BY <1>1, <1>2, FS_Union
<1> QED BY <1>1, <1>3 DEF IsDirectory, Survivors

\* The empty sequence belongs to every type of sequence.
LEMMA NoneType == <<>> \in Seq(Records) /\ <<>> \in Seq(Names) /\ <<>> \in Seq(Entries)
BY EmptySeq
\* The name that stands for no file is a name.
LEMMA NoFileType == NoFile \in Names
BY DEF NoFile, Names

\* The cleared fields of the sender have their types.
LEMMA NoSendType ==
  ASSUME NoSend
  PROVE  cur' \in Names /\ raws' \in Seq(Records) /\ idx' \in Nat /\ rejects' \in Seq(Records)
BY NoneType, NoFileType DEF NoSend

\* The cleared fields of compact have their types.
LEMMA NoPackType == ASSUME NoPack PROVE PackOK' /\ ret' = "down"
BY NoneType, NoFileType DEF NoPack, PackOK

\* The variables of a compaction that has just taken its snapshot.
StartedPack ==
  /\ snap' = [i \in DOMAIN files |-> files[i].name]
  /\ pos' = 1 /\ run' = <<>> /\ recs' = <<>> /\ seg' = NoFile

\* The list of files as a function on 1..Len(files).
LEMMA FilesType ==
  ASSUME ListOK
  PROVE  /\ Len(files) \in Nat /\ DOMAIN files = 1..Len(files)
         /\ \A i \in DOMAIN files : files[i] \in Entries /\ files[i].name \in Names
<1>1. Len(files) \in Nat /\ DOMAIN files = 1..Len(files)
  BY LenProperties DEF ListOK
<1>2. \A i \in DOMAIN files : files[i] \in Entries
  BY <1>1, ElementOfSeq DEF ListOK
<1> QED BY <1>1, <1>2 DEF Entries

\* The fields of a compaction that has just begun have their types.
LEMMA StartedPackType == ASSUME ListOK, StartedPack PROVE PackOK'
BY NoneType, NoFileType, FilesType, SeqDef DEF StartedPack, PackOK

\* A sequence that is not empty has a first element.
LEMMA NotEmpty ==
  ASSUME NEW S, NEW s \in Seq(S), s # <<>>
  PROVE  Len(s) \in Nat /\ Len(s) > 0 /\ 1 \in DOMAIN s /\ s[1] \in S
BY EmptySeq, LenProperties, ElementOfSeq
\* An entry of the list has its type.
LEMMA EntryType == \A n \in Names, k \in Nat : [name |-> n, size |-> SizeOf(n, k)] \in Entries
BY SpoolAssumption DEF SizeOf, blocks, Names, Entries

\* A decayed file is a file.
LEMMA SpoilType == \A f : IsFile(f) => IsFile(Spoil(f))
BY Zenon DEF IsFile, Spoil

\* Every step keeps the directories well formed.
LEMMA DirsStep == ASSUME TypeOK, [Next]_vars PROVE DirsOK'
<1> USE DEF TypeOK, DirsOK
<1>1. \/ UNCHANGED dirs
      \/ WriteFile \/ Publish \/ WriteSegment \/ SyncSegment \/ RemoveMerged \/ SegmentDone
      \/ QuarantineFile \/ Quarantine \/ QuarantineSync \/ RemoveSent \/ Forget
      \/ LosePower \/ Decay
  BY Zenon DEF Next, WriterNext, SenderNext, CompactNext, Open, NewDiskSpool, Crash, Close, Cancel,
     Released, Enqueue, Timeout, WriterTake, Reserve, WriterExit, CollectFile, SkipFile, EndRun,
     CollectDone,  SwapSegment,   TakeHead, Woken, SenderExit, ReadHead,  Deliver, DeliverSingle,
     SendFailed, Retry, Pressed, Idle, dirs, vars
<1>2. CASE UNCHANGED dirs
  BY <1>2 DEF dirs
<1>3. CASE WriteFile
  BY <1>3, PutType, FileType DEF WriteFile, Try, WriterOK
<1>4. CASE Publish \/ SyncSegment \/ SegmentDone \/ QuarantineSync \/ Forget
  BY <1>4 DEF Publish, SyncSegment, SegmentDone, QuarantineSync, Forget, Try
<1>5. CASE WriteSegment
  BY <1>5, PutType, FileType DEF WriteSegment, Try, PackOK
<1>6. CASE RemoveMerged \/ RemoveSent
  BY <1>6, DelType DEF RemoveMerged, RemoveSent, Try
<1>7. CASE QuarantineFile
  <2>1. IsFile(disk[cur])
    BY <1>7 DEF QuarantineFile, IsDirectory
  <2>2. IsDirectory(Del(disk, cur)) /\ IsDirectory(Del(stable, cur))
    BY DelType
  <2>3. IsDirectory(Put(dead, cur, disk[cur])) /\ IsDirectory(Put(deadStable, cur, disk[cur]))
    BY <2>1, PutType DEF SenderOK
  <2> QED BY <1>7, <2>2, <2>3 DEF QuarantineFile, Try, dirs
<1>8. CASE Quarantine
  <2>1. IsDirectory(Put(dead, DeadName(cur), File(rejects)))
    BY PutType, FileType DEF SenderOK, DeadName, Names
  <2> QED BY <1>8, <2>1 DEF Quarantine, Try
<1>9. CASE LosePower
  BY <1>9, SurvivorsType DEF LosePower
<1>10. CASE Decay
  BY <1>10, SpoilType DEF Decay, IsDirectory
<1> QED BY <1>1, <1>2, <1>3, <1>4, <1>5, <1>6, <1>7, <1>8, <1>9, <1>10

\* Only delivery, publication and decay touch the sets of records.
LEMMA RecordsFrame ==
  ASSUME [Next]_vars
  PROVE  UNCHANGED <<received, accepted, spoilt>> \/ Publish \/ Deliver \/ DeliverSingle \/ Decay
BY Zenon DEF Next, WriterNext, SenderNext, CompactNext, Open, NewDiskSpool, Crash, LosePower, Stop,
   Close, Cancel, Released, Enqueue, Timeout, WriterTake, Reserve, WriteFile, WriterExit,
   CollectFile, SkipFile, EndRun, CollectDone, WriteSegment, SyncSegment, SwapSegment,
   RemoveMerged, SegmentDone,  TakeHead, Woken, SenderExit, ReadHead, QuarantineFile, Quarantine,
   QuarantineSync, RemoveSent, Forget,  SendFailed, Retry, Pressed, Idle, outside, env, Works,
   Try, vars

\* Every step keeps the sets of records within Records.
LEMMA RecordsStep == ASSUME TypeOK, [Next]_vars PROVE RecordsOK'
<1> USE DEF TypeOK, RecordsOK
<1>1. UNCHANGED <<received, accepted, spoilt>> \/ Publish \/ Deliver \/ DeliverSingle \/ Decay
  BY RecordsFrame
<1>2. CASE Publish
  BY <1>2 DEF Publish, Works, env, WriterOK, Range
<1>3. CASE Deliver
  BY <1>3 DEF Deliver, Delivered, outside, Works, env, Outage, SenderOK
<1>4. CASE DeliverSingle
  BY <1>4 DEF DeliverSingle, outside, Works, env, Outage, SenderOK
<1>5. CASE Decay
  BY <1>5 DEF Decay, DirsOK, IsDirectory, IsFile, outside, Range
<1> QED BY <1>1, <1>2, <1>3, <1>4, <1>5

\* Every step keeps the calls of Enqueue and the channel well typed.
LEMMA CallsStep == ASSUME TypeOK, [Next]_vars PROVE CallsOK'
<1> USE DEF TypeOK, CallsOK
<1>1. \/ UNCHANGED <<calls, shutdown>>
      \/ WriterTake \/ Reserve \/ WriteFile \/ Publish
      \/ Close \/ Cancel \/ Released \/ Crash \/ LosePower
      \/ \E r \in Records : Enqueue(r) \/ Timeout(r)
  BY Zenon DEF Next, WriterNext, SenderNext, CompactNext, Open, NewDiskSpool, WriterExit, CollectFile,
     SkipFile, EndRun, CollectDone, WriteSegment, SyncSegment, SwapSegment, RemoveMerged,
     SegmentDone,  TakeHead, Woken, SenderExit, ReadHead, QuarantineFile, Deliver, DeliverSingle,
     Quarantine, QuarantineSync, RemoveSent, Forget,  SendFailed, Retry, Pressed, Decay, Idle,
     outside, writer, vars
<1>2. CASE UNCHANGED <<calls, shutdown>>
  BY <1>2 DEF calls, shutdown
<1>3. CASE WriterTake
  <2>1. \A k \in Nat : SubSeq(jobs, k + 1, Len(jobs)) \in Seq(Records)
    BY SubSeqProperties, ElementOfSeq
  <2>2. jobs' \in Seq(Records)
    BY <1>3, <2>1, Constants, LenProperties DEF WriterTake
  <2> QED BY <1>3, <2>2 DEF WriterTake, shutdown
<1>4. CASE Reserve \/ WriteFile
  BY <1>4 DEF Reserve, WriteFile, Try, RejectBatch, Answer, shutdown, CallStates, WriterOK
<1>5. CASE Publish
  BY <1>5 DEF Publish, Answer, shutdown, CallStates
<1>6. CASE Close \/ Cancel
  BY Zenon, <1>6 DEF Close, Cancel, calls, writer
<1>7. CASE Released \/ Crash \/ LosePower
  <2>1. Forgotten
    BY <1>7 DEF Released, Crash, LosePower
  <2>2. jobs' \in Seq(Records)
    BY <2>1, NoneType DEF Forgotten
  <2> QED BY Zenon, <2>1, <2>2 DEF Forgotten, CallStates
<1>8. CASE \E r \in Records : Enqueue(r) \/ Timeout(r)
  BY SMTT(60), <1>8 DEF Enqueue, Timeout, shutdown, CallStates
<1> QED BY <1>1, <1>2, <1>3, <1>4, <1>5, <1>6, <1>7, <1>8

\* A start of the spool takes the sorted list of all its files.
LEMMA OpenScans == ASSUME DirsOK, Open PROVE IsScan(files', disk)
BY ScanCorrect DEF Open, NewDiskSpool, DirsOK

\* Every step keeps the list, its counter and the sequence well typed.
LEMMA ListStep == ASSUME TypeOK, [Next]_vars PROVE ListOK'
<1> USE DEF TypeOK, ListOK
<1>1. \/ UNCHANGED <<files, quarantined, sequence>>
      \/ Reserve \/ Publish \/ SwapSegment \/ QuarantineFile \/ QuarantineSync \/ Forget
      \/ Open \/ Released \/ Crash \/ LosePower
  BY Zenon DEF Next, WriterNext, SenderNext, CompactNext, Close, Cancel, Enqueue, Timeout, WriterTake,
     WriteFile, WriterExit, CollectFile, SkipFile, EndRun, CollectDone, WriteSegment,
     SyncSegment, RemoveMerged, SegmentDone,  TakeHead, Woken, SenderExit, ReadHead, Deliver,
     DeliverSingle, Quarantine, RemoveSent,  SendFailed, Retry, Pressed, Decay, Idle, list,
     counters, outside, writer, vars
<1>3. CASE Reserve
  BY <1>3 DEF Reserve, list, counters
<1>4. CASE Publish
  BY <1>4, EntryType DEF Publish, counters, WriterOK
<1>5. CASE SwapSegment
  <2>1. \A at \in DOMAIN files : Spliced(at) \in Seq(Entries)
    <3> SUFFICES ASSUME NEW at \in DOMAIN files PROVE Spliced(at) \in Seq(Entries)
      OBVIOUS
    <3>1. /\ SubSeq(files, 1, at - 1) \in Seq(Entries)
          /\ SubSeq(files, at + Len(run), Len(files)) \in Seq(Entries)
      BY SubSeqProperties, ElementOfSeq, LenProperties DEF PackOK
    <3>2. [name |-> seg, size |-> SizeOf(seg, Len(recs))] \in Entries
      BY EntryType DEF PackOK
    <3> QED BY <3>1, <3>2, ConcatProperties DEF Spliced
  <2> QED BY <1>5, <2>1 DEF SwapSegment, list, outside, writer, counters
<1>6. CASE QuarantineFile
  BY <1>6, HeadTailProperties DEF QuarantineFile, Try, dropHead, list, outside, writer, counters
<1>7. CASE QuarantineSync
  BY <1>7 DEF QuarantineSync, Try, list, outside, writer, counters, SenderOK
<1>8. CASE Forget
  BY <1>8, HeadTailProperties DEF Forget, dropHead, list, outside, writer, counters
<1>9. CASE Open
  <2>1. files' \in Seq(Entries)
    BY <1>9, OpenScans DEF IsScan
  <2> QED BY <1>9, <2>1, SpoolAssumption DEF Open, NewDiskSpool, DirsOK, IsDirectory, Names
<1>10. CASE Released \/ Crash \/ LosePower
  <2>1. Forgotten
    BY <1>10 DEF Released, Crash, LosePower
  <2>2. files' \in Seq(Entries)
    BY <2>1, NoneType DEF Forgotten
  <2> QED BY <2>1, <2>2 DEF Forgotten
<1> QED BY <1>1,  <1>3, <1>4, <1>5, <1>6, <1>7, <1>8, <1>9, <1>10

\* Every step keeps the two signal channels well typed.
LEMMA SignalsStep == ASSUME TypeOK, [Next]_vars PROVE SignalsOK'
<1> USE DEF TypeOK, SignalsOK
<1>1. UNCHANGED signals \/ Publish \/ Woken \/ Pressed \/ Released \/ Crash \/ LosePower
  BY Zenon DEF Next, WriterNext, SenderNext, CompactNext, Open, NewDiskSpool, Close, Cancel, Enqueue,
     Timeout, WriterTake, Reserve, WriteFile, WriterExit, CollectFile, SkipFile, EndRun,
     CollectDone, WriteSegment, SyncSegment, SwapSegment, RemoveMerged, SegmentDone,  TakeHead,
     SenderExit, ReadHead, QuarantineFile, Deliver, DeliverSingle, Quarantine, QuarantineSync,
     RemoveSent, Forget,  SendFailed, Retry, Decay, Idle, outside, vars
<1>2. CASE UNCHANGED signals
  BY <1>2 DEF signals
<1>3. CASE Publish \/ Woken \/ Pressed
  BY Zenon, <1>3 DEF Publish, Woken, Pressed
<1>4. CASE Released \/ Crash \/ LosePower
  BY Zenon, <1>4 DEF Released, Crash, LosePower, Forgotten
<1> QED BY <1>1, <1>2, <1>3, <1>4

\* Every step keeps the writer's fields well typed.
LEMMA WriterStep == ASSUME TypeOK, [Next]_vars PROVE WriterOK'
<1> USE NoneType, NoFileType DEF TypeOK, WriterOK, WriterPCs
<1>1. UNCHANGED writerVars \/ WriterNext \/ Open \/ Released \/ Crash \/ LosePower
  BY Zenon DEF Next, SenderNext, CompactNext, Close, Cancel, Enqueue, Timeout, CollectFile, SkipFile,
     EndRun, CollectDone, WriteSegment, SyncSegment, SwapSegment, RemoveMerged, SegmentDone,
      TakeHead, SenderExit, ReadHead, QuarantineFile, Deliver, DeliverSingle, Quarantine,
      QuarantineSync, RemoveSent, Forget,  SendFailed, Retry, Pressed, Woken, Decay, Idle,
      outside, writer, vars
<1>2. CASE UNCHANGED writerVars
  BY <1>2 DEF writerVars
<1>3. CASE WriterTake
  <2>1. \A k \in Nat : k <= Len(jobs) => SubSeq(jobs, 1, k) \in Seq(Records)
    BY SubSeqProperties, ElementOfSeq DEF CallsOK
  <2> QED BY <1>3, <2>1, Constants, LenProperties DEF WriterTake, CallsOK
<1>4. CASE Reserve
  <2>1. CASE RejectBatch
    BY <2>1 DEF RejectBatch, Answer
  <2>2. CASE ~RejectBatch
    <3>1. wname' = <<sequence + 1, 0>> /\ wpc' = "write" /\ batch' = batch
      BY <1>4, <2>2 DEF Reserve
    <3> QED BY <3>1 DEF ListOK, Names
  <2> QED BY <2>1, <2>2
<1>5. CASE WriteFile
  BY Zenon, <1>5 DEF WriteFile, Try, RejectBatch, Answer
<1>6. CASE Publish \/ WriterExit
  BY Zenon, <1>6 DEF Publish, WriterExit, Answer
<1>7. CASE Open
  BY <1>7 DEF Open, NewDiskSpool
<1>8. CASE Released \/ Crash \/ LosePower
  BY Zenon, <1>8 DEF Released, Crash, LosePower, Forgotten
<1> QED BY <1>1, <1>2, <1>3, <1>4, <1>5, <1>6, <1>7, <1>8 DEF WriterNext
\* Every step keeps the sender's fields well typed.
LEMMA SenderStep == ASSUME TypeOK, [Next]_vars PROVE SenderOK'
<1> USE DEF TypeOK, SenderOK, SenderPCs
<1>1. UNCHANGED sender \/ SenderNext \/ Open \/ Released \/ Crash \/ LosePower
  BY Zenon DEF Next, WriterNext, WriterTake, Reserve, WriteFile, Publish, WriterExit, Close, Cancel,
     Enqueue, Timeout, Decay, Idle, vars
<1>2. CASE UNCHANGED sender
  BY <1>2 DEF sender, sendVars, packVars
<1>3. CASE Open
  BY <1>3 DEF Open, NewDiskSpool, sendVars, packVars
<1>4. CASE Released \/ Crash \/ LosePower
  <2>1. Forgotten
    BY <1>4 DEF Released, Crash, LosePower
  <2> QED BY <2>1, NoSendType, NoPackType DEF Forgotten
<1>5. CASE Woken \/ SenderExit \/ Retry
  BY <1>5 DEF Woken, SenderExit, Retry, sendVars, packVars
<1>6. CASE TakeHead
  <2>1. files # <<>> => files[1].name \in Names
    BY FilesType, NotEmpty DEF ListOK
  <2> QED BY <1>6, <2>1 DEF TakeHead, StartCompact, packVars
<1>7. CASE ReadHead
  BY <1>7 DEF ReadHead, Readable, Try, packVars, DirsOK, IsDirectory, IsFile
<1>8. CASE QuarantineFile
  <2>1. spc' \in {"head", "failed"} /\ UNCHANGED packVars /\ (NoSend \/ UNCHANGED sendVars)
    BY <1>8 DEF QuarantineFile, Try
  <2> QED BY <2>1, NoSendType DEF packVars, sendVars
<1>9. CASE Deliver
  BY <1>9 DEF Deliver, packVars
<1>10. CASE DeliverSingle
  <2>1. idx \in 1..Len(raws) /\ raws[idx] \in Records
    BY <1>10 DEF DeliverSingle
  <2>2. rejects' = Append(rejects, raws[idx]) \/ UNCHANGED rejects
    BY <1>10 DEF DeliverSingle
  <2>3. rejects' \in Seq(Records)
    BY <2>1, <2>2, AppendProperties
  <2>4. spc' = "single" => idx' = idx + 1 /\ idx # Len(raws)
    BY <1>10 DEF DeliverSingle
  <2> QED BY <1>10, <2>1, <2>3, <2>4 DEF DeliverSingle, packVars
<1>11. CASE Quarantine \/ QuarantineSync \/ RemoveSent
  BY <1>11 DEF Quarantine, QuarantineSync, RemoveSent, Try, packVars, sendVars
<1>12. CASE Forget
  BY <1>12, NoSendType DEF Forget, packVars
<1>13. CASE SendFailed
  BY <1>13, NoSendType DEF SendFailed, StartCompact, packVars
<1>14. CASE Pressed
  BY <1>14 DEF Pressed, StartCompact, packVars, sendVars
<1>15. CASE CollectFile \/ SkipFile \/ EndRun
  BY <1>15 DEF CollectFile, SkipFile, EndRun, sendVars
<1>16. CASE RemoveMerged
  BY <1>16 DEF RemoveMerged, sendVars
<1>17. CASE CollectDone \/ WriteSegment \/ SyncSegment \/ SegmentDone \/ SwapSegment
  <2>1. /\ UNCHANGED sendVars
        /\ EndCompact \/ (UNCHANGED ret /\ spc' \in {"segsync", "swap", "unlink", "collect"})
    BY <1>17 DEF CollectDone, WriteSegment, SyncSegment, SegmentDone, SwapSegment, Try, packVars
  <2> QED BY <2>1, NoPackType DEF EndCompact, sendVars
<1> QED
  BY Zenon, <1>1, <1>2, <1>3, <1>4, <1>5, <1>6, <1>7, <1>8, <1>9, <1>10, <1>11, <1>12, <1>13, <1>14,
     <1>15, <1>16, <1>17 DEF SenderNext, CompactNext

\* Every step keeps compact's fields well typed.
LEMMA PackStep == ASSUME TypeOK, [Next]_vars PROVE PackOK'
<1> USE DEF TypeOK, PackOK
<1>1. \/ UNCHANGED packVars
      \/ TakeHead \/ SendFailed \/ Pressed \/ CompactNext
      \/ Released \/ Crash \/ LosePower
  BY Zenon DEF Next, WriterNext, WriterTake, Reserve, WriteFile, Publish, WriterExit, Close, Cancel,
     Enqueue, Timeout, Decay, Idle, Open, NewDiskSpool,
   SenderNext, Woken, SenderExit, ReadHead, QuarantineFile, Deliver, DeliverSingle, Quarantine,
   QuarantineSync, RemoveSent, Forget, Retry, sender, vars
<1>2. CASE UNCHANGED packVars
  BY <1>2 DEF packVars
<1>3. CASE TakeHead \/ SendFailed \/ Pressed
  <2>1. UNCHANGED packVars \/ StartedPack
    BY <1>3 DEF TakeHead, SendFailed, Pressed, StartCompact, StartedPack
  <2> QED BY <2>1, StartedPackType DEF packVars
<1>4. CASE CollectFile
  <2>1. snap[pos] \in Names /\ disk[snap[pos]].recs \in Seq(Records)
    <3>1. snap[pos] \in DOMAIN disk
      BY <1>4 DEF CollectFile, Readable
    <3> QED BY <3>1 DEF DirsOK, IsDirectory, IsFile
  <2>2. /\ run' = Append(run, snap[pos]) /\ recs' = recs \o disk[snap[pos]].recs
        /\ pos' = pos + 1 /\ UNCHANGED <<snap, seg>>
    BY <1>4 DEF CollectFile
  <2>3. run' \in Seq(Names)
    BY Zenon, <2>1, <2>2, AppendProperties
  <2>4. recs' \in Seq(Records)
    BY Zenon, <2>1, <2>2, ConcatProperties
  <2> QED BY <2>2, <2>3, <2>4
<1>5. CASE SkipFile
  BY <1>5 DEF SkipFile
<1>6. CASE EndRun
  <2>1. run # <<>> => SegmentName(run[1]) \in Names
    BY ElementOfSeq, EmptySeq DEF SegmentName, Names
  <2>2. CASE Len(run) < 2
    <3>1. run' = <<>> /\ recs' = <<>> /\ UNCHANGED <<snap, pos, seg>>
      BY <1>6, <2>2 DEF EndRun
    <3> QED BY <3>1, NoneType
  <2>3. CASE ~(Len(run) < 2)
    BY <1>6, <2>1, <2>3 DEF EndRun
  <2> QED BY <2>2, <2>3
<1>7. CASE CollectDone \/ WriteSegment \/ SyncSegment \/ SwapSegment
  <2>1. NoPack \/ UNCHANGED packVars
    BY <1>7 DEF CollectDone, WriteSegment, SyncSegment, SwapSegment, Try, EndCompact
  <2> QED BY <2>1, NoPackType DEF packVars
<1>8. CASE SegmentDone
  <2>1. CASE NoPack
    BY <2>1, NoPackType
  <2>2. CASE ~NoPack
    <3>1. recs' = <<>> /\ seg' = NoFile /\ UNCHANGED <<snap, pos, run>>
      BY <1>8, <2>2 DEF SegmentDone, Try, EndCompact
    <3> QED BY <3>1, NoneType, NoFileType
  <2> QED BY <2>1, <2>2
<1>9. CASE RemoveMerged
  BY <1>9, HeadTailProperties DEF RemoveMerged
<1>10. CASE Released \/ Crash \/ LosePower
  <2>1. Forgotten
    BY <1>10 DEF Released, Crash, LosePower
  <2> QED BY <2>1, NoPackType DEF Forgotten
<1> QED
  BY <1>1, <1>2, <1>3, <1>4, <1>5, <1>6, <1>7, <1>8, <1>9, <1>10 DEF CompactNext

\* Every step keeps the counters of the environment natural numbers.
LEMMA BoundsStep == ASSUME TypeOK, [Next]_vars PROVE BoundsOK'
<1> USE DEF TypeOK, BoundsOK
<1>1. \/ UNCHANGED <<faults, rot, outages, stops>>
      \/ faults' = faults + 1 /\ UNCHANGED <<rot, outages, stops>>
      \/ rot' = rot + 1 /\ UNCHANGED <<faults, outages, stops>>
      \/ outages' = outages + 1 /\ UNCHANGED <<faults, rot, stops>>
      \/ stops' = stops + 1 /\ UNCHANGED <<faults, rot, outages>>
  <2>1. CASE WriterNext
    BY Zenon, <2>1 DEF WriterNext, WriterTake, Reserve, WriteFile, Publish, WriterExit, Try, Works, env
  <2>2. CASE CompactNext
    BY Zenon, <2>2 DEF CompactNext, CollectFile, SkipFile, EndRun, CollectDone, WriteSegment,
                SyncSegment, SwapSegment, RemoveMerged, SegmentDone, Try, Works, env
  <2>3. CASE SenderNext /\ ~CompactNext
    BY Zenon, <2>3 DEF SenderNext, TakeHead, Woken, SenderExit, ReadHead, QuarantineFile, Deliver,
                DeliverSingle, Quarantine, QuarantineSync, RemoveSent, Forget, SendFailed, Retry,
                Pressed, Outage, Try, Works, env
  <2> QED
    BY Zenon, <2>1, <2>2, <2>3 DEF Next, Open, NewDiskSpool, Crash, LosePower, Close, Cancel, Released,
       Stop, Enqueue, Timeout, Decay, Idle, env, vars
<1> QED BY <1>1

\* The type invariant holds whatever the goroutines, the disk and the receiver do.
THEOREM TypeCorrect == Spec => []TypeOK
<1>1. Init => TypeOK
  <2> SUFFICES ASSUME Init PROVE TypeOK
    OBVIOUS
  <2>1. DirsOK
    BY FS_EmptySet DEF Init, DirsOK, IsDirectory
  <2>2. RecordsOK /\ CallsOK
    BY Zenon, NoneType DEF Init, RecordsOK, CallsOK, CallStates
  <2>3. ListOK /\ SignalsOK
    BY Zenon, NoneType DEF Init, ListOK, SignalsOK
  <2>4. WriterOK
    BY NoneType, NoFileType DEF Init, WriterOK, WriterPCs
  <2>5. SenderOK
    BY NoneType, NoFileType DEF Init, SenderOK, SenderPCs
  <2>6. PackOK
    BY NoneType, NoFileType DEF Init, PackOK
  <2>7. BoundsOK
    BY DEF Init, BoundsOK
  <2> QED BY <2>1, <2>2, <2>3, <2>4, <2>5, <2>6, <2>7 DEF TypeOK
<1>2. TypeOK /\ [Next]_vars => TypeOK'
  BY DirsStep, RecordsStep, CallsStep, ListStep, SignalsStep, WriterStep, SenderStep, PackStep,
     BoundsStep DEF TypeOK
<1> QED BY <1>1, <1>2, PTL DEF Spec
====
