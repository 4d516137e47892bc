--------------------------- MODULE DiskSpoolKnows ----------------------------
(***************************************************************************)
(* What the writer, compact and send know about list and directories       *)
(* between two of their steps is preserved by every action: one lemma for  *)
(* each conjunct but SendKnows and Secured.                                *)
(***************************************************************************)
EXTENDS DiskSpoolLists

\* Most leaves are first-order: Zenon is tried first, and briefly.
USE ZenonT(5), SMTT(20)

\* Positions and lengths of compact are numbers.
LEMMA PackLengths ==
  ASSUME PackOK
  PROVE  /\ pos \in Nat /\ Len(run) \in Nat /\ Len(snap) \in Nat
         /\ DOMAIN run = 1..Len(run) /\ DOMAIN snap = 1..Len(snap)
         /\ snap \in [1..Len(snap) -> Names]
BY LenProperties DEF PackOK

\* A run that is being collected ends before the next position.
LEMMA Collected ==
  ASSUME PackOK, RunCollected
  PROVE  /\ pos \in Nat /\ Len(run) \in Nat /\ Len(snap) \in Nat
         /\ 0 < pos /\ Len(run) < pos /\ pos <= Len(snap) + 1
<1>1. Len(run) < pos /\ pos <= Len(snap) + 1
  BY Zenon DEF RunCollected
<1>2. pos \in Nat /\ Len(run) \in Nat /\ Len(snap) \in Nat
  BY Zenon, PackLengths
<1> QED BY <1>1, <1>2

\* The run with one more file at its end.
LEMMA RunLonger ==
  ASSUME run \in Seq(Names), snap[pos] \in Names, run' = Append(run, snap[pos])
  PROVE  /\ Len(run') = Len(run) + 1 /\ DOMAIN run' = 1..Len(run) + 1 /\ DOMAIN run = 1..Len(run)
         /\ \A j \in 1..Len(run) : run'[j] = run[j]
         /\ run'[Len(run) + 1] = snap[pos]
BY AppendProperties, LenProperties

\* A longer run at a later position starts at the same place.
LEMMA PlaceKept ==
  ASSUME NEW p \in Nat, NEW n \in Nat, NEW j \in Nat
  PROVE  (p + 1) - 1 - (n + 1) + j = p - 1 - n + j
OBVIOUS

\* Every step keeps the list in name order.
LEMMA SortedStep ==
  ASSUME TypeOK, SpoolInv, [Next]_vars
  PROVE  ListSorted'
<1> USE DEF TypeOK, ListSorted
<1>1. files' = files \/ Publish \/ SwapSegment \/ QuarantineFile \/ Forget \/ Open \/ Released
      \/ Crash \/ LosePower
  BY Zenon DEF Next, WriterNext, SenderNext, CompactNext, Close, Cancel, Enqueue, Timeout, WriterTake,
     Reserve, WriteFile, WriterExit, CollectFile, SkipFile, EndRun, CollectDone, WriteSegment,
     SyncSegment, RemoveMerged, SegmentDone, TakeHead, Woken, SenderExit, ReadHead, Deliver,
     DeliverSingle, Quarantine, QuarantineSync, RemoveSent, SendFailed, Retry, Pressed, Decay,
     Idle, list, vars
<1>2. CASE files' = files
  BY <1>2 DEF SpoolInv, Sorted
<1>3. CASE Publish
  <2>1. PICK e \in Entries : files' = Append(files, e) /\ e.name = wname
    BY <1>3, EntryType DEF Publish, WriterOK
  <2>2. \A i \in DOMAIN files : Before(files[i].name, wname)
    <3>1. wpc = "publish" /\ Up /\ wname = <<sequence, 0>>
      BY <1>3 DEF SpoolInv, NamesBounded, Publish, DownTogether, Up
    <3>2. \A n \in NamesOf(files) : n[1] < sequence
      BY <3>1 DEF SpoolInv, NamesBounded, InMemory
    <3> QED BY <3>1, <3>2 DEF NamesOf, Before
  <2> QED BY <2>1, <2>2, AppendList, FilesType DEF Sorted, SpoolInv
<1>4. CASE SwapSegment
  <2>1. CASE files' = files
    BY <2>1 DEF SpoolInv, Sorted
  <2>2. CASE files' # files
    <3>1. PICK at \in DOMAIN files : RunAt(at) /\ files' = Spliced(at) /\ spc = "swap"
      BY <1>4, <2>2 DEF SwapSegment, list
    <3> QED BY <3>1, SplicedSorted DEF SpoolInv, CompactKnows, ListSorted
  <2> QED BY <2>1, <2>2
<1>5. CASE QuarantineFile \/ Forget
  <2>1. files' = files \/ (files # <<>> /\ files' = Tail(files))
    BY <1>5 DEF QuarantineFile, Forget, dropHead, list, Try
  <2>2. CASE files' = files
    BY <2>2 DEF SpoolInv, Sorted
  <2>3. CASE files # <<>> /\ files' = Tail(files)
    <3>1. \A i \in DOMAIN files' : i + 1 \in DOMAIN files /\ files'[i] = files[i + 1]
      BY <2>3, TailList, FilesType
    <3>2. \A i, j \in DOMAIN files' : i < j => i + 1 < j + 1
      BY <2>3, TailList, FilesType
    <3> QED BY <3>1, <3>2 DEF Sorted, SpoolInv
  <2> QED BY <2>1, <2>2, <2>3
<1>6. CASE Open
  BY <1>6, OpenScans DEF IsScan
<1>7. CASE Released \/ Crash \/ LosePower
  BY <1>7 DEF Released, Crash, LosePower, Forgotten, Sorted
<1> QED BY <1>1, <1>2, <1>3, <1>4, <1>5, <1>6, <1>7

\* The sender runs in a started process and leaves the writer's variables alone.
LEMMA SenderFrame ==
  ASSUME TypeOK, SpoolInv, SenderNext
  PROVE  Up /\ Up' /\ UNCHANGED <<accepted, sequence, wpc, batch, wname>>
<1> USE DEF TypeOK, SpoolInv
<1>1. CASE CompactNext
  <2>1. UNCHANGED <<accepted, sequence, wpc, batch, wname>>
    BY Zenon, <1>1 DEF CompactNext, CollectFile, SkipFile, EndRun, CollectDone, WriteSegment,
                SyncSegment, SwapSegment, RemoveMerged, SegmentDone, outside, writer, writerVars
  <2>2. spc # "down" /\ ret # "down"
    BY Zenon, <1>1 DEF CompactNext, CollectFile, SkipFile, EndRun, CollectDone, WriteSegment,
                SyncSegment, SwapSegment, RemoveMerged, SegmentDone, CompactKnows
  <2>3. spc' # "down"
    BY Zenon, <1>1, <2>2 DEF CompactNext, CollectFile, SkipFile, EndRun, CollectDone, WriteSegment,
                SyncSegment, SwapSegment, RemoveMerged, SegmentDone, EndCompact, Try
  <2> QED BY <2>1, <2>2, <2>3 DEF Up
<1>2. CASE ~CompactNext
  <2>1. UNCHANGED <<accepted, sequence, wpc, batch, wname>>
    BY Zenon, <1>2 DEF SenderNext, TakeHead, Woken, SenderExit, ReadHead, QuarantineFile, Deliver,
                DeliverSingle, Quarantine, QuarantineSync, RemoveSent, Forget, SendFailed, Retry,
                Pressed, outside, writer, writerVars
  <2>2. spc # "down" /\ spc' # "down"
    BY Zenon, <1>2 DEF SenderNext, TakeHead, Woken, SenderExit, ReadHead, QuarantineFile, Deliver,
                DeliverSingle, Quarantine, QuarantineSync, RemoveSent, Forget, SendFailed, Retry,
                Pressed, StartCompact, Try
  <2> QED BY <2>1, <2>2 DEF Up
<1> QED BY <1>1, <1>2

\* Both goroutines start and stop together, and a stop clears the fields of the
\* sender.
LEMMA DownStep ==
  ASSUME TypeOK, SpoolInv, [Next]_vars
  PROVE  DownTogether' /\ ForgottenWhenDown'
<1> USE DEF TypeOK, DownTogether, ForgottenWhenDown, SpoolInv, Up
<1>1. CASE WriterNext
  BY Zenon, <1>1 DEF WriterNext, WriterTake, Reserve, WriteFile, Publish, WriterExit, Answer,
     RejectBatch, Try, sender, sendVars, packVars
<1>2. CASE SenderNext
  BY <1>2, SenderFrame
<1>3. CASE Released \/ Crash \/ LosePower
  BY <1>3 DEF Released, Crash, LosePower, Forgotten, NoSend, NoPack
<1>4. CASE ~WriterNext /\ ~SenderNext /\ ~Released /\ ~Crash /\ ~LosePower
  BY Zenon, <1>4 DEF Next, Open, NewDiskSpool, Close, Cancel, Enqueue, Timeout, Decay, Idle,
     sender, sendVars, packVars, writer, writerVars, outside, vars
<1> QED BY <1>1, <1>2, <1>3, <1>4

\* A step of the sender brings no number into use that was not in use before.
LEMMA MemoryKeys ==
  ASSUME TypeOK, SpoolInv, SenderNext
  PROVE  \A n \in InMemory' : n[1] = 0 \/ \E m \in InMemory : m[1] = n[1]
<1> USE DEF TypeOK, InMemory
<1>0. NoFile[1] = 0
  BY DEF NoFile
<1>1. CASE UNCHANGED <<files, snap, run, cur, seg>>
  BY <1>1 DEF NamesOf, Range
<1>2. CASE TakeHead \/ SendFailed \/ Pressed
  <2>1. /\ files' = files
        /\ snap' = snap \/ snap' = [i \in DOMAIN files |-> files[i].name]
        /\ run' = run \/ run' = <<>>
        /\ cur' \in {cur, NoFile} \/ (files # <<>> /\ cur' = files[1].name)
        /\ seg' \in {seg, NoFile}
    BY <1>2 DEF TakeHead, SendFailed, Pressed, StartCompact, packVars, sendVars, NoSend, list
  <2>2. Range(snap') \subseteq Range(snap) \cup NamesOf(files)
    BY <2>1 DEF Range, NamesOf
  <2>3. Range(run') \subseteq Range(run)
    BY <2>1 DEF Range
  <2>4. files # <<>> => files[1].name \in NamesOf(files)
    BY NotEmpty DEF NamesOf, ListOK
  <2>5. NamesOf(files') = NamesOf(files)
    BY <2>1
  <2>6. cur' \in InMemory \cup {NoFile} /\ seg' \in InMemory \cup {NoFile}
    BY <2>1, <2>4
  <2> QED BY <2>2, <2>3, <2>5, <2>6, <1>0
<1>3. CASE QuarantineFile \/ Forget
  <2>1. /\ files' = files \/ (files # <<>> /\ files' = Tail(files))
        /\ UNCHANGED <<snap, run, seg>> /\ cur' \in {cur, NoFile}
    BY <1>3 DEF QuarantineFile, Forget, dropHead, list, Try, packVars, sendVars, NoSend
  <2>2. NamesOf(files') \subseteq NamesOf(files)
    BY Zenon, <2>1, NamesTail
  <2> QED BY <2>1, <2>2, <1>0
<1>4. CASE CollectFile
  <2>1. snap[pos] \in Range(snap) /\ snap[pos] \in Names
    <3>1. RunCollected /\ pos <= Len(snap)
      BY <1>4 DEF CollectFile, SpoolInv, CompactKnows
    <3>2. 0 < pos /\ pos \in Nat /\ Len(snap) \in Nat
      BY Zenon, <3>1, Collected
    <3>3. pos \in 1..Len(snap)
      BY <3>1, <3>2
    <3>4. snap \in [1..Len(snap) -> Names] /\ DOMAIN snap = 1..Len(snap)
      BY Zenon, PackLengths
    <3> QED BY <3>3, <3>4 DEF Range
  <2>2. Range(run') = Range(run) \cup {snap[pos]}
    BY <1>4, <2>1, RangeAppend DEF CollectFile, PackOK
  <2> QED BY <1>4, <2>1, <2>2 DEF CollectFile, list, sendVars
<1>5. CASE EndRun
  <2>1. /\ UNCHANGED <<files, snap, cur>>
        /\ run' = run \/ run' = <<>>
        /\ seg' = seg \/ (run # <<>> /\ seg' = SegmentName(run[1]))
    BY <1>5 DEF EndRun, list, sendVars
  <2>2. Range(run') \subseteq Range(run)
    BY <2>1 DEF Range
  <2>3. run # <<>> => run[1] \in Range(run)
    BY NotEmpty DEF PackOK, Range
  <2>4. seg' = seg \/ \E m \in Range(run) : m[1] = seg'[1]
    BY <2>1, <2>3 DEF SegmentName
  <2> QED BY <2>1, <2>2, <2>4
<1>6. CASE SwapSegment
  <2>1. CASE \E at \in DOMAIN files : RunAt(at)
    <3>1. PICK at \in DOMAIN files : RunAt(at) /\ files' = Spliced(at)
      BY <1>6, <2>1 DEF SwapSegment
    <3>2. UNCHANGED <<snap, run, cur, seg>> /\ Len(run) >= 2
      BY <1>6, <2>1 DEF SwapSegment, packVars, sendVars, SpoolInv, CompactKnows
    <3>3. NamesOf(files') \subseteq NamesOf(files) \cup {seg}
      BY <3>1, <3>2, NamesSpliced DEF SpoolInv, ListSorted
    <3> QED BY <3>2, <3>3
  <2>2. CASE ~\E at \in DOMAIN files : RunAt(at)
    <3>1. files' = files /\ cur' = cur /\ NoPack
      BY <1>6, <2>2 DEF SwapSegment, EndCompact, list, sendVars
    <3> QED BY <3>1, <1>0 DEF NoPack, Range
  <2> QED BY <2>1, <2>2
<1>7. CASE RemoveMerged
  <2>1. Range(run') \subseteq Range(run)
    BY <1>7, RangeTail DEF RemoveMerged, PackOK
  <2> QED BY <1>7, <2>1 DEF RemoveMerged, list, sendVars
<1>8. CASE CollectDone \/ WriteSegment \/ SyncSegment
  <2>1. files' = files /\ cur' = cur /\ (NoPack \/ UNCHANGED packVars)
    BY <1>8 DEF CollectDone, WriteSegment, SyncSegment, Try, EndCompact, list, sendVars
  <2> QED BY <2>1, <1>0 DEF NoPack, packVars, Range
<1>9. CASE SegmentDone
  <2>1. /\ files' = files /\ cur' = cur /\ run' \in {run, <<>>}
        /\ snap' \in {snap, <<>>} /\ seg' \in {seg, NoFile}
    BY <1>9 DEF SegmentDone, Try, EndCompact, list, sendVars, NoPack
  <2> QED BY <2>1, <1>0 DEF Range
<1>10. CASE Woken \/ SenderExit \/ ReadHead \/ Deliver \/ DeliverSingle \/ Quarantine
             \/ QuarantineSync \/ RemoveSent \/ Retry \/ SkipFile
  BY Zenon, <1>1, <1>10 DEF Woken, SenderExit, ReadHead, Deliver, DeliverSingle, Quarantine,
     QuarantineSync, RemoveSent, Retry, SkipFile, list, sendVars, packVars
<1> QED
  BY <1>2, <1>3, <1>4, <1>5, <1>6, <1>7, <1>8, <1>9, <1>10 DEF SenderNext, CompactNext

\* The sender creates files only under sequence numbers that are in its hands
\* already.
LEMMA DiskKeys ==
  ASSUME TypeOK, SpoolInv, SenderNext
  PROVE  \A n \in OnDisk' : n \in OnDisk \/ \E m \in InMemory : m[1] = n[1]
<1> USE DEF OnDisk
<1>1. \/ UNCHANGED <<disk, dead>>
      \/ QuarantineFile \/ Quarantine \/ RemoveSent \/ WriteSegment \/ RemoveMerged
  BY Zenon DEF SenderNext, CompactNext, CollectFile, SkipFile, EndRun, CollectDone, SyncSegment,
     SwapSegment, SegmentDone, TakeHead, Woken, SenderExit, ReadHead, Deliver, DeliverSingle,
     QuarantineSync, Forget, SendFailed, Retry, Pressed, dirs
<1>2. CASE QuarantineFile
  <2>1. DOMAIN disk' \subseteq DOMAIN disk /\ DOMAIN dead' \subseteq DOMAIN dead \cup {cur}
    BY <1>2 DEF QuarantineFile, Try, dirs, Put, Del, Restrict
  <2> QED BY <2>1 DEF InMemory
<1>3. CASE Quarantine
  <2>1. disk' = disk /\ DOMAIN dead' \subseteq DOMAIN dead \cup {DeadName(cur)}
    BY <1>3 DEF Quarantine, Try, Put
  <2> QED BY <2>1 DEF InMemory, DeadName
<1>4. CASE RemoveSent \/ RemoveMerged
  <2>1. dead' = dead /\ DOMAIN disk' \subseteq DOMAIN disk
    BY <1>4 DEF RemoveSent, RemoveMerged, Try, Del, Restrict
  <2> QED BY <2>1
<1>5. CASE WriteSegment
  <2>1. dead' = dead /\ DOMAIN disk' \subseteq DOMAIN disk \cup {seg}
    BY <1>5 DEF WriteSegment, Try, Put
  <2> QED BY <2>1 DEF InMemory
<1> QED BY <1>1, <1>2, <1>3, <1>4, <1>5

\* Every step keeps the names in use behind the sequence.
LEMMA NamesStep ==
  ASSUME TypeOK, SpoolInv, [Next]_vars
  PROVE  NamesBounded'
<1> SUFFICES ASSUME Up' PROVE NamesBounded'
  BY DEF NamesBounded
<1> USE DEF TypeOK
<1>0. /\ sequence \in Nat /\ wname \in Names /\ cur \in Names
      /\ \A n \in OnDisk : n \in Names
  BY DEF ListOK, WriterOK, SenderOK, DirsOK, IsDirectory, OnDisk
<1>a. Up => /\ \A n \in OnDisk : n[1] <= sequence /\ (wpc = "write" => n[1] < sequence)
            /\ \A n \in InMemory :
              n[1] <= sequence /\ (wpc \in {"write", "publish"} => n[1] < sequence)
            /\ wpc \in {"write", "publish"} => wname = <<sequence, 0>>
  BY DEF SpoolInv, NamesBounded
<1>1. CASE Open
  <2>1. wpc' = "idle" /\ UNCHANGED <<disk, dead, snap, run, cur, seg>> /\ sequence' \in Nat
    BY <1>1, SpoolAssumption DEF Open, NewDiskSpool, dirs, sendVars, packVars, DirsOK,
       IsDirectory, Names
  <2>2. \A n \in OnDisk : n[1] <= sequence'
    BY <1>1 DEF Open, NewDiskSpool, OnDisk
  <2>3. NamesOf(files') = DOMAIN disk
    BY <1>1, OpenScans DEF IsScan
  <2>4. snap = <<>> /\ run = <<>> /\ cur = NoFile /\ seg = NoFile
    BY <1>1 DEF Open, NewDiskSpool, SpoolInv, ForgottenWhenDown, Up
  <2>5. \A n \in InMemory' : n[1] <= sequence'
    BY <2>1, <2>2, <2>3, <2>4 DEF InMemory, Range, OnDisk, NoFile
  <2> QED BY <2>1, <2>2, <2>5 DEF NamesBounded, OnDisk
<1>2. CASE Reserve
  <2>1. /\ UNCHANGED <<disk, dead, files, snap, run, cur, seg>> /\ Up
        /\ \/ sequence' = sequence /\ wpc' = "idle"
           \/ sequence' = sequence + 1 /\ wpc' = "write" /\ wname' = <<sequence', 0>>
    BY <1>2 DEF Reserve, RejectBatch, Answer, dirs, list, sender, sendVars, packVars, Up
  <2>2. OnDisk' = OnDisk /\ InMemory' = InMemory
    BY <2>1 DEF OnDisk, InMemory, NamesOf, Range
  <2>3. \A n \in InMemory : n \in Names
    BY FilesType, LenProperties, ElementOfSeq DEF InMemory, NamesOf, Range, PackOK, SenderOK
  <2> QED BY <2>1, <2>2, <2>3, <1>0, <1>a DEF NamesBounded, Names
<1>3. CASE WriteFile
  <2>1. /\ UNCHANGED <<dead, files, snap, run, cur, seg, sequence>> /\ Up /\ wpc = "write"
        /\ \/ wpc' = "idle" /\ UNCHANGED disk
           \/ wpc' = "publish" /\ UNCHANGED wname /\ disk' = Put(disk, wname, File(batch))
    BY <1>3 DEF WriteFile, RejectBatch, Answer, Try, list, sender, sendVars, packVars, Up
  <2>2. InMemory' = InMemory
    BY <2>1 DEF InMemory, NamesOf, Range
  <2>3. OnDisk' \subseteq OnDisk \cup {wname}
    BY <2>1 DEF OnDisk, Put
  <2> QED BY <2>1, <2>2, <2>3, <1>0, <1>a DEF NamesBounded
<1>4. CASE Publish
  <2>1. /\ UNCHANGED <<disk, dead, snap, run, cur, seg, sequence>> /\ Up /\ wpc = "publish"
        /\ wpc' = "idle"
    BY <1>4 DEF Publish, Answer, sender, sendVars, packVars, Up
  <2>2. PICK e \in Entries : files' = Append(files, e) /\ e.name = wname
    BY <1>4, EntryType DEF Publish, WriterOK
  <2>3. NamesOf(files') = NamesOf(files) \cup {wname}
    BY <2>2, NamesAppend
  <2>4. InMemory' \subseteq InMemory \cup {wname} /\ OnDisk' = OnDisk
    BY <2>1, <2>3 DEF InMemory, Range, OnDisk
  <2> QED BY <2>1, <2>4, <1>0, <1>a DEF NamesBounded
<1>5. CASE SenderNext
  <2>1. Up /\ UNCHANGED <<sequence, wpc, wname>>
    BY <1>5, SenderFrame
  <2>2. \A n \in InMemory' : n[1] <= sequence /\ (wpc \in {"write", "publish"} => n[1] < sequence)
    BY <2>1, <1>5, <1>0, <1>a, MemoryKeys DEF InMemory, Names
  <2>3. \A n \in OnDisk' : n[1] <= sequence /\ (wpc = "write" => n[1] < sequence)
    BY <2>1, <1>5, <1>a, DiskKeys
  <2> QED BY <2>1, <2>2, <2>3, <1>a DEF NamesBounded
<1>6. CASE ~Open /\ ~Reserve /\ ~WriteFile /\ ~Publish /\ ~SenderNext
  <2>1. /\ Up /\ UNCHANGED <<dead, files, snap, run, cur, seg, sequence, wname>>
        /\ DOMAIN disk' = DOMAIN disk
        /\ (wpc' \in {"write", "publish"} => wpc' = wpc)
    BY Zenon, <1>6 DEF Up, Next, WriterNext, WriterTake, WriterExit, Crash, LosePower, Close, Cancel,
       Released, Forgotten,
       Enqueue, Timeout, Decay, Idle, sender, writer, writerVars, outside, vars, dirs, list,
       packVars, sendVars
  <2>2. InMemory' = InMemory /\ OnDisk' = OnDisk
    BY <2>1 DEF InMemory, OnDisk, NamesOf, Range
  <2> QED BY <2>1, <2>2, <1>a DEF NamesBounded
<1> QED BY <1>1, <1>2, <1>3, <1>4, <1>5, <1>6
\* While a file is being published its name is used by nobody else.
LEMMA PublishedAlone ==
  ASSUME TypeOK, SpoolInv, wpc = "publish"
  PROVE  wname \notin InMemory
BY DEF TypeOK, SpoolInv, NamesBounded, DownTogether, Up, ListOK

\* Nobody touches the file that persist has written and not yet published.
LEMMA WriterKnowsStep ==
  ASSUME TypeOK, SpoolInv, [Next]_vars
  PROVE  WriterKnows'
<1> SUFFICES ASSUME wpc' = "publish"
             PROVE  wname' \in DOMAIN disk' /\ disk'[wname'].recs = batch'
  BY DEF WriterKnows
<1> USE DEF TypeOK
<1>1. CASE WriteFile
  BY <1>1 DEF WriteFile, Try, RejectBatch, Answer, Put, File
<1>2. CASE ~WriteFile
  <2>1. UNCHANGED <<wpc, wname, batch>>
    BY Zenon, <1>2 DEF Next, WriterNext, WriterTake, Reserve, Publish, WriterExit, Answer, RejectBatch,
       SenderNext, CompactNext, Open, NewDiskSpool, Crash, LosePower, Forgotten, Close, Cancel,
       Released, Enqueue, Timeout, CollectFile, SkipFile, EndRun, CollectDone, WriteSegment,
       SyncSegment, SwapSegment, RemoveMerged, SegmentDone, TakeHead, Woken, SenderExit, ReadHead,
       QuarantineFile, Deliver, DeliverSingle, Quarantine, QuarantineSync, RemoveSent, Forget,
       SendFailed, Retry, Pressed, Decay, Idle, outside, writer, writerVars, vars
  <2>2. wname \in DOMAIN disk /\ disk[wname].recs = batch /\ wname \notin InMemory
    BY <2>1, PublishedAlone DEF SpoolInv, WriterKnows
  <2>3. \/ disk' = disk
        \/ \E n \in InMemory : disk' = Del(disk, n)
        \/ \E n \in InMemory : \E f : disk' = Put(disk, n, f)
        \/ \E n \in DOMAIN disk : disk' = [disk EXCEPT ![n] = Spoil(@)]
    <3>1. disk' = disk \/ QuarantineFile \/ RemoveSent \/ WriteSegment \/ RemoveMerged \/ Decay
      BY Zenon, <1>2, <2>1 DEF Next, WriterNext, WriterTake, Reserve, Publish, WriterExit, Answer,
       SenderNext, CompactNext, Open, NewDiskSpool, Crash, LosePower, Forgotten, Close, Cancel,
       Released, Enqueue, Timeout, CollectFile, SkipFile, EndRun, CollectDone,
       SyncSegment, SwapSegment, SegmentDone, TakeHead, Woken, SenderExit, ReadHead,
       Deliver, DeliverSingle, Quarantine, QuarantineSync, Forget,
       SendFailed, Retry, Pressed, Idle, dirs, vars
    <3>2. CASE QuarantineFile \/ RemoveSent
      BY <3>2 DEF QuarantineFile, RemoveSent, Try, InMemory, dirs
    <3>3. CASE WriteSegment
      BY <3>3 DEF WriteSegment, Try, InMemory
    <3>4. CASE RemoveMerged
      <4>1. Head(run) \in Range(run)
        BY <3>4, RangeTail DEF RemoveMerged, PackOK
      <4> QED BY <3>4, <4>1 DEF RemoveMerged, Try, InMemory
    <3>5. CASE Decay
      BY Zenon, <3>5 DEF Decay
    <3> QED BY <3>1, <3>2, <3>3, <3>4, <3>5
  <2>4. \A f : IsFile(f) => Spoil(f).recs = f.recs
    BY DEF Spoil, IsFile
  <2> QED BY Zenon, <2>1, <2>2, <2>3, <2>4 DEF Del, Restrict, Put, DirsOK, IsDirectory
<1> QED BY <1>1, <1>2

\* The records of an unreadable file are counted as let down by the disk.
LEMMA UnreadableStep ==
  ASSUME TypeOK, SpoolInv, [Next]_vars
  PROVE  UnreadableIsSpoilt'
<1> USE DEF TypeOK
<1>0. /\ \A n \in DOMAIN disk : ~disk[n].ok => Range(disk[n].recs) \subseteq spoilt
      /\ \A n \in DOMAIN stable : ~stable[n].ok => Range(stable[n].recs) \subseteq spoilt
  BY Zenon DEF SpoolInv, UnreadableIsSpoilt
<1>1. CASE Decay
  <2>1. PICK d \in DOMAIN disk \cap DOMAIN stable :
          /\ disk' = [disk EXCEPT ![d] = Spoil(@)]
          /\ stable' = [stable EXCEPT ![d] = Spoil(@)]
          /\ spoilt' = spoilt \cup Range(disk[d].recs) \cup Range(stable[d].recs)
    BY Zenon, <1>1 DEF Decay
  <2>2. Spoil(disk[d]).recs = disk[d].recs /\ Spoil(stable[d]).recs = stable[d].recs
    BY DEF Spoil, DirsOK, IsDirectory, IsFile
  <2>3. ASSUME NEW n \in DOMAIN disk', ~disk'[n].ok PROVE Range(disk'[n].recs) \subseteq spoilt'
    BY <2>1, <2>2, <2>3, <1>0
  <2>4. ASSUME NEW n \in DOMAIN stable', ~stable'[n].ok
        PROVE Range(stable'[n].recs) \subseteq spoilt'
    BY <2>1, <2>2, <2>4, <1>0
  <2> QED BY <2>3, <2>4 DEF UnreadableIsSpoilt
<1>2. CASE ~Decay
  <2>1. spoilt \subseteq spoilt'
    BY Zenon, <1>2, RecordsFrame DEF Publish, Deliver, DeliverSingle, Outage, Works, env
  <2>2. ASSUME NEW n \in DOMAIN disk'
        PROVE  disk'[n].ok \/ (n \in DOMAIN disk /\ disk'[n] = disk[n])
                           \/ (n \in DOMAIN stable /\ disk'[n] = stable[n])
    <3>1. \/ disk' = disk \/ WriteFile \/ QuarantineFile \/ RemoveSent \/ WriteSegment
          \/ RemoveMerged \/ LosePower
      BY Zenon, <1>2 DEF Next, WriterNext, WriterTake, Reserve, Publish, WriterExit, Answer,
       SenderNext, CompactNext, Open, NewDiskSpool, Crash, Forgotten, Close, Cancel,
       Released, Enqueue, Timeout, CollectFile, SkipFile, EndRun, CollectDone,
       SyncSegment, SwapSegment, SegmentDone, TakeHead, Woken, SenderExit, ReadHead,
       Deliver, DeliverSingle, Quarantine, QuarantineSync, Forget,
       SendFailed, Retry, Pressed, Idle, dirs, vars
    <3>2. CASE WriteFile \/ WriteSegment
      <4>1. CASE WriteFile
        BY SMTT(30), <4>1 DEF WriteFile, Try, Put, File
      <4>2. CASE WriteSegment
        BY SMTT(30), <4>2 DEF WriteSegment, Try, Put, File
      <4> QED BY Zenon, <3>2, <4>1, <4>2
    <3>3. CASE QuarantineFile \/ RemoveSent \/ RemoveMerged
      BY <3>3 DEF QuarantineFile, RemoveSent, RemoveMerged, Try, dirs, Del, Restrict
    <3>4. CASE LosePower
      BY <3>4 DEF LosePower, Survivors
    <3> QED BY <3>1, <3>2, <3>3, <3>4
  <2>3. ASSUME NEW n \in DOMAIN stable'
        PROVE  \/ n \in DOMAIN stable /\ stable'[n] = stable[n]
               \/ n \in DOMAIN disk /\ stable'[n] = disk[n]
    <3>1. stable' = stable \/ stable' = disk \/ QuarantineFile \/ LosePower
      BY Zenon, <1>2 DEF Next, WriterNext, WriterTake, Reserve, WriteFile, Publish, WriterExit, Answer,
       SenderNext, CompactNext, Open, NewDiskSpool, Crash, Forgotten, Close, Cancel,
       Released, Enqueue, Timeout, CollectFile, SkipFile, EndRun, CollectDone, WriteSegment,
       SyncSegment, SwapSegment, RemoveMerged, SegmentDone, TakeHead, Woken, SenderExit, ReadHead,
       Deliver, DeliverSingle, Quarantine, QuarantineSync, RemoveSent, Forget,
       SendFailed, Retry, Pressed, Idle, dirs, Try, vars
    <3>2. CASE QuarantineFile
      BY <3>2 DEF QuarantineFile, Try, dirs, Del, Restrict
    <3>3. CASE LosePower
      BY <3>3 DEF LosePower, Survivors
    <3> QED BY <3>1, <3>2, <3>3
  <2>4. ASSUME NEW n \in DOMAIN disk', ~disk'[n].ok PROVE Range(disk'[n].recs) \subseteq spoilt'
    BY <2>1, <2>2, <2>4, <1>0
  <2>5. ASSUME NEW n \in DOMAIN stable', ~stable'[n].ok
        PROVE  Range(stable'[n].recs) \subseteq spoilt'
    BY <2>1, <2>3, <2>5, <1>0
  <2> QED BY <2>4, <2>5 DEF UnreadableIsSpoilt
<1> QED BY <1>1, <1>2

\* The list as it is, or with one new file at its end.
Grown ==
  files' = files \/ \E e \in Entries : files' = Append(files, e) /\ e.name \notin InMemory

\* A list that has grown still has its old entries in their places.
LEMMA GrownList ==
  ASSUME TypeOK, Grown
  PROVE  \A i \in 1..Len(files) : i \in DOMAIN files' /\ files'[i] = files[i]
<1>1. Len(files) \in Nat /\ DOMAIN files = 1..Len(files) /\ ListOK
  BY FilesType DEF TypeOK
<1>2. CASE files' = files
  BY <1>1, <1>2
<1>3. CASE files' # files
  <2>1. PICK e \in Entries : files' = Append(files, e)
    BY <1>3 DEF Grown
  <2>2. DOMAIN files' = 1..Len(files) + 1 /\ \A i \in 1..Len(files) : files'[i] = files[i]
    BY <1>1, <2>1, AppendList
  <2>3. 1..Len(files) \subseteq 1..Len(files) + 1
    BY <1>1
  <2> QED BY <2>2, <2>3
<1> QED BY <1>2, <1>3

\* What stands in the list in snapshot order stays so when the list grows.
LEMMA AlignedGrown ==
  ASSUME TypeOK, Grown, snap' = snap, NEW i, Aligned(i)
  PROVE  \E d \in 0..Len(snap') : \A k \in i..Len(snap') :
           k - d \in DOMAIN files' /\ files'[k - d].name = snap'[k]
<1>1. PICK d \in 0..Len(snap) : \A k \in i..Len(snap) :
        k - d \in DOMAIN files /\ files[k - d].name = snap[k]
  BY DEF Aligned
<1>2. DOMAIN files = 1..Len(files)
  BY FilesType DEF TypeOK
<1>3. \A k \in i..Len(snap) : k - d \in DOMAIN files' /\ files'[k - d].name = snap[k]
  BY <1>1, <1>2, GrownList
<1> QED BY <1>3

\* What remains of the snapshot from the run on stands in a list that grows.
LEMMA AlignedStays ==
  ASSUME TypeOK, Grown, UNCHANGED <<snap, pos, run>>
  PROVE  /\ Aligned(pos - Len(run)) => Aligned(pos - Len(run))'
         /\ Aligned(pos) => Aligned(pos)'
<1> DEFINE From(i) == \E d \in 0..Len(snap') : \A k \in i..Len(snap') :
                        k - d \in DOMAIN files' /\ files'[k - d].name = snap'[k]
<1>1. \A i : Aligned(i) => From(i)
  BY Zenon, AlignedGrown
<1>2. pos' - Len(run') = pos - Len(run) /\ pos' = pos
  BY Zenon
<1>3. /\ From(pos' - Len(run')) => Aligned(pos - Len(run))'
      /\ From(pos') => Aligned(pos)'
  BY Zenon DEF Aligned
<1> HIDE DEF From
<1> QED BY Zenon, <1>1, <1>2, <1>3

\* The same snapshot and list, seen from the new position and run.
LEMMA AlignedMoved ==
  ASSUME UNCHANGED <<snap, files>>, NEW i, pos' - Len(run') = i, Aligned(i)
  PROVE  Aligned(pos - Len(run))'
BY DEF Aligned

\* What a compaction knows survives the writer, which only adds files, and the
\* decay of a file, which keeps its records.
LEMMA CompactKept ==
  ASSUME TypeOK, SpoolInv, UNCHANGED <<spc, packVars>>, Grown,
         \A n \in DOMAIN disk \cap InMemory : n \in DOMAIN disk' /\ disk'[n].recs = disk[n].recs,
         SegmentSynced /\ SegmentOnDisk => SegmentSynced'
  PROVE  CompactKnows'
<1> USE DEF TypeOK
<1>0. UNCHANGED <<spc, snap, pos, run, recs, ret, seg>>
  BY DEF packVars
<1>1. CompactKnows
  BY DEF SpoolInv
<1>2. Range(run) \subseteq InMemory /\ seg \in InMemory
  BY DEF InMemory
<1>3. \A j \in DOMAIN run : run[j] \in InMemory
  BY <1>2 DEF Range
<1>4. RunCollected => RunCollected'
  <2> SUFFICES ASSUME RunCollected PROVE RunCollected'
    OBVIOUS
  <2>1. Aligned(pos - Len(run))'
    <3>1. Aligned(pos - Len(run))
      BY Zenon DEF RunCollected
    <3> QED BY Zenon, <3>1, <1>0, AlignedStays
  <2>2. Len(run') < pos' /\ pos' <= Len(snap') + 1
    BY <1>0 DEF RunCollected
  <2>3. \A j \in DOMAIN run' :
          /\ run'[j] = snap'[pos' - 1 - Len(run') + j]
          /\ run'[j] \in DOMAIN disk'
          /\ Range(disk'[run'[j]].recs) \subseteq Range(recs')
    <3>1. \A j \in DOMAIN run :
            /\ run[j] = snap[pos - 1 - Len(run) + j] /\ run[j] \in DOMAIN disk
            /\ Range(disk[run[j]].recs) \subseteq Range(recs)
      BY Zenon DEF RunCollected
    <3>2. \A j \in DOMAIN run :
            run[j] \in DOMAIN disk' /\ disk'[run[j]].recs = disk[run[j]].recs
      BY Zenon, <3>1, <1>3
    <3> QED BY Zenon, <3>1, <3>2, <1>0
  <2> QED BY Zenon, <2>1, <2>2, <2>3 DEF RunCollected
<1>5. SegmentOnDisk => SegmentOnDisk'
  BY <1>0, <1>2 DEF SegmentOnDisk
<1>6. spc = "unlink" => Aligned(pos)'
  <2> SUFFICES ASSUME spc = "unlink" PROVE Aligned(pos)'
    OBVIOUS
  <2>1. Aligned(pos)
    BY Zenon, <1>1 DEF CompactKnows
  <2> QED BY Zenon, <2>1, <1>0, AlignedStays
<1>7. \A n \in InMemory : n \notin NamesOf(files) => n \notin NamesOf(files')
  BY Zenon, NamesAppend DEF Grown
<1> QED BY <1>0, <1>1, <1>3, <1>4, <1>5, <1>6, <1>7 DEF CompactKnows

\* The elements of both parts are elements of the whole.
LEMMA ConcatRange ==
  ASSUME NEW s \in Seq(Records), NEW t \in Seq(Records)
  PROVE  Range(s) \subseteq Range(s \o t) /\ Range(t) \subseteq Range(s \o t)
<1>1. /\ DOMAIN s = 1..Len(s) /\ DOMAIN t = 1..Len(t) /\ Len(s) \in Nat /\ Len(t) \in Nat
      /\ DOMAIN (s \o t) = 1..Len(s) + Len(t)
      /\ \A i \in 1..Len(s) + Len(t) :
           (s \o t)[i] = IF i <= Len(s) THEN s[i] ELSE t[i - Len(s)]
  BY ConcatProperties, LenProperties
<1> DEFINE u == s \o t
<1> HIDE DEF u
<1>2. \A i \in 1..Len(s) : i \in DOMAIN u /\ u[i] = s[i]
  BY <1>1 DEF u
<1>3. \A i \in 1..Len(t) : Len(s) + i \in DOMAIN u /\ u[Len(s) + i] = t[i]
  BY <1>1 DEF u
<1>4. Range(s) \subseteq Range(u)
  BY <1>1, <1>2 DEF Range
<1>5. Range(t) \subseteq Range(u)
  BY <1>1, <1>3 DEF Range
<1> QED BY <1>4, <1>5 DEF u

Packing == {"collect", "segment", "segsync", "swap", "unlink"}

\* The writer's steps leave what compact knows as it is.
LEMMA CompactOther ==
  ASSUME TypeOK, SpoolInv, WriterNext
  PROVE  CompactKnows'
<1> USE DEF TypeOK
<1>1. UNCHANGED <<spc, packVars>>
  BY Zenon DEF WriterNext, WriterTake, Reserve, WriteFile, Publish, WriterExit, sender
<1>2. wpc \in {"write", "publish"} => wname \notin InMemory
  BY DEF SpoolInv, NamesBounded, DownTogether, Up, ListOK
<1>3. Grown
  <2>1. CASE Publish
    <3>1. [name |-> wname, size |-> SizeOf(wname, Len(batch))] \in Entries
      BY EntryType DEF WriterOK
    <3> QED BY <1>2, <2>1, <3>1 DEF Publish, Grown
  <2>2. CASE ~Publish
    BY Zenon, <2>2 DEF Grown, WriterNext, WriterTake, Reserve, WriteFile, WriterExit, list
  <2> QED BY <2>1, <2>2
<1>4. disk' = disk \/ (wpc = "write" /\ disk' = Put(disk, wname, File(batch)))
  BY DEF WriterNext, WriterTake, Reserve, WriteFile, Publish, WriterExit, dirs, Try
<1>5. \A n \in DOMAIN disk \cap InMemory : n \in DOMAIN disk' /\ disk'[n].recs = disk[n].recs
  BY <1>2, <1>4 DEF Put
<1>6. stable' = stable \/ stable' = disk
  BY Zenon DEF WriterNext, WriterTake, Reserve, WriteFile, Publish, WriterExit, dirs
<1>7. SegmentSynced /\ SegmentOnDisk => SegmentSynced'
  BY <1>1, <1>6 DEF SegmentSynced, SegmentOnDisk, packVars
<1> QED BY <1>1, <1>3, <1>5, <1>7, CompactKept

\* So does the decay of a file.
LEMMA CompactDecay ==
  ASSUME TypeOK, SpoolInv, Decay
  PROVE  CompactKnows'
<1> USE DEF TypeOK
<1>1. UNCHANGED <<spc, packVars>> /\ files' = files
  BY DEF Decay, sender, list
<1>2. PICK n \in DOMAIN disk \cap DOMAIN stable :
        /\ disk' = [disk EXCEPT ![n] = Spoil(disk[n])]
        /\ stable' = [stable EXCEPT ![n] = Spoil(stable[n])]
  BY Zenon DEF Decay
<1>3. Spoil(disk[n]).recs = disk[n].recs /\ Spoil(stable[n]).recs = stable[n].recs
  BY <1>2 DEF Spoil, DirsOK, IsDirectory, IsFile
<1>4. /\ DOMAIN disk' = DOMAIN disk /\ \A m \in DOMAIN disk : disk'[m].recs = disk[m].recs
      /\ DOMAIN stable' = DOMAIN stable /\ \A m \in DOMAIN stable : stable'[m].recs = stable[m].recs
  BY <1>2, <1>3
<1>5. SegmentSynced => SegmentSynced'
  BY <1>1, <1>4 DEF SegmentSynced, packVars
<1> QED BY <1>1, <1>4, <1>5, CompactKept DEF Grown

\* compact starts from a snapshot that is the list itself.
LEMMA CompactStart ==
  ASSUME TypeOK, SpoolInv, NEW m, NEW back \in {"send", "backoff"},
         StartCompact(m, back), files' = files, spc \notin Packing
  PROVE  CompactKnows'
<1> USE DEF TypeOK
<1>1. CASE spc' = back
  BY <1>1 DEF CompactKnows
<1>2. CASE spc' # back
  <2>1. /\ spc' = "collect" /\ snap' = [i \in DOMAIN files |-> files[i].name]
        /\ pos' = 1 /\ run' = <<>> /\ ret' = back
    BY <1>2 DEF StartCompact
  <2>2. Len(run') = 0 /\ DOMAIN run' = {}
    BY <2>1
  <2>3. DOMAIN files = 1..Len(files) /\ Len(files) \in Nat
    BY FilesType
  <2>4. /\ snap' \in Seq(Names) /\ Len(snap') = Len(files)
        /\ \A k \in 1..Len(files) : snap'[k] = files[k].name
    BY <2>1, <2>3, FilesType
  <2>5. \A k \in 1..Len(snap') : k - 0 \in DOMAIN files' /\ files'[k - 0].name = snap'[k]
    BY SMTT(60), <2>3, <2>4
  <2>6. 0 \in 0..Len(snap')
    BY <2>3, <2>4
  <2>7. Aligned(pos - Len(run))'
    <3>1. pos' - Len(run') = 1
      BY <2>1, <2>2
    <3> QED BY <3>1, <2>5, <2>6 DEF Aligned
  <2>8. Len(run') < pos' /\ pos' <= Len(snap') + 1
    BY <2>1, <2>2, <2>3, <2>4
  <2>9. RunCollected'
    BY <2>2, <2>7, <2>8 DEF RunCollected
  <2> QED BY <2>1, <2>9 DEF CompactKnows
<1> QED BY <1>1, <1>2

\* collectRun adds the next file of the snapshot and its records to the run.
LEMMA CompactCollect ==
  ASSUME TypeOK, SpoolInv, CollectFile
  PROVE  CompactKnows'
<1> USE DEF TypeOK
<1>0. /\ spc = "collect" /\ spc' = "collect" /\ pos \in Nat /\ pos <= Len(snap) /\ pos' = pos + 1
      /\ run' = Append(run, snap[pos]) /\ recs' = recs \o disk[snap[pos]].recs
      /\ UNCHANGED <<snap, disk, files, ret, seg>> /\ snap[pos] \in DOMAIN disk
  BY DEF CollectFile, dirs, list, Readable, PackOK
<1>1. RunCollected /\ ret \in {"send", "backoff"}
  BY <1>0 DEF SpoolInv, CompactKnows
<1>2. 0 < pos /\ Len(run) \in Nat /\ Len(snap) \in Nat /\ Len(run) < pos
  BY Zenon, <1>1, Collected
<1>3. snap[pos] \in Names
  <2>1. pos \in 1..Len(snap)
    BY SMT, <1>0, <1>2
  <2> QED BY Zenon, <2>1, PackLengths
<1>4. /\ Len(run') = Len(run) + 1 /\ DOMAIN run' = 1..Len(run) + 1 /\ DOMAIN run = 1..Len(run)
      /\ \A j \in 1..Len(run) : run'[j] = run[j]
      /\ run'[Len(run) + 1] = snap[pos]
  <2>1. run \in Seq(Names) /\ run' = Append(run, snap[pos])
    BY Zenon, <1>0 DEF PackOK
  <2> QED BY Zenon, <2>1, <1>3, RunLonger
<1>5. pos' - Len(run') = pos - Len(run) /\ Len(run') < pos' /\ pos' <= Len(snap) + 1
  <2>1. pos' = pos + 1 /\ Len(run') = Len(run) + 1 /\ pos \in Nat /\ pos <= Len(snap)
    BY Zenon, <1>0, <1>4
  <2> QED BY SMT, <2>1, <1>2
<1>6. Aligned(pos - Len(run))'
  <2>1. Aligned(pos - Len(run))
    BY Zenon, <1>1 DEF RunCollected
  <2> QED BY Zenon, <2>1, <1>0, <1>5, AlignedMoved
<1>7. Range(recs) \subseteq Range(recs') /\ Range(disk[snap[pos]].recs) \subseteq Range(recs')
  <2>1. recs \in Seq(Records) /\ disk[snap[pos]].recs \in Seq(Records)
    BY Zenon, <1>0 DEF PackOK, DirsOK, IsDirectory, IsFile
  <2> QED BY <1>0, <2>1, ConcatRange
<1>8. ASSUME NEW j \in DOMAIN run'
      PROVE  /\ run'[j] = snap'[pos' - 1 - Len(run') + j]
             /\ run'[j] \in DOMAIN disk'
             /\ Range(disk'[run'[j]].recs) \subseteq Range(recs')
  <2>1. CASE j = Len(run) + 1
    <3>1. pos' - 1 - Len(run') + j = pos
      BY <2>1, <1>0, <1>2, <1>4
    <3> QED BY <2>1, <3>1, <1>0, <1>4, <1>7
  <2>2. CASE j # Len(run) + 1
    <3>1. j \in 1..Len(run)
      BY <2>2, <1>2, <1>4
    <3>2. pos' - 1 - Len(run') + j = pos - 1 - Len(run) + j
      <4>1. j \in Nat
        BY <3>1, <1>2
      <4>2. pos' = pos + 1 /\ Len(run') = Len(run) + 1
        BY Zenon, <1>0, <1>4
      <4>3. pos \in Nat /\ Len(run) \in Nat
        BY Zenon, <1>1, Collected
      <4>4. (pos + 1) - 1 - (Len(run) + 1) + j = pos - 1 - Len(run) + j
        BY SMT, <4>1, <4>3, PlaceKept
      <4> QED BY SMT, <4>2, <4>4
    <3>3. /\ run[j] = snap[pos - 1 - Len(run) + j] /\ run[j] \in DOMAIN disk
          /\ Range(disk[run[j]].recs) \subseteq Range(recs)
      BY <3>1, <1>1, <1>4 DEF RunCollected
    <3> QED BY <3>1, <3>2, <3>3, <1>0, <1>4, <1>7
  <2> QED BY <2>1, <2>2
<1>9. RunCollected'
  BY <1>0, <1>5, <1>6, <1>8 DEF RunCollected
<1> QED BY <1>0, <1>1, <1>9 DEF CompactKnows

\* A later part of an aligned snapshot is aligned.
LEMMA AlignedLater ==
  ASSUME TypeOK, NEW i \in Int, NEW j \in Int, i <= j, Aligned(i)
  PROVE  Aligned(j)
<1>1. PICK d \in 0..Len(snap) : \A k \in i..Len(snap) :
        k - d \in DOMAIN files /\ files[k - d].name = snap[k]
  BY DEF Aligned
<1>2. Len(snap) \in Nat
  BY LenProperties DEF TypeOK, PackOK
<1>3. j..Len(snap) \subseteq i..Len(snap)
  BY <1>2
<1> QED BY Zenon, <1>1, <1>3 DEF Aligned

\* Skipping a file, ending a run and ending the compaction.
LEMMA CompactSkip ==
  ASSUME TypeOK, SpoolInv, SkipFile \/ EndRun \/ CollectDone
  PROVE  CompactKnows'
<1> USE DEF TypeOK
<1>0. spc = "collect" /\ UNCHANGED <<disk, files>>
  BY DEF SkipFile, EndRun, CollectDone, dirs, list
<1>1. RunCollected /\ ret \in {"send", "backoff"}
  BY <1>0 DEF SpoolInv, CompactKnows
<1>2. /\ pos \in Nat /\ Len(run) \in Nat /\ Len(snap) \in Nat /\ Len(run) < pos
      /\ DOMAIN run = 1..Len(run)
  BY <1>1, LenProperties DEF PackOK, RunCollected
<1>3. Aligned(pos)
  <2>1. Aligned(pos - Len(run))
    BY Zenon, <1>1 DEF RunCollected
  <2>2. pos - Len(run) \in Int /\ pos \in Int /\ pos - Len(run) <= pos
    BY SMT, <1>2
  <2> QED BY Zenon, <2>1, <2>2, AlignedLater
<1>4. CASE SkipFile
  <2>1. /\ pos <= Len(snap) /\ run = <<>> /\ run' = run /\ pos' = pos + 1
        /\ UNCHANGED <<spc, snap, ret, recs>>
    BY <1>4 DEF SkipFile
  <2>2. Len(run') = 0 /\ DOMAIN run' = {} /\ pos' - Len(run') = pos + 1
    BY <2>1, <1>2
  <2>3. Aligned(pos + 1)
    BY <1>2, <1>3, AlignedLater
  <2>4. Aligned(pos - Len(run))'
    BY <2>1, <2>2, <2>3, <1>0, AlignedMoved
  <2>5. RunCollected'
    BY <2>1, <2>2, <2>4, <1>2 DEF RunCollected
  <2> QED BY <1>0, <1>1, <2>1, <2>5 DEF CompactKnows
<1>5. CASE EndRun
  <2>1. UNCHANGED <<snap, pos, ret>>
    BY <1>5 DEF EndRun
  <2>2. CASE Len(run) < 2
    <3>1. run' = <<>> /\ spc' = spc
      BY <1>5, <2>2 DEF EndRun
    <3>2. Len(run') = 0 /\ DOMAIN run' = {} /\ pos' - Len(run') = pos
      BY <3>1, <2>1, <1>2
    <3>3. Aligned(pos - Len(run))'
      BY <3>2, <2>1, <1>0, <1>3, AlignedMoved
    <3>4. Len(run') < pos' /\ pos' <= Len(snap') + 1
      <4>1. pos <= Len(snap) + 1 /\ 0 < pos
        BY Zenon, <1>1, Collected
      <4> QED BY <3>2, <2>1, <4>1
    <3>5. RunCollected'
      BY <3>2, <3>3, <3>4, Zenon DEF RunCollected
    <3> QED BY <1>0, <1>1, <2>1, <3>1, <3>5 DEF CompactKnows
  <2>3. CASE ~(Len(run) < 2)
    <3>1. spc' = "segment" /\ seg' = SegmentName(run[1]) /\ UNCHANGED <<run, recs>>
      BY <1>5, <2>3 DEF EndRun
    <3>2. RunCollected'
      BY <3>1, <2>1, <1>0, <1>1 DEF RunCollected, Aligned
    <3>3. Len(run) >= 2
      BY <2>3, <1>2
    <3> QED BY <1>1, <2>1, <3>1, <3>2, <3>3 DEF CompactKnows
  <2> QED BY <2>2, <2>3
<1>6. CASE CollectDone
  BY <1>1, <1>6 DEF CollectDone, EndCompact, CompactKnows
<1> QED BY <1>4, <1>5, <1>6

\* A compaction that gives up knows nothing any more.
LEMMA CompactGivesUp ==
  ASSUME TypeOK, SpoolInv, EndCompact, spc \in Packing
  PROVE  CompactKnows'
BY DEF EndCompact, CompactKnows, SpoolInv, Packing

\* writeSegment writes the records of the run, then syncs the directory.
LEMMA CompactWrite ==
  ASSUME TypeOK, SpoolInv, WriteSegment \/ SyncSegment
  PROVE  CompactKnows'
<1> USE DEF TypeOK
<1>0. spc \in {"segment", "segsync"} /\ files' = files
  BY DEF WriteSegment, SyncSegment, list
<1>1. /\ RunCollected /\ ret \in {"send", "backoff"}
      /\ Len(run) >= 2 /\ seg = SegmentName(run[1]) /\ (spc = "segsync" => SegmentOnDisk)
  BY <1>0 DEF SpoolInv, CompactKnows
<1>2. CASE EndCompact
  BY <1>0, <1>2, CompactGivesUp DEF Packing
<1>3. CASE ~EndCompact
  <2>1. UNCHANGED <<snap, pos, run, recs, ret, seg>>
    BY <1>3 DEF WriteSegment, SyncSegment, Try, packVars
  <2>2. CASE WriteSegment
    <3>1. disk' = Put(disk, seg, File(recs)) /\ spc' = "segsync"
      BY <1>3, <2>2 DEF WriteSegment, Try
    <3>2. /\ DOMAIN disk' = DOMAIN disk \cup {seg} /\ disk'[seg].recs = recs
          /\ \A n \in DOMAIN disk : n # seg => disk'[n] = disk[n]
      BY Zenon, <3>1 DEF Put, File
    <3>3. SegmentOnDisk'
      BY Zenon, <3>2, <2>1 DEF SegmentOnDisk
    <3>4. RunCollected'
      BY <3>2, <2>1, <1>0, <1>1 DEF RunCollected, Aligned
    <3> QED BY <1>1, <2>1, <3>1, <3>3, <3>4 DEF CompactKnows
  <2>3. CASE SyncSegment
    <3>1. stable' = disk /\ spc' = "swap" /\ disk' = disk /\ spc = "segsync"
      BY <1>3, <2>3 DEF SyncSegment, Try
    <3>2. SegmentOnDisk' /\ SegmentSynced'
      BY <1>1, <2>1, <3>1 DEF SegmentOnDisk, SegmentSynced
    <3>3. RunCollected'
      BY <3>1, <2>1, <1>0, <1>1 DEF RunCollected, Aligned
    <3> QED BY <1>1, <2>1, <3>1, <3>2, <3>3 DEF CompactKnows
  <2> QED BY <2>2, <2>3
<1> QED BY <1>2, <1>3

\* The list has one place for a name.
LEMMA OnePlace ==
  ASSUME ListOK, Sorted(files), NEW i \in 1..Len(files), NEW j \in 1..Len(files),
         files[i].name = files[j].name
  PROVE  i = j
<1>1. files[i].name \in Names /\ DOMAIN files = 1..Len(files) /\ Len(files) \in Nat
  BY FilesType
<1>2. ~Before(files[i].name, files[i].name)
  BY <1>1, BeforeOrder
<1>3. ~(i < j) /\ ~(j < i)
  BY <1>1, <1>2 DEF Sorted
<1> QED BY <1>3

\* Positions behind a replaced run move down with it.
LEMMA PlaceBehindRun ==
  ASSUME NEW k \in Int, NEW d \in Int, NEW m \in Int, NEW n \in Int, NEW p \in Int, NEW at \in Int,
         k - d \in 1..n, p - m - d = at, at >= 1, k >= p
  PROVE  /\ k - (d + m - 1) \in 1..n - m + 1 /\ k - (d + m - 1) > at
         /\ k - (d + m - 1) + m - 1 = k - d
OBVIOUS

\* After the swap the rest of the snapshot stands Len(run) - 1 places further
\* to the front.
LEMMA AlignedSwap ==
  ASSUME TypeOK, Sorted(files), RunCollected, Len(run) >= 2,
         NEW at \in DOMAIN files, RunAt(at)
  PROVE  \E d \in 0..Len(snap) : \A k \in pos..Len(snap) :
           k - d \in DOMAIN Spliced(at) /\ Spliced(at)[k - d].name = snap[k]
<1> USE DEF TypeOK
<1> DEFINE l == Spliced(at)
           m == Len(run)
<1>1. /\ at \in 1..Len(files) /\ run # <<>> /\ at + m - 1 <= Len(files)
      /\ m \in Nat /\ Len(files) \in Nat /\ files[at].name = run[1]
  BY RunInList
<1>2. /\ DOMAIN l = 1..Len(files) - m + 1
      /\ \A i \in 1..Len(files) - m + 1 : i > at => l[i] = files[i + m - 1]
  BY Zenon, <1>1, SplicedList
<1>3. pos \in Nat /\ Len(snap) \in Nat /\ m < pos /\ pos <= Len(snap) + 1 /\ DOMAIN run = 1..m
  BY LenProperties DEF PackOK, RunCollected
<1>4. PICK d \in 0..Len(snap) : \A k \in (pos - m)..Len(snap) :
        k - d \in DOMAIN files /\ files[k - d].name = snap[k]
  BY DEF RunCollected, Aligned
<1>5. run[1] = snap[pos - m]
  <2>1. run[1] = snap[pos - 1 - m + 1] /\ pos - 1 - m + 1 = pos - m
    BY <1>3 DEF RunCollected
  <2> QED BY <2>1
<1>6. pos - m \in (pos - m)..Len(snap)
  BY <1>3
<1>7. pos - m - d \in DOMAIN files /\ files[pos - m - d].name = run[1]
  BY <1>4, <1>5, <1>6
<1>8. pos - m - d = at
  <2>1. pos - m - d \in 1..Len(files)
    BY <1>7, FilesType
  <2> QED BY <2>1, <1>1, <1>7, OnePlace
<1>9. d + m - 1 \in 0..Len(snap)
  BY <1>1, <1>3, <1>8
<1>10. ASSUME NEW k \in pos..Len(snap)
       PROVE  k - (d + m - 1) \in DOMAIN l /\ l[k - (d + m - 1)].name = snap[k]
  <2>1. k \in (pos - m)..Len(snap)
    BY <1>3
  <2>2. k - d \in 1..Len(files) /\ files[k - d].name = snap[k]
    BY <2>1, <1>4, FilesType
  <2>3. /\ k - (d + m - 1) \in 1..Len(files) - m + 1 /\ k - (d + m - 1) > at
        /\ k - (d + m - 1) + m - 1 = k - d
    <3>1. /\ k \in Int /\ d \in Int /\ m \in Int /\ Len(files) \in Int /\ pos \in Int /\ at \in Int
          /\ at >= 1 /\ k >= pos
      BY <1>1, <1>3
    <3> HIDE DEF m
    <3>2. k - d \in 1..Len(files) /\ pos - m - d = at
      BY <2>2, <1>8
    <3> QED BY <3>1, <3>2, PlaceBehindRun
  <2> HIDE DEF l, m
  <2> QED BY <2>2, <2>3, <1>2
<1> HIDE DEF l, m
<1>11. \E e \in 0..Len(snap) : \A k \in pos..Len(snap) :
         k - e \in DOMAIN l /\ l[k - e].name = snap[k]
  BY <1>9, <1>10
<1> QED BY <1>11 DEF l

\* After the swap the merged files, the segment aside, are off the list.
LEMMA CompactSwap ==
  ASSUME TypeOK, SpoolInv, SwapSegment
  PROVE  CompactKnows'
<1> USE DEF TypeOK
<1>0. spc = "swap" /\ ListSorted
  BY DEF SwapSegment, SpoolInv
<1>1. /\ RunCollected /\ ret \in {"send", "backoff"} /\ Len(run) >= 2
  BY <1>0 DEF SpoolInv, CompactKnows
<1>2. CASE \E at \in DOMAIN files : RunAt(at)
  <2>1. PICK at \in DOMAIN files : RunAt(at) /\ files' = Spliced(at)
    BY <1>2 DEF SwapSegment
  <2>2. spc' = "unlink" /\ UNCHANGED <<snap, pos, run, recs, ret, seg>>
    BY <1>2 DEF SwapSegment, packVars
  <2>3. Aligned(pos)'
    BY Zenon, <1>0, <1>1, <2>1, <2>2, AlignedSwap DEF Aligned, ListSorted
  <2>4. \A n \in Range(run) : n = seg \/ n \notin NamesOf(files')
    BY <1>0, <1>1, <2>1, NamesSpliced DEF ListSorted
  <2>5. \A j \in DOMAIN run' : run'[j] = seg' \/ run'[j] \notin NamesOf(files')
    BY <2>2, <2>4 DEF Range
  <2>6. 0 < pos' /\ pos' <= Len(snap') + 1
    <3>1. Len(run) \in Nat /\ pos \in Nat /\ Len(run) < pos /\ pos <= Len(snap) + 1
      BY <1>1, LenProperties DEF RunCollected, PackOK
    <3>2. 0 < pos
      BY <3>1
    <3> QED BY <2>2, <3>1, <3>2
  <2> QED BY <1>1, <2>2, <2>3, <2>5, <2>6 DEF CompactKnows
<1>3. CASE ~\E at \in DOMAIN files : RunAt(at)
  BY <1>0, <1>3, CompactGivesUp DEF SwapSegment, Packing
<1> QED BY <1>2, <1>3

\* Removing the merged files one by one, and the last sync.
LEMMA CompactRemove ==
  ASSUME TypeOK, SpoolInv, RemoveMerged \/ SegmentDone
  PROVE  CompactKnows'
<1> USE DEF TypeOK
<1>0. spc = "unlink" /\ files' = files
  BY Zenon DEF RemoveMerged, SegmentDone, list
<1>1. /\ ret \in {"send", "backoff"} /\ 0 < pos /\ pos <= Len(snap) + 1 /\ Aligned(pos)
      /\ \A j \in DOMAIN run : run[j] = seg \/ run[j] \notin NamesOf(files)
  BY <1>0 DEF SpoolInv, CompactKnows
<1>2. CASE RemoveMerged
  <2>1. run # <<>> /\ run' = Tail(run) /\ UNCHANGED <<spc, snap, pos, ret, seg>>
    BY <1>2 DEF RemoveMerged
  <2>2. Range(run') \subseteq Range(run)
    BY <2>1, RangeTail DEF PackOK
  <2>3. \A j \in DOMAIN run' : run'[j] = seg \/ run'[j] \notin NamesOf(files)
    BY <1>1, <2>2 DEF Range
  <2>4. Aligned(pos)'
    BY Zenon, <1>0, <1>1, <2>1 DEF Aligned
  <2> QED BY <1>0, <1>1, <2>1, <2>3, <2>4 DEF CompactKnows
<1>3. CASE SegmentDone
  <2>1. CASE EndCompact
    BY <1>0, <2>1, CompactGivesUp DEF Packing
  <2>2. CASE ~EndCompact
    <3>1. spc' = "collect" /\ run = <<>> /\ UNCHANGED <<snap, pos, run, ret>>
      BY <1>3, <2>2 DEF SegmentDone, Try
    <3>2. pos \in Nat
      BY DEF PackOK
    <3>3. Len(run') = 0 /\ DOMAIN run' = {} /\ pos' - Len(run') = pos
      BY <3>1, <3>2
    <3>4. Aligned(pos - Len(run))'
      BY <3>1, <3>3, <1>0, <1>1, AlignedMoved
    <3>5. RunCollected'
      BY <3>1, <3>3, <3>4, <1>1 DEF RunCollected
    <3> QED BY <1>1, <3>1, <3>5 DEF CompactKnows
  <2> QED BY <2>1, <2>2
<1> QED BY <1>2, <1>3

\* Every step keeps what compact knows about its snapshot, run and segment.
LEMMA CompactKnowsStep ==
  ASSUME TypeOK, SpoolInv, [Next]_vars
  PROVE  CompactKnows'
<1> USE DEF TypeOK
<1>1. CASE WriterNext
  BY <1>1, CompactOther
<1>2. CASE Decay
  BY <1>2, CompactDecay
<1>3. CASE CompactNext
  BY <1>3, CompactCollect, CompactSkip, CompactWrite, CompactSwap, CompactRemove DEF CompactNext
<1>4. CASE TakeHead \/ SendFailed \/ Pressed
  <2>1. files' = files /\ spc \notin Packing
    BY <1>4 DEF TakeHead, SendFailed, Pressed, list, Packing
  <2>2. \/ spc' \in {"wait", "send"}
        \/ \E m \in {2, CompactMin}, back \in {"send", "backoff"} : StartCompact(m, back)
    BY <1>4 DEF TakeHead, SendFailed, Pressed
  <2>3. spc' \in {"wait", "send"} => CompactKnows'
    BY DEF CompactKnows
  <2> QED BY <2>1, <2>2, <2>3, CompactStart
<1>5. CASE \/ Woken \/ SenderExit \/ ReadHead \/ QuarantineFile \/ Deliver \/ DeliverSingle
           \/ Quarantine \/ QuarantineSync \/ RemoveSent \/ Forget \/ Retry
           \/ Open \/ Released \/ Crash \/ LosePower
  <2>1. spc' \notin Packing
    BY Zenon, <1>5 DEF Woken, SenderExit, ReadHead, QuarantineFile, Deliver, DeliverSingle, Quarantine,
       QuarantineSync, RemoveSent, Forget, Retry, Open, NewDiskSpool, Released, Crash, LosePower,
       Forgotten, Try, Packing
  <2> QED BY <2>1 DEF CompactKnows, Packing
<1>6. CASE \/ \E r \in Records : Enqueue(r) \/ Timeout(r)
           \/ Close \/ Cancel \/ Idle \/ UNCHANGED vars
  <2>1. UNCHANGED <<spc, packVars, files, disk, stable>>
    BY Zenon, <1>6 DEF Enqueue, Timeout, Close, Cancel, Idle, vars, sender, list, dirs
  <2>2. SegmentSynced => SegmentSynced'
    BY <2>1 DEF SegmentSynced, packVars
  <2> QED BY <2>1, <2>2, CompactKept DEF Grown
<1> QED BY <1>1, <1>2, <1>3, <1>4, <1>5, <1>6 DEF Next, SenderNext
====
