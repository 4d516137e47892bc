--------------------------- MODULE DiskSpoolSafety ---------------------------
(***************************************************************************)
(* The records accepted by the spool are safe: Secured is preserved, SpoolInv *)
(* is invariant, and with it AcceptedNotLost, NamesAreFresh, RunStaysInList. *)
(***************************************************************************)
EXTENDS DiskSpoolKnows

Sending == {"deliver", "single", "quarantine", "deadsync", "remove"}

\* What the sender knows about its file survives steps that leave the sender
\* alone and keep the records of that file.
LEMMA SendKept ==
  ASSUME TypeOK, SpoolInv, UNCHANGED <<spc, cur, raws, idx>>, received \subseteq received',
         cur \in DOMAIN disk' => cur \in DOMAIN disk /\ disk'[cur].recs = disk[cur].recs
  PROVE  SendKnows'
<1>1. SendKnows
  BY DEF SpoolInv
<1> QED BY <1>1 DEF SendKnows

\* What is delivered or rejected one by one adds up to the whole file.
LEMMA DeliverStep ==
  ASSUME TypeOK, SpoolInv, Deliver \/ DeliverSingle
  PROVE  SendKnows'
<1> USE DEF TypeOK
<1>0. UNCHANGED <<disk, cur, raws>> /\ spc \in {"deliver", "single"}
  BY DEF Deliver, DeliverSingle, dirs
<1>1. cur \in DOMAIN disk => disk[cur].recs = raws
  BY <1>0 DEF SpoolInv, SendKnows
<1>2. Len(raws) \in Nat /\ DOMAIN raws = 1..Len(raws)
  BY LenProperties DEF SenderOK
<1>3. CASE Deliver
  <2>1. spc' = "remove" => Range(raws) \subseteq received'
    BY <1>2, <1>3 DEF Deliver, Delivered, Range
  <2>2. spc' = "quarantine" => Range(raws) \subseteq Poison
    <3>1. spc' = "quarantine" => Len(raws) = 1 /\ raws[1] \in Poison
      BY <1>3 DEF Deliver
    <3>2. Len(raws) = 1 => DOMAIN raws = {1}
      BY <1>2
    <3> QED BY <3>1, <3>2 DEF Range
  <2>3. spc' \in {"remove", "single", "quarantine", "failed"} /\ (spc' = "single" => idx' = 1)
    BY <1>3 DEF Deliver
  <2>4. spc' = "single" => 1..idx' - 1 = {}
    BY <2>3
  <2> QED BY <1>0, <1>1, <2>1, <2>2, <2>3, <2>4 DEF SendKnows
<1>4. CASE DeliverSingle
  <2>1. /\ spc = "single" /\ idx \in 1..Len(raws)
        /\ \A i \in 1..idx - 1 : raws[i] \in received \cup Poison
    BY <1>4 DEF DeliverSingle, SenderOK, SpoolInv, SendKnows
  <2>2. received \subseteq received'
    BY <1>4 DEF DeliverSingle
  <2>3. CASE spc' = "failed"
    BY <2>3 DEF SendKnows
  <2>4. CASE spc' # "failed"
    <3>1. /\ raws[idx] \in received' \cup Poison /\ idx' = idx + 1
          /\ spc' = IF idx = Len(raws) THEN "quarantine" ELSE "single"
      BY <1>4, <2>4 DEF DeliverSingle
    <3>2. \A i \in 1..idx' - 1 : i = idx \/ i \in 1..idx - 1
      BY <2>1, <3>1
    <3>3. \A i \in 1..idx' - 1 : raws[i] \in received' \cup Poison
      BY <2>1, <2>2, <3>1, <3>2
    <3>4. idx = Len(raws) => 1..idx' - 1 = DOMAIN raws
      BY <1>2, <3>1
    <3>5. spc' = "quarantine" => Range(raws) \subseteq received' \cup Poison
      BY <3>1, <3>3, <3>4 DEF Range
    <3> QED BY <1>0, <1>1, <3>1, <3>3, <3>5 DEF SendKnows
  <2> QED BY <2>3, <2>4
<1> QED BY <1>3, <1>4

\* Every step keeps what send knows about its file.
LEMMA SendKnowsStep ==
  ASSUME TypeOK, SpoolInv, [Next]_vars
  PROVE  SendKnows'
<1> USE DEF TypeOK
<1>1. CASE WriterNext
  <2>1. UNCHANGED <<spc, cur, raws, idx, received>>
    BY Zenon, <1>1 DEF WriterNext, WriterTake, Reserve, WriteFile, Publish, WriterExit, sender, sendVars
  <2>2. wpc \in {"write", "publish"} => wname # cur
    BY DEF SpoolInv, NamesBounded, DownTogether, Up, ListOK, InMemory
  <2>3. disk' = disk \/ (wpc = "write" /\ disk' = Put(disk, wname, File(batch)))
    BY <1>1 DEF WriterNext, WriterTake, Reserve, WriteFile, Publish, WriterExit, dirs, Try
  <2>4. cur \in DOMAIN disk' => cur \in DOMAIN disk /\ disk'[cur].recs = disk[cur].recs
    BY <2>2, <2>3 DEF Put
  <2> QED BY <2>1, <2>4, SendKept
<1>2. CASE Decay
  <2>1. UNCHANGED <<spc, cur, raws, idx, received>>
    BY <1>2 DEF Decay, sender, sendVars
  <2>2. PICK n \in DOMAIN disk : disk' = [disk EXCEPT ![n] = Spoil(disk[n])]
    BY Zenon, <1>2 DEF Decay
  <2>3. Spoil(disk[n]).recs = disk[n].recs
    BY <2>2 DEF Spoil, DirsOK, IsDirectory, IsFile
  <2>4. cur \in DOMAIN disk' => cur \in DOMAIN disk /\ disk'[cur].recs = disk[cur].recs
    BY <2>2, <2>3
  <2> QED BY <2>1, <2>4, SendKept
<1>3. CASE Deliver \/ DeliverSingle
  BY <1>3, DeliverStep
<1>4. CASE ReadHead
  BY <1>4 DEF ReadHead, Try, SendKnows, dirs
<1>5. CASE Quarantine \/ QuarantineSync
  <2>1. /\ spc \in {"quarantine", "deadsync"} /\ spc' \in {"deadsync", "remove", "failed"}
        /\ UNCHANGED <<disk, received, cur, raws>>
    BY <1>5 DEF Quarantine, QuarantineSync, Try, sendVars
  <2> QED BY <2>1 DEF SpoolInv, SendKnows
<1>6. CASE RemoveSent
  <2>1. spc' = "failed" \/ (spc' = "forget" /\ disk' = Del(disk, cur) /\ cur' = cur)
    BY <1>6 DEF RemoveSent, Try, sendVars
  <2> QED BY <2>1 DEF SendKnows, Del, Restrict
<1>7. CASE \/ Woken \/ SenderExit \/ QuarantineFile \/ Forget \/ Retry \/ TakeHead \/ SendFailed
           \/ Pressed \/ CompactNext \/ Open \/ Released \/ Crash \/ LosePower
  <2>1. spc' \notin Sending \cup {"forget"}
    <3>1. CASE CompactNext
      BY Zenon, <3>1 DEF CompactNext, CollectFile, SkipFile, EndRun, CollectDone, WriteSegment,
         SyncSegment,
         SwapSegment, RemoveMerged, SegmentDone, EndCompact, Try, SenderOK, Sending
    <3>2. CASE ~CompactNext
      BY Zenon, <1>7, <3>2 DEF Woken, SenderExit, QuarantineFile, Forget, Retry, TakeHead, SendFailed,
         Pressed, StartCompact, Open, NewDiskSpool, Released, Crash, LosePower, Forgotten, Try,
         Sending
    <3> QED BY <3>1, <3>2
  <2> QED BY <2>1 DEF SendKnows, Sending
<1>8. CASE \/ \E r \in Records : Enqueue(r) \/ Timeout(r)
           \/ Close \/ Cancel \/ Idle \/ UNCHANGED vars
  <2>1. UNCHANGED <<spc, cur, raws, idx, disk, received>>
    BY <1>8 DEF Enqueue, Timeout, Close, Cancel, Idle, vars, sender, sendVars, dirs
  <2> QED BY <2>1, SendKept
<1> QED BY <1>1, <1>2, <1>3, <1>4, <1>5, <1>6, <1>7, <1>8 DEF Next, SenderNext

Owed(r) == r \in accepted \ (Poison \cup spoilt) /\ r \notin received
Safe(r) == \E n \in DOMAIN disk : Listed(n) /\ Holds(n, r)

\* It is enough to follow the records that are still owed.
LEMMA SecuredBy ==
  ASSUME \A r : Owed(r)' => Safe(r)'
  PROVE  Secured'
BY DEF Secured, Owed, Safe

\* A record owed after a step that accepts nothing was owed before it.
LEMMA StillOwed ==
  ASSUME SpoolInv, NEW r, Owed(r)', accepted' = accepted, spoilt \subseteq spoilt',
         received \subseteq received'
  PROVE  Owed(r) /\ Safe(r)
<1>1. Owed(r)
  BY DEF Owed
<1> QED BY <1>1 DEF Owed, Safe, SpoolInv, Secured

\* A file that stays on the list and keeps its records keeps them safe.
LEMMA StaysSafe ==
  ASSUME NEW r, NEW n, Listed(n)', Holds(n, r),
         n \in DOMAIN disk' /\ Range(disk[n].recs) \subseteq Range(disk'[n].recs),
         stable' = stable \/ stable' = disk
  PROVE  Safe(r)'
BY DEF Safe, Holds

\* publish makes the new records safe before their callers are answered.
LEMMA SecuredPublish ==
  ASSUME TypeOK, SpoolInv, Publish
  PROVE  Secured'
<1> USE DEF TypeOK
<1>1. /\ wpc = "publish" /\ disk' = disk /\ spc' = spc /\ received' = received
      /\ accepted' = accepted \cup Range(batch) /\ spoilt \subseteq spoilt'
      /\ stable' = stable \/ stable' = disk
      /\ files' = Append(files, [name |-> wname, size |-> SizeOf(wname, Len(batch))])
  BY DEF Publish, sender, Works, env
<1>2. wname \in DOMAIN disk /\ disk[wname].recs = batch
  BY <1>1 DEF SpoolInv, WriterKnows
<1>3. NamesOf(files') = NamesOf(files) \cup {wname}
  <2>1. [name |-> wname, size |-> SizeOf(wname, Len(batch))] \in Entries
    BY EntryType DEF WriterOK
  <2> QED BY <1>1, <2>1, NamesAppend
<1>4. \A n : Listed(n) => Listed(n)'
  BY <1>1, <1>3 DEF Listed, Up
<1> SUFFICES ASSUME NEW r, Owed(r)' PROVE Safe(r)'
  BY SecuredBy
<1>5. CASE r \in Range(batch)
  <2>1. PowerLoss => stable' = disk
    BY <1>1, <1>5 DEF Publish, Owed
  <2>2. PICK w \in DOMAIN disk : w = wname
    BY <1>2
  <2>3. Listed(w)'
    BY <1>3, <2>2 DEF Listed
  <2>4. Holds(w, r)'
    BY <1>1, <1>2, <1>5, <2>1, <2>2 DEF Holds
  <2> QED BY <1>1, <2>3, <2>4 DEF Safe
<1>6. CASE r \notin Range(batch)
  <2>1. Owed(r)
    BY <1>1, <1>6 DEF Owed
  <2>2. PICK n \in DOMAIN disk : Listed(n) /\ Holds(n, r)
    BY <2>1 DEF Owed, SpoolInv, Secured
  <2> QED BY <1>1, <1>4, <2>2, StaysSafe
<1> QED BY <1>5, <1>6

\* If the name of the segment is on the list it is in the run.
LEMMA SegmentListed ==
  ASSUME TypeOK, ListSorted, RunCollected, Len(run) >= 2, seg = SegmentName(run[1]),
         seg \in NamesOf(files)
  PROVE  seg \in Range(run)
<1> USE DEF TypeOK
<1>1. /\ pos \in Nat /\ Len(snap) \in Nat /\ Len(run) \in Nat /\ DOMAIN run = 1..Len(run)
      /\ Len(run) < pos /\ pos <= Len(snap) + 1
  BY LenProperties DEF PackOK, RunCollected
<1>2. PICK d \in 0..Len(snap) : \A k \in (pos - Len(run))..Len(snap) :
        k - d \in DOMAIN files /\ files[k - d].name = snap[k]
  BY DEF RunCollected, Aligned
<1> DEFINE a == pos - Len(run) - d
<1>3. /\ pos - Len(run) \in (pos - Len(run))..Len(snap)
      /\ pos - Len(run) + 1 \in (pos - Len(run))..Len(snap)
      /\ pos - 1 - Len(run) + 1 = pos - Len(run)
      /\ pos - 1 - Len(run) + 2 = pos - Len(run) + 1
      /\ pos - Len(run) + 1 - d = a + 1
      /\ 1 \in DOMAIN run /\ 2 \in DOMAIN run
  BY <1>1
<1>4. run[1] = snap[pos - Len(run)] /\ run[2] = snap[pos - Len(run) + 1]
  BY <1>3 DEF RunCollected
<1>5. /\ a \in DOMAIN files /\ files[a].name = run[1]
      /\ a + 1 \in DOMAIN files /\ files[a + 1].name = run[2]
  BY SMTT(30), <1>2, <1>3, <1>4
<1> HIDE DEF a
<1>6. PICK i \in DOMAIN files : files[i].name = seg
  BY DEF NamesOf
<1>7. DOMAIN files = 1..Len(files) /\ Len(files) \in Nat /\ run[1] \in Names /\ run[2] \in Names
  BY <1>5, FilesType
<1>8. Before(run[1], run[2])
  BY <1>5, <1>7 DEF ListSorted, Sorted
<1>9. CASE i <= a
  <2>1. i = a \/ Before(seg, run[1])
    BY <1>5, <1>6, <1>7, <1>9 DEF ListSorted, Sorted
  <2>2. ~Before(SegmentName(run[1]), run[1])
    BY <1>7 DEF SegmentName, Before, Names
  <2> QED BY <2>1, <2>2, <1>3, <1>5, <1>6 DEF Range
<1>10. CASE i >= a + 1
  <2>1. i = a + 1 \/ Before(run[2], seg)
    BY <1>5, <1>6, <1>7, <1>10 DEF ListSorted, Sorted
  <2>2. ~Before(run[2], SegmentName(run[1]))
    BY <1>7, <1>8 DEF SegmentName, Before, Names
  <2> QED BY <2>1, <2>2, <1>3, <1>5, <1>6 DEF Range
<1>11. i <= a \/ i >= a + 1
  BY <1>5, <1>6, <1>7
<1> QED BY <1>9, <1>10, <1>11

\* No step of a compaction leaves a record without a listed file.
LEMMA SecuredCompact ==
  ASSUME TypeOK, SpoolInv, CompactNext
  PROVE  Secured'
<1> USE DEF TypeOK
<1>1. /\ UNCHANGED <<accepted, received>> /\ spoilt' = spoilt
      /\ Up /\ Up'
  BY Zenon DEF CompactNext, CollectFile, SkipFile, EndRun, CollectDone, WriteSegment, SyncSegment,
     SwapSegment, RemoveMerged, SegmentDone, EndCompact, Try, Works, env, outside, Up,
     SpoolInv, CompactKnows
<1>2. stable' = stable \/ (stable' = disk /\ disk' = disk)
  BY Zenon DEF CompactNext, CollectFile, SkipFile, EndRun, CollectDone, WriteSegment, SyncSegment,
     SwapSegment, RemoveMerged, SegmentDone, Try, dirs
<1> SUFFICES ASSUME NEW r, Owed(r)' PROVE Safe(r)'
  BY SecuredBy
<1>3. PICK n \in DOMAIN disk : n \in NamesOf(files) /\ Holds(n, r)
  BY <1>1, StillOwed DEF Safe, Listed
<1>4. CASE WriteSegment
  <2>1. files' = files /\ stable' = stable /\ (disk' = disk \/ disk' = Put(disk, seg, File(recs)))
    BY <1>4 DEF WriteSegment, Try, list
  <2>2. RunCollected /\ Len(run) >= 2 /\ seg = SegmentName(run[1]) /\ ListSorted
    BY <1>4 DEF WriteSegment, SpoolInv, CompactKnows
  <2>3. n = seg => Range(disk[n].recs) \subseteq Range(recs)
    <3>1. n = seg => n \in Range(run)
      BY <1>3, <2>2, SegmentListed
    <3> QED BY Zenon, <3>1, <2>2 DEF RunCollected, Range
  <2>4. n \in DOMAIN disk' /\ Range(disk[n].recs) \subseteq Range(disk'[n].recs)
    BY <1>3, <2>1, <2>3 DEF Put, File
  <2>5. Listed(n)'
    BY <1>3, <2>1 DEF Listed
  <2> QED BY <1>3, <2>1, <2>4, <2>5, StaysSafe
<1>5. CASE SwapSegment
  <2>1. disk' = disk /\ stable' = stable
    BY <1>5 DEF SwapSegment, dirs
  <2>2. /\ RunCollected /\ Len(run) >= 2 /\ ListSorted /\ SegmentOnDisk /\ SegmentSynced
    BY <1>5 DEF SwapSegment, SpoolInv, CompactKnows
  <2>3. CASE n \in NamesOf(files')
    BY <1>3, <2>1, <2>3, StaysSafe DEF Listed
  <2>4. CASE n \notin NamesOf(files')
    <3>1. PICK at \in DOMAIN files : RunAt(at) /\ files' = Spliced(at)
      BY <1>3, <1>5, <2>4 DEF SwapSegment, list
    <3>2. n \in Range(run) /\ seg \in NamesOf(files')
      BY <1>3, <2>2, <2>4, <3>1, NamesSpliced DEF ListSorted
    <3>3. r \in Range(recs)
      <4>1. PICK j \in DOMAIN run : run[j] = n
        BY <3>2 DEF Range
      <4>2. Range(disk[run[j]].recs) \subseteq Range(recs)
        BY <2>2 DEF RunCollected
      <4> QED BY <1>3, <4>1, <4>2 DEF Holds
    <3>4. Holds(seg, r)
      BY <2>2, <3>3 DEF Holds, SegmentOnDisk, SegmentSynced
    <3> QED BY <2>1, <3>2, <3>4 DEF Safe, Holds, Listed
  <2> QED BY <2>3, <2>4
<1>6. CASE RemoveMerged
  <2>1. /\ files' = files /\ run # <<>> /\ stable' = stable
        /\ disk' = disk \/ (Head(run) # seg /\ disk' = Del(disk, Head(run)))
    BY <1>6 DEF RemoveMerged, Try, list
  <2>2. Head(run) = run[1] /\ 1 \in DOMAIN run
    BY <2>1, RangeTail, EmptySeq, LenProperties DEF PackOK
  <2>3. Head(run) # seg => Head(run) \notin NamesOf(files)
    BY <1>6, <2>2 DEF RemoveMerged, SpoolInv, CompactKnows
  <2>4. n \in DOMAIN disk' /\ disk'[n] = disk[n]
    BY <1>3, <2>1, <2>3 DEF Del, Restrict
  <2> QED BY <1>3, <2>1, <2>4, StaysSafe DEF Listed
<1>7. CASE ~(WriteSegment \/ SwapSegment \/ RemoveMerged)
  <2>1. files' = files /\ disk' = disk
    BY Zenon, <1>7 DEF CompactNext, CollectFile, SkipFile, EndRun, CollectDone, SyncSegment,
       SegmentDone, dirs, list
  <2> QED BY <1>2, <1>3, <2>1, StaysSafe DEF Listed
<1> QED BY <1>4, <1>5, <1>6, <1>7

\* send drops a file only when the receiver, or dead/, has its records.
LEMMA SecuredSend ==
  ASSUME TypeOK, SpoolInv, SenderNext, ~CompactNext
  PROVE  Secured'
<1> USE DEF TypeOK
<1>1. accepted' = accepted /\ received \subseteq received' /\ spoilt' = spoilt /\ Up /\ Up'
  BY Zenon DEF SenderNext, TakeHead, Woken, SenderExit, ReadHead, QuarantineFile, Deliver, Delivered,
     DeliverSingle, Outage, Quarantine, QuarantineSync, RemoveSent, Forget, SendFailed, Retry,
     Pressed, StartCompact, Try, Works, env, outside, Up
<1> SUFFICES ASSUME NEW r, Owed(r)' PROVE Safe(r)'
  BY SecuredBy
<1>2. PICK n \in DOMAIN disk : n \in NamesOf(files) /\ Holds(n, r)
  BY <1>1, StillOwed DEF Safe, Listed
<1>3. r \notin received' /\ r \notin Poison /\ r \notin spoilt
  BY <1>1 DEF Owed
<1>4. ASSUME dropHead(cur), n # cur PROVE n \in NamesOf(files')
  BY Zenon, <1>2, <1>4, NamesTail DEF dropHead, list
<1>5. CASE RemoveSent
  <2>1. files' = files /\ stable' = stable /\ (disk' = disk \/ disk' = Del(disk, cur))
    BY <1>5 DEF RemoveSent, Try, list
  <2>2. n # cur
    <3>1. cur \in DOMAIN disk => Range(disk[cur].recs) \subseteq received \cup Poison
      BY <1>5 DEF RemoveSent, SpoolInv, SendKnows
    <3> QED BY <1>1, <1>2, <1>3, <3>1 DEF Holds
  <2>3. n \in DOMAIN disk' /\ disk'[n] = disk[n]
    BY <1>2, <2>1, <2>2 DEF Del, Restrict
  <2> QED BY <1>2, <2>1, <2>3, StaysSafe DEF Listed
<1>6. CASE Forget
  <2>1. disk' = disk /\ (stable' = stable \/ stable' = disk) /\ dropHead(cur)
    BY <1>6 DEF Forget, Try
  <2>2. n # cur
    BY <1>2, <1>6 DEF Forget, SpoolInv, SendKnows
  <2>3. Listed(n)'
    BY <2>1, <2>2, <1>4 DEF Listed
  <2> QED BY <1>2, <2>1, <2>3, StaysSafe
<1>7. CASE QuarantineFile
  <2>1. n # cur
    BY <1>2, <1>3, <1>7 DEF QuarantineFile, SpoolInv, UnreadableIsSpoilt, Holds
  <2>2. \/ disk' = Del(disk, cur) /\ stable' = Del(stable, cur)
        \/ disk' = disk /\ stable' = stable
    BY <1>7 DEF QuarantineFile, dirs, Try
  <2>3. files' = files \/ dropHead(cur)
    BY <1>7 DEF QuarantineFile, list, Try
  <2>4. Holds(n, r)' /\ n \in DOMAIN disk'
    BY <1>2, <2>1, <2>2 DEF Holds, Del, Restrict
  <2>5. Listed(n)'
    BY <1>2, <1>4, <2>1, <2>3 DEF Listed
  <2> QED BY <2>4, <2>5 DEF Safe
<1>8. CASE ~(RemoveSent \/ Forget \/ QuarantineFile)
  <2>1. UNCHANGED <<files, disk, stable>>
    BY Zenon, <1>8 DEF SenderNext, TakeHead, Woken, SenderExit, ReadHead, Deliver, DeliverSingle,
       Quarantine, QuarantineSync, SendFailed, Retry, Pressed, list, dirs
  <2> QED BY <1>2, <2>1, StaysSafe DEF Listed
<1> QED BY <1>5, <1>6, <1>7, <1>8

\* Every step keeps the accepted records safe.
LEMMA SecuredStep ==
  ASSUME TypeOK, SpoolInv, [Next]_vars
  PROVE  Secured'
<1> USE DEF TypeOK
<1>1. CASE Publish
  BY <1>1, SecuredPublish
<1>2. CASE CompactNext
  BY <1>2, SecuredCompact
<1>3. CASE SenderNext /\ ~CompactNext
  BY <1>3, SecuredSend
<1>4. CASE ~Publish /\ ~SenderNext
  <2>1. UNCHANGED <<accepted, received>> /\ spoilt \subseteq spoilt'
    BY Zenon, <1>4 DEF Next, WriterNext, WriterTake, Reserve, WriteFile, WriterExit, Open, NewDiskSpool,
       Close, Cancel, Released, Crash, LosePower, Stop, Decay, Idle, Enqueue, Timeout, Try, Works,
       env, outside, vars
  <2> SUFFICES ASSUME NEW r, Owed(r)' PROVE Safe(r)'
    BY SecuredBy
  <2>2. PICK n \in DOMAIN disk : Listed(n) /\ Holds(n, r)
    BY <2>1, StillOwed DEF Safe
  <2>3. CASE WriteFile
    <3>1. /\ wpc = "write" /\ UNCHANGED <<files, stable, spc>>
          /\ disk' = disk \/ disk' = Put(disk, wname, File(batch))
      BY <2>3 DEF WriteFile, Try, list, sender
    <3>2. n # wname
      <4>1. Up /\ n \in OnDisk
        BY Zenon, <2>2, <3>1 DEF SpoolInv, DownTogether, Up, OnDisk
      <4>2. n[1] < sequence /\ wname = <<sequence, 0>>
        BY Zenon, <4>1, <3>1 DEF SpoolInv, NamesBounded
      <4>3. sequence \in Nat
        BY Zenon DEF ListOK
      <4> QED BY SMT, <4>2, <4>3
    <3>3. n \in DOMAIN disk' /\ disk'[n] = disk[n]
      BY <2>2, <3>1, <3>2 DEF Put
    <3> QED BY <2>2, <3>1, <3>3, StaysSafe DEF Listed, Up
  <2>4. CASE Decay
    <3>1. PICK m \in DOMAIN disk \cap DOMAIN stable :
            /\ disk' = [disk EXCEPT ![m] = Spoil(disk[m])]
            /\ stable' = [stable EXCEPT ![m] = Spoil(stable[m])]
      BY Zenon, <2>4 DEF Decay
    <3>2. Spoil(disk[m]).recs = disk[m].recs /\ Spoil(stable[m]).recs = stable[m].recs
      BY <3>1 DEF Spoil, DirsOK, IsDirectory, IsFile
    <3>3. n \in DOMAIN disk' /\ Holds(n, r)'
      BY <2>2, <3>1, <3>2 DEF Holds
    <3>4. Listed(n)'
      BY <2>2, <2>4 DEF Decay, Listed, Up, sender, list
    <3> QED BY <3>3, <3>4 DEF Safe
  <2>5. CASE Open
    <3>1. UNCHANGED <<disk, stable>> /\ NamesOf(files') = DOMAIN disk
      BY <2>5, OpenScans DEF Open, NewDiskSpool, IsScan, dirs
    <3> QED BY <2>2, <3>1, StaysSafe DEF Listed
  <2>6. CASE Crash \/ Released
    <3>1. UNCHANGED <<disk, stable>> /\ spc' = "down"
      BY <2>6 DEF Crash, Released, Forgotten, dirs
    <3> QED BY <2>2, <3>1, StaysSafe DEF Listed, Up
  <2>7. CASE LosePower
    <3>1. PICK keep \in SUBSET (DOMAIN disk \cup DOMAIN stable) :
            disk' = Survivors(disk, stable, keep)
      BY <2>7 DEF LosePower
    <3>2. PowerLoss /\ stable' = disk' /\ spc' = "down"
      BY Zenon, <2>7 DEF LosePower, Forgotten
    <3>3. n \in DOMAIN disk' /\ r \in Range(disk'[n].recs)
      BY <2>2, <3>1, <3>2 DEF Survivors, Holds
    <3> QED BY <3>2, <3>3 DEF Safe, Holds, Listed, Up
  <2>8. CASE \/ WriterTake \/ Reserve \/ WriterExit \/ Close \/ Cancel \/ Idle \/ UNCHANGED vars
             \/ \E q \in Records : Enqueue(q) \/ Timeout(q)
    <3>1. UNCHANGED <<files, disk, stable, spc>>
      BY Zenon, <2>8 DEF WriterTake, Reserve, WriterExit, Close, Cancel, Idle, vars, Enqueue, Timeout,
         list, dirs, sender
    <3> QED BY <2>2, <3>1, StaysSafe DEF Listed, Up
  <2> QED BY <1>4, <2>3, <2>4, <2>5, <2>6, <2>7, <2>8 DEF Next, WriterNext
<1> QED BY <1>1, <1>2, <1>3, <1>4 DEF SenderNext

\* The empty spool satisfies the invariant.
LEMMA SpoolInit == Init => SpoolInv
<1> SUFFICES ASSUME Init PROVE SpoolInv
  OBVIOUS
<1>1. files = <<>> /\ DOMAIN files = {} /\ DOMAIN disk = {} /\ DOMAIN stable = {}
  BY DEF Init
<1>2. DownTogether /\ ForgottenWhenDown
  BY DEF Init, DownTogether, ForgottenWhenDown
<1>3. ListSorted /\ UnreadableIsSpoilt
  BY Zenon, <1>1 DEF ListSorted, Sorted, UnreadableIsSpoilt
<1>4. NamesBounded /\ WriterKnows /\ CompactKnows /\ SendKnows /\ Secured
  BY Zenon DEF Init, NamesBounded, Up, WriterKnows, CompactKnows, SendKnows, Secured
<1> QED BY <1>2, <1>3, <1>4 DEF SpoolInv

\* Every step of every goroutine, crash and power loss preserves the invariant.
LEMMA SpoolStep ==
  ASSUME TypeOK, SpoolInv, [Next]_vars
  PROVE  SpoolInv'
BY DownStep, SortedStep, NamesStep, WriterKnowsStep, UnreadableStep, CompactKnowsStep,
   SendKnowsStep, SecuredStep DEF SpoolInv

\* The conjunction of what the goroutines know is invariant: Init establishes it
\* and every action preserves it, for any number of records, any file sizes and
\* bounds, with and without power loss.
THEOREM SpoolCorrect == Spec => []SpoolInv
BY TypeCorrect, SpoolInit, SpoolStep, PTL DEF Spec

\* A record for which persist has returned nil is received or in a file of the
\* spool, whatever crashes, failed file operations or power losses come between
\* the steps of persist, send, compact and quarantine (AcceptedNotLost).
THEOREM NothingLost == Spec => []AcceptedNotLost
<1>1. SpoolInv => AcceptedNotLost
  BY DEF SpoolInv, Secured, Holds, AcceptedNotLost, Content
<1> QED BY SpoolCorrect, <1>1, PTL

\* The sequence number persist takes is used by no file of the spool or of
\* dead/, also after a restart with the clock behind (NamesAreFresh).
THEOREM NamesFresh == Spec => []NamesAreFresh
<1>1. ASSUME TypeOK, SpoolInv PROVE NamesAreFresh
  <2> SUFFICES ASSUME wpc = "write", NEW n \in OnDisk PROVE n[1] # wname[1]
    BY DEF NamesAreFresh, OnDisk
  <2>1. n[1] < sequence /\ wname = <<sequence, 0>> /\ sequence \in Nat
    BY <1>1 DEF TypeOK, ListOK, SpoolInv, NamesBounded, DownTogether, Up
  <2> QED BY <2>1
<1> QED BY TypeCorrect, SpoolCorrect, <1>1, PTL

\* While compaction is at work nothing but its own swap disturbs the stretch of
\* the list it has collected, so the swap always finds it (RunStaysInList): the
\* early return of writeSegment for a list that has changed is never taken.
THEOREM RunKept == Spec => []RunStaysInList
<1>1. ASSUME TypeOK, SpoolInv PROVE RunStaysInList
  <2> SUFFICES ASSUME spc = "swap" PROVE \E at \in DOMAIN files : RunAt(at)
    BY DEF RunStaysInList
  <2>1. RunCollected /\ Len(run) >= 2
    BY <1>1 DEF SpoolInv, CompactKnows
  <2>2. /\ pos \in Nat /\ Len(snap) \in Nat /\ Len(run) \in Nat /\ DOMAIN run = 1..Len(run)
        /\ Len(run) < pos /\ pos <= Len(snap) + 1
    BY <1>1, <2>1, LenProperties DEF TypeOK, PackOK, RunCollected
  <2>3. PICK d \in 0..Len(snap) : \A k \in (pos - Len(run))..Len(snap) :
          k - d \in DOMAIN files /\ files[k - d].name = snap[k]
    BY <2>1 DEF RunCollected, Aligned
  <2> DEFINE at == pos - Len(run) - d
  <2>4. ASSUME NEW i \in DOMAIN run
        PROVE  at + i - 1 \in DOMAIN files /\ files[at + i - 1].name = run[i]
    <3>1. run[i] = snap[pos - 1 - Len(run) + i]
      BY <2>1 DEF RunCollected
    <3>2. /\ pos - 1 - Len(run) + i \in (pos - Len(run))..Len(snap)
          /\ pos - 1 - Len(run) + i - d = at + i - 1
      BY <2>2
    <3> DEFINE k == pos - 1 - Len(run) + i
    <3>3. k - d \in DOMAIN files /\ files[k - d].name = snap[k]
      BY <2>3, <3>2
    <3>4. k - d = at + i - 1
      BY <2>2
    <3>5. run[i] = snap[k]
      BY <3>1
    <3> HIDE DEF k, at
    <3> QED BY <3>3, <3>4, <3>5
  <2>5. at + Len(run) - 1 \in DOMAIN files /\ at \in DOMAIN files
    <3>1. 1 \in DOMAIN run /\ Len(run) \in DOMAIN run /\ at + 1 - 1 = at
      BY <2>1, <2>2
    <3> HIDE DEF at
    <3> QED BY <2>4, <3>1
  <2> HIDE DEF at
  <2>6. DOMAIN files = 1..Len(files)
    BY <1>1, FilesType DEF TypeOK
  <2>7. at + Len(run) - 1 <= Len(files)
    BY <2>5, <2>6
  <2>8. RunAt(at)
    BY <2>4, <2>7 DEF RunAt
  <2> QED BY <2>5, <2>8
<1> QED BY TypeCorrect, SpoolCorrect, <1>1, PTL
====
