---------------------------- MODULE DiskSpoolInv ----------------------------
(***************************************************************************)
(* The inductive invariant behind AcceptedNotLost: what each goroutine of    *)
(* the spool knows about the directories between two of its steps.          *)
(***************************************************************************)
EXTENDS DiskSpool

Up == spc # "down"

\* Both goroutines start with the process and end with it.
DownTogether == spc = "down" <=> wpc = "down"

\* A new process starts with nothing in its sender's hands.
ForgottenWhenDown == ~Up => snap = <<>> /\ run = <<>> /\ cur = NoFile /\ seg = NoFile

Listed(n) == Up => n \in NamesOf(files)

\* Record r is in file n, and stays there if the power is lost now.
Holds(n, r) ==
  /\ n \in DOMAIN disk /\ r \in Range(disk[n].recs)
  /\ PowerLoss => n \in DOMAIN stable /\ r \in Range(stable[n].recs)

\* Every record that is owed to the receiver is in a file the sender will come
\* to; a copy in a file that is not on the list does not count, a later segment
\* may replace it.
Secured ==
  \A r \in accepted \ (Poison \cup spoilt) :
    r \in received \/ \E n \in DOMAIN disk : Listed(n) /\ Holds(n, r)

\* Names in use are not ahead of the sequence, and behind it while a new file
\* is being written.
OnDisk == DOMAIN disk \cup DOMAIN dead
InMemory == NamesOf(files) \cup Range(snap) \cup Range(run) \cup {cur, seg}

NamesBounded ==
  Up =>
    /\ \A n \in OnDisk : n[1] <= sequence /\ (wpc = "write" => n[1] < sequence)
    /\ \A n \in InMemory :
         n[1] <= sequence /\ (wpc \in {"write", "publish"} => n[1] < sequence)
    /\ wpc \in {"write", "publish"} => wname = <<sequence, 0>>

WriterKnows == wpc = "publish" => wname \in DOMAIN disk /\ disk[wname].recs = batch

UnreadableIsSpoilt ==
  /\ \A n \in DOMAIN disk : ~disk[n].ok => Range(disk[n].recs) \subseteq spoilt
  /\ \A n \in DOMAIN stable : ~stable[n].ok => Range(stable[n].recs) \subseteq spoilt

\* The snapshot from position i on still stands in the list, d places further
\* to the front.
Aligned(i) ==
  \E d \in 0..Len(snap) : \A k \in i..Len(snap) :
    k - d \in DOMAIN files /\ files[k - d].name = snap[k]

RunCollected ==
  /\ Len(run) < pos /\ pos <= Len(snap) + 1
  /\ Aligned(pos - Len(run))
  /\ \A j \in DOMAIN run :
       /\ run[j] = snap[pos - 1 - Len(run) + j]
       /\ run[j] \in DOMAIN disk
       /\ Range(disk[run[j]].recs) \subseteq Range(recs)

SegmentOnDisk == seg \in DOMAIN disk /\ disk[seg].recs = recs
SegmentSynced == PowerLoss => seg \in DOMAIN stable /\ stable[seg].recs = recs

CompactKnows ==
  /\ spc \in {"collect", "segment", "segsync", "swap", "unlink"} => ret \in {"send", "backoff"}
  /\ spc \in {"collect", "segment", "segsync", "swap"} => RunCollected
  /\ spc \in {"segment", "segsync", "swap"} => Len(run) >= 2 /\ seg = SegmentName(run[1])
  /\ spc \in {"segsync", "swap"} => SegmentOnDisk
  /\ spc = "swap" => SegmentSynced
  /\ spc = "unlink" =>
       /\ 0 < pos /\ pos <= Len(snap) + 1
       /\ Aligned(pos)
       /\ \A j \in DOMAIN run : run[j] = seg \/ run[j] \notin NamesOf(files)

SendKnows ==
  /\ spc \in {"deliver", "single", "quarantine", "deadsync", "remove"} =>
       (cur \in DOMAIN disk => disk[cur].recs = raws)
  /\ spc = "single" => \A i \in 1..idx - 1 : raws[i] \in received \cup Poison
  /\ spc \in {"quarantine", "deadsync", "remove"} => Range(raws) \subseteq received \cup Poison
  /\ spc = "forget" => cur \notin DOMAIN disk

\* The records that persist has accepted are safe at every step of every
\* goroutine: the conjunction that each action preserves.
SpoolInv ==
  /\ DownTogether /\ ForgottenWhenDown /\ ListSorted /\ NamesBounded
  /\ WriterKnows /\ UnreadableIsSpoilt /\ CompactKnows /\ SendKnows
  /\ Secured
====
