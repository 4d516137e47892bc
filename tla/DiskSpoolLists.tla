--------------------------- MODULE DiskSpoolLists ----------------------------
(***************************************************************************)
(* The list of pending files: what appending, dropping the head and the    *)
(* swap of a run for its segment do to its entries, order and names.       *)
(***************************************************************************)
EXTENDS DiskSpoolTypes

\* The list with one more entry at its end.
LEMMA AppendList ==
  ASSUME ListOK, NEW e \in Entries
  PROVE  LET l == Append(files, e)
         IN  /\ l \in Seq(Entries)
             /\ Len(l) = Len(files) + 1
             /\ DOMAIN l = 1..Len(l)
             /\ \A i \in DOMAIN files : l[i] = files[i]
             /\ l[Len(files) + 1] = e
BY AppendProperties, FilesType, LenProperties DEF ListOK

\* The list without its head.
LEMMA TailList ==
  ASSUME ListOK, files # <<>>
  PROVE  LET l == Tail(files)
         IN  /\ l \in Seq(Entries)
             /\ Len(l) = Len(files) - 1
             /\ DOMAIN l = 1..Len(l)
             /\ \A i \in DOMAIN l : l[i] = files[i + 1]
BY HeadTailProperties, FilesType, LenProperties DEF ListOK

\* Two lists, one after the other.
LEMMA ConcatList ==
  ASSUME NEW c \in Seq(Entries), NEW b \in Seq(Entries)
  PROVE  /\ c \o b \in Seq(Entries) /\ Len(c \o b) = Len(c) + Len(b)
         /\ DOMAIN (c \o b) = 1..Len(c \o b)
         /\ \A i \in 1..Len(c) + Len(b) :
              (c \o b)[i] = IF i <= Len(c) THEN c[i] ELSE b[i - Len(c)]
BY ConcatProperties, LenProperties

\* The list after the swap of writeSegment, place by place.
LEMMA SplicedList ==
  ASSUME ListOK, PackOK, NEW at \in 1..Len(files), at + Len(run) - 1 <= Len(files), run # <<>>
  PROVE  LET l == Spliced(at)
         IN  /\ l \in Seq(Entries)
             /\ Len(l) = Len(files) - Len(run) + 1
             /\ DOMAIN l = 1..Len(l)
             /\ \A i \in DOMAIN l :
                  /\ i < at => l[i] = files[i]
                  /\ i = at => l[i].name = seg
                  /\ i > at => l[i] = files[i + Len(run) - 1]
<1> DEFINE e == [name |-> seg, size |-> SizeOf(seg, Len(recs))]
           a == SubSeq(files, 1, at - 1)
           b == SubSeq(files, at + Len(run), Len(files))
           c == Append(a, e)
<1>1. /\ at \in 1..Len(files) /\ Len(files) \in Nat /\ Len(run) \in Nat /\ Len(run) > 0
      /\ \A i \in 1..Len(files) : files[i] \in Entries
  BY FilesType, NotEmpty DEF PackOK
<1>0. /\ at \in Int /\ at + Len(run) \in Int
      /\ \A i \in at + Len(run)..Len(files) : files[i] \in Entries
  BY <1>1
<1>2. e \in Entries /\ e.name = seg
  BY EntryType DEF PackOK
<1>3. a \in Seq(Entries) /\ Len(a) = at - 1
  BY <1>1, SubSeqProperties
<1>4. \A i \in 1..at - 1 : a[i] = files[i]
  BY <1>1, SubSeqProperties
<1>5. b \in Seq(Entries) /\ Len(b) = Len(files) - Len(run) - at + 1
  BY <1>1, <1>0, SubSeqProperties
<1>6. \A i \in 1..Len(files) - Len(run) - at + 1 : b[i] = files[at + Len(run) + i - 1]
  BY <1>1, <1>0, SubSeqProperties
<1> HIDE DEF a, b, e
<1>7. c \in Seq(Entries) /\ Len(c) = at
  BY <1>1, <1>2, <1>3, AppendProperties
<1>8. \A i \in 1..at : c[i] = IF i < at THEN files[i] ELSE e
  BY <1>1, <1>2, <1>3, <1>4, AppendProperties
<1>9. c = a \o <<e>>
  BY <1>2, <1>3, AppendIsConcat
<1> HIDE DEF c
<1>10. /\ c \o b \in Seq(Entries) /\ Len(c \o b) = Len(c) + Len(b)
       /\ DOMAIN (c \o b) = 1..Len(c \o b)
       /\ \A i \in 1..Len(c) + Len(b) : (c \o b)[i] = IF i <= Len(c) THEN c[i] ELSE b[i - Len(c)]
  BY Zenon, <1>5, <1>7, ConcatList
<1>11. Spliced(at) = c \o b
  BY <1>9 DEF Spliced, a, b, e
<1>12. Len(c) + Len(b) = Len(files) - Len(run) + 1
  BY <1>1, <1>5, <1>7
<1>13. ASSUME NEW i \in 1..Len(files) - Len(run) + 1
       PROVE  /\ i < at => (c \o b)[i] = files[i]
              /\ i = at => (c \o b)[i].name = seg
              /\ i > at => (c \o b)[i] = files[i + Len(run) - 1]
  <2>1. CASE i <= at
    <3>1. (c \o b)[i] = c[i] /\ i \in 1..at
      BY <2>1, <1>1, <1>7, <1>10, <1>12
    <3> QED BY <3>1, <1>1, <1>2, <1>8
  <2>2. CASE i > at
    <3>1. (c \o b)[i] = b[i - at]
      BY <2>2, <1>1, <1>7, <1>10, <1>12
    <3>2. i - at \in 1..Len(files) - Len(run) - at + 1
      BY <2>2, <1>1
    <3>3. b[i - at] = files[at + Len(run) + (i - at) - 1]
      BY <3>2, <1>6
    <3>4. at + Len(run) + (i - at) - 1 = i + Len(run) - 1
      BY <1>1
    <3> QED BY <2>2, <3>1, <3>3, <3>4
  <2>3. i <= at \/ i > at
    BY <1>1
  <2> QED BY Zenon, <2>1, <2>2, <2>3
<1> QED BY Zenon, <1>10, <1>11, <1>12, <1>13

\* The run is a stretch of the list: at its place stand run[1], run[2], ...
LEMMA RunInList ==
  ASSUME ListOK, PackOK, NEW at \in DOMAIN files, RunAt(at), Len(run) >= 2
  PROVE  /\ at \in 1..Len(files) /\ at + 1 \in 1..Len(files) /\ run # <<>>
         /\ at + Len(run) - 1 <= Len(files) /\ Len(run) \in Nat /\ Len(files) \in Nat
         /\ files[at].name = run[1] /\ files[at + 1].name = run[2]
         /\ files[at].name \in Names /\ files[at + 1].name \in Names
<1>1. /\ at \in 1..Len(files) /\ Len(files) \in Nat
      /\ \A i \in 1..Len(files) : files[i].name \in Names
  BY FilesType
<1>2. Len(run) \in Nat /\ DOMAIN run = 1..Len(run) /\ run # <<>>
  BY LenProperties, EmptySeq DEF PackOK
<1>3. 1 \in DOMAIN run /\ 2 \in DOMAIN run
  BY <1>2
<1>4. at + 1 \in 1..Len(files)
  BY <1>1, <1>2 DEF RunAt
<1>5. files[at + 1 - 1].name = run[1] /\ files[at + 2 - 1].name = run[2]
  BY Zenon, <1>3 DEF RunAt
<1>6. at + 1 - 1 = at /\ at + 2 - 1 = at + 1
  BY <1>1
<1> QED BY <1>1, <1>2, <1>4, <1>5, <1>6 DEF RunAt

\* Nothing can stand between NNN.json and NNN.json.gz, so a segment fits where
\* its run of two or more files was.
LEMMA SegmentPlace ==
  ASSUME NEW first \in Names, NEW second \in Names, Before(first, second)
  PROVE  /\ SegmentName(first) \in Names
         /\ \A n \in Names : Before(n, first) => Before(n, SegmentName(first))
         /\ \A n \in Names : Before(second, n) => Before(SegmentName(first), n)
         /\ SegmentName(first) \in {first, second} \/ Before(SegmentName(first), second)
BY DEF Names, SegmentName, Before

\* The swap keeps the list in name order.
LEMMA SplicedSorted ==
  ASSUME ListOK, PackOK, Sorted(files), Len(run) >= 2, seg = SegmentName(run[1]),
         NEW at \in DOMAIN files, RunAt(at)
  PROVE  Sorted(Spliced(at))
<1> DEFINE l == Spliced(at)
<1>1. /\ at \in 1..Len(files) /\ at + 1 \in 1..Len(files) /\ run # <<>>
      /\ at + Len(run) - 1 <= Len(files) /\ Len(run) \in Nat /\ Len(files) \in Nat
  BY RunInList
<1>2. /\ DOMAIN l = 1..Len(files) - Len(run) + 1
      /\ \A i \in 1..Len(files) - Len(run) + 1 :
           /\ i < at => l[i] = files[i]
           /\ i = at => l[i].name = seg
           /\ i > at => l[i] = files[i + Len(run) - 1]
  BY Zenon, <1>1, SplicedList
<1>3. \A i, j \in 1..Len(files) : i < j => Before(files[i].name, files[j].name)
  BY FilesType DEF Sorted
<1>4. \A i \in 1..Len(files) : files[i].name \in Names
  BY FilesType
<1>5. /\ \A n \in Names : Before(n, files[at].name) => Before(n, seg)
      /\ \A n \in Names : Before(files[at + 1].name, n) => Before(seg, n)
  <2>1. Before(files[at].name, files[at + 1].name)
    BY <1>1, <1>3
  <2> QED BY <2>1, <1>1, <1>4, RunInList, SegmentPlace
<1> HIDE DEF l
<1> SUFFICES ASSUME NEW i \in 1..Len(files) - Len(run) + 1,
                    NEW j \in 1..Len(files) - Len(run) + 1, i < j
             PROVE  Before(l[i].name, l[j].name)
  BY <1>2 DEF Sorted, l
<1>6. CASE j < at
  <2>1. i < at /\ i \in 1..Len(files) /\ j \in 1..Len(files)
    BY SMTT(30), <1>1, <1>6
  <2>2. l[i] = files[i] /\ l[j] = files[j]
    BY Zenon, <2>1, <1>2, <1>6
  <2> QED BY <2>1, <2>2, <1>3
<1>7. CASE j = at
  <2>1. l[i].name = files[i].name /\ l[j].name = seg /\ i \in 1..Len(files) /\ i < at
    BY SMTT(30), <1>1, <1>2, <1>7
  <2> QED BY Zenon, <2>1, <1>1, <1>3, <1>4, <1>5
<1>8. CASE j > at
  <2> DEFINE k == j + Len(run) - 1
  <2>1. l[j] = files[k] /\ k \in 1..Len(files) /\ k > at + 1 /\ k > i + 1
    BY SMTT(30), <1>1, <1>2, <1>8
  <2>2. CASE i < at
    <3>1. l[i] = files[i]
      BY Zenon, <2>2, <1>2
    <3>2. i \in 1..Len(files) /\ i < k
      BY SMTT(30), <2>1, <2>2, <1>1
    <3> QED BY Zenon, <3>1, <3>2, <2>1, <1>3
  <2>3. CASE i = at
    <3>1. Before(files[at + 1].name, files[k].name)
      BY Zenon, <2>1, <1>1, <1>3
    <3> QED BY Zenon, <3>1, <2>1, <2>3, <1>1, <1>2, <1>4, <1>5
  <2>4. CASE i > at
    <3>1. l[i] = files[i + Len(run) - 1] /\ i + Len(run) - 1 \in 1..Len(files)
      BY SMTT(30), <2>4, <1>1, <1>2
    <3>2. i + Len(run) - 1 < k
      BY SMTT(30), <1>1
    <3> QED BY Zenon, <3>1, <3>2, <2>1, <1>3
  <2>5. i < at \/ i = at \/ i > at
    BY <1>1
  <2> QED BY <2>2, <2>3, <2>4, <2>5
<1>9. j < at \/ j = at \/ j > at
  BY <1>1
<1> QED BY <1>6, <1>7, <1>8, <1>9

\* The elements of a sequence with one more at its end.
LEMMA RangeAppend ==
  ASSUME NEW S, NEW s \in Seq(S), NEW e \in S
  PROVE  Range(Append(s, e)) = Range(s) \cup {e}
<1>1. /\ Len(s) \in Nat /\ DOMAIN s = 1..Len(s)
      /\ DOMAIN Append(s, e) = 1..Len(s) + 1
      /\ \A i \in 1..Len(s) : Append(s, e)[i] = s[i]
      /\ Append(s, e)[Len(s) + 1] = e
  BY AppendProperties, LenProperties
<1>2. \A i \in 1..Len(s) + 1 : i \in 1..Len(s) \/ i = Len(s) + 1
  BY <1>1
<1>3. 1..Len(s) \subseteq 1..Len(s) + 1 /\ Len(s) + 1 \in 1..Len(s) + 1
  BY <1>1
<1> QED BY <1>1, <1>2, <1>3 DEF Range

\* The elements of a sequence are its head and those of its tail.
LEMMA RangeTail ==
  ASSUME NEW S, NEW s \in Seq(S), s # <<>>
  PROVE  Range(s) = {s[1]} \cup Range(Tail(s)) /\ Head(s) = s[1]
<1>1. /\ Len(s) \in Nat \ {0} /\ DOMAIN s = 1..Len(s)
      /\ DOMAIN Tail(s) = 1..Len(s) - 1
      /\ \A i \in 1..Len(s) - 1 : Tail(s)[i] = s[i + 1]
  BY HeadTailProperties, LenProperties, EmptySeq
<1>2. \A i \in 1..Len(s) : i = 1 \/ (i - 1 \in 1..Len(s) - 1 /\ (i - 1) + 1 = i)
  BY <1>1
<1>3. \A i \in 1..Len(s) - 1 : i + 1 \in 1..Len(s)
  BY <1>1
<1>4. 1 \in 1..Len(s)
  BY <1>1
<1>5. \A i \in 1..Len(s) : i = 1 \/ s[i] = Tail(s)[i - 1]
  BY <1>1, <1>2
<1>6. Range(s) \subseteq {s[1]} \cup Range(Tail(s))
  <2> SUFFICES ASSUME NEW i \in 1..Len(s)
               PROVE  s[i] \in {s[1]} \cup Range(Tail(s))
    BY <1>1 DEF Range
  <2> QED BY Zenon, <1>1, <1>2, <1>5 DEF Range
<1>7. {s[1]} \cup Range(Tail(s)) \subseteq Range(s)
  BY <1>1, <1>3, <1>4 DEF Range
<1> QED BY <1>6, <1>7

\* The names on a list with one more entry.
LEMMA NamesAppend ==
  ASSUME ListOK, NEW e \in Entries
  PROVE  NamesOf(Append(files, e)) = NamesOf(files) \cup {e.name}
<1>1. /\ Len(files) \in Nat /\ DOMAIN files = 1..Len(files)
      /\ DOMAIN Append(files, e) = 1..Len(files) + 1
      /\ \A i \in 1..Len(files) : Append(files, e)[i] = files[i]
      /\ Append(files, e)[Len(files) + 1] = e
  BY AppendList, FilesType
<1>2. \A i \in 1..Len(files) + 1 : i \in 1..Len(files) \/ i = Len(files) + 1
  BY <1>1
<1>3. 1..Len(files) \subseteq 1..Len(files) + 1 /\ Len(files) + 1 \in 1..Len(files) + 1
  BY <1>1
<1> QED BY <1>1, <1>2, <1>3 DEF NamesOf

\* The names on a list are that of its head and those behind it.
LEMMA NamesTail ==
  ASSUME ListOK, files # <<>>
  PROVE  NamesOf(files) = {files[1].name} \cup NamesOf(Tail(files))
<1>1. /\ Len(files) \in Nat \ {0} /\ DOMAIN files = 1..Len(files)
      /\ DOMAIN Tail(files) = 1..Len(files) - 1
      /\ \A i \in 1..Len(files) - 1 : Tail(files)[i] = files[i + 1]
  BY TailList, FilesType, EmptySeq DEF ListOK
<1>2. \A i \in 1..Len(files) : i = 1 \/ (i - 1 \in 1..Len(files) - 1 /\ (i - 1) + 1 = i)
  BY <1>1
<1>3. \A i \in 1..Len(files) - 1 : i + 1 \in 1..Len(files)
  BY <1>1
<1>4. 1 \in 1..Len(files)
  BY <1>1
<1>5. \A i \in 1..Len(files) : i = 1 \/ files[i] = Tail(files)[i - 1]
  BY <1>1, <1>2
<1>6. NamesOf(files) \subseteq {files[1].name} \cup NamesOf(Tail(files))
  <2> SUFFICES ASSUME NEW i \in 1..Len(files)
               PROVE  files[i].name \in {files[1].name} \cup NamesOf(Tail(files))
    BY <1>1 DEF NamesOf
  <2> QED BY Zenon, <1>1, <1>2, <1>5 DEF NamesOf
<1>7. {files[1].name} \cup NamesOf(Tail(files)) \subseteq NamesOf(files)
  BY <1>1, <1>3, <1>4 DEF NamesOf
<1> QED BY <1>6, <1>7

\* A list with a segment in it names the segment and, of the old list, what is
\* not part of the run.
LEMMA NamesSpliced ==
  ASSUME ListOK, PackOK, Sorted(files), Len(run) >= 2, NEW at \in DOMAIN files, RunAt(at)
  PROVE  /\ seg \in NamesOf(Spliced(at))
         /\ NamesOf(Spliced(at)) \subseteq NamesOf(files) \cup {seg}
         /\ \A n \in NamesOf(files) : n \in NamesOf(Spliced(at)) \/ n \in Range(run)
         /\ \A n \in Range(run) : n = seg \/ n \notin NamesOf(Spliced(at))
<1> DEFINE l == Spliced(at)
           m == Len(files) - Len(run) + 1
<1>1. /\ at \in 1..Len(files) /\ Len(files) \in Nat /\ Len(run) \in Nat /\ Len(run) >= 2
      /\ at + Len(run) - 1 <= Len(files)
  BY RunInList
<1>2. /\ DOMAIN l = 1..m
      /\ \A i \in 1..m :
           /\ i < at => l[i] = files[i]
           /\ i = at => l[i].name = seg
           /\ i > at => l[i] = files[i + Len(run) - 1]
  BY Zenon, <1>1, RunInList, SplicedList
<1>3. DOMAIN files = 1..Len(files)
  BY FilesType
<1>4. DOMAIN run = 1..Len(run) /\ \A i \in 1..Len(run) : files[at + i - 1].name = run[i]
  BY LenProperties DEF RunAt, PackOK
<1>5. \A i, j \in 1..Len(files) : files[i].name = files[j].name => i = j
  BY <1>3, FilesType, BeforeOrder DEF Sorted
<1> HIDE DEF l
<1>6. at \in 1..m
  BY <1>1
<1>7. seg \in NamesOf(l)
  BY <1>2, <1>6 DEF NamesOf
<1>8. ASSUME NEW i \in 1..m
      PROVE  l[i].name = seg \/ \E k \in 1..Len(files) :
               l[i] = files[k] /\ ~(at <= k /\ k <= at + Len(run) - 1)
  <2>1. CASE i < at
    BY <2>1, <1>1, <1>2
  <2>2. CASE i = at
    BY <2>2, <1>2
  <2>3. CASE i > at
    <3>1. l[i] = files[i + Len(run) - 1]
      BY Zenon, <2>3, <1>2
    <3>2. /\ i + Len(run) - 1 \in 1..Len(files)
          /\ ~(i + Len(run) - 1 <= at + Len(run) - 1)
      BY SMT, <2>3, <1>1
    <3> QED BY Zenon, <3>1, <3>2
  <2> QED BY <2>1, <2>2, <2>3, <1>1
<1>9. NamesOf(l) \subseteq NamesOf(files) \cup {seg}
  <2> SUFFICES ASSUME NEW i \in 1..m PROVE l[i].name \in NamesOf(files) \cup {seg}
    BY <1>2 DEF NamesOf
  <2> QED BY <1>3, <1>8 DEF NamesOf
<1>10. ASSUME NEW k \in 1..Len(files)
       PROVE  files[k].name \in NamesOf(l) \/ files[k].name \in Range(run)
  <2>1. CASE k < at
    <3>1. k \in 1..m
      BY <2>1, <1>1
    <3>2. l[k] = files[k]
      BY <2>1, <3>1, <1>2
    <3> QED BY <3>1, <3>2, <1>2 DEF NamesOf
  <2>2. CASE at <= k /\ k <= at + Len(run) - 1
    <3>1. k - at + 1 \in 1..Len(run) /\ at + (k - at + 1) - 1 = k
      BY <2>2, <1>1
    <3> QED BY <3>1, <1>4 DEF Range
  <2>3. CASE k > at + Len(run) - 1
    <3>1. /\ k - Len(run) + 1 \in 1..m /\ k - Len(run) + 1 > at
          /\ (k - Len(run) + 1) + Len(run) - 1 = k
      BY <2>3, <1>1
    <3>2. l[k - Len(run) + 1] = files[k]
      BY <3>1, <1>2
    <3> QED BY <3>1, <3>2, <1>2 DEF NamesOf
  <2>4. k < at \/ (at <= k /\ k <= at + Len(run) - 1) \/ k > at + Len(run) - 1
    BY <1>1
  <2> QED BY <2>1, <2>2, <2>3, <2>4
<1>11. ASSUME NEW j \in 1..Len(run), run[j] # seg
       PROVE  run[j] \notin NamesOf(l)
  <2> SUFFICES ASSUME NEW i \in 1..m, l[i].name = run[j]
               PROVE  FALSE
    BY <1>2 DEF NamesOf
  <2>1. PICK k \in 1..Len(files) : l[i] = files[k] /\ ~(at <= k /\ k <= at + Len(run) - 1)
    BY <1>8, <1>11
  <2>2. at + j - 1 \in 1..Len(files) /\ files[at + j - 1].name = run[j]
    BY SMTT(60), <1>1, <1>4
  <2>3. k = at + j - 1
    BY <2>1, <2>2, <1>5
  <2> QED BY <2>1, <2>3, <1>1
<1> QED BY Zenon, <1>3, <1>4, <1>7, <1>9, <1>10, <1>11 DEF NamesOf, Range, l
====
