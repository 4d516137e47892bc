---------------------------- MODULE DiskSpoolScan ----------------------------
(***************************************************************************)
(* What scan returns: NewDiskSpool starts from a list that names every file *)
(* of the directory once, in the order of the names.  The rank of a name is *)
(* a position of the list, two names have two ranks, and so, the directory  *)
(* being finite, every position is taken.                                   *)
(***************************************************************************)
EXTENDS DiskSpoolInv, TLAPS, SequenceTheorems, FiniteSetTheorems

\* The room a file takes is a number.
LEMMA SizeType == \A n \in Names, k \in Nat : SizeOf(n, k) \in Int
BY SpoolAssumption DEF SizeOf, blocks, Names

\* The order of file names is a strict total order.
LEMMA BeforeOrder ==
  \A a, b, c \in Names :
    /\ Before(a, b) /\ Before(b, c) => Before(a, c)
    /\ ~Before(a, a)
    /\ a # b => Before(a, b) \/ Before(b, a)
BY DEF Before, Names

\* How many names of a directory come before one of them.
Rank(d, n) == Cardinality({m \in DOMAIN d : Before(m, n)})

\* The rank of a name is a position of the list, and it grows with the name.
LEMMA RankOrdered ==
  ASSUME NEW d, IsDirectory(d)
  PROVE  /\ Cardinality(DOMAIN d) \in Nat
         /\ \A n \in DOMAIN d : Rank(d, n) \in 0..Cardinality(DOMAIN d) - 1
         /\ \A n, m \in DOMAIN d : Before(n, m) => Rank(d, n) < Rank(d, m)
<1> DEFINE D == DOMAIN d
           P(n) == {m \in D : Before(m, n)}
<1>1. IsFiniteSet(D) /\ D \subseteq Names
  BY DEF IsDirectory
<1>2. Cardinality(D) \in Nat
  BY <1>1, FS_CardinalityType
<1>3. ASSUME NEW n \in D
      PROVE  IsFiniteSet(P(n)) /\ Cardinality(P(n)) \in Nat /\ Cardinality(P(n)) <= Cardinality(D) - 1
  <2>1. P(n) \in SUBSET (D \ {n})
    BY <1>1, BeforeOrder
  <2>2. IsFiniteSet(D \ {n}) /\ Cardinality(D \ {n}) = Cardinality(D) - 1
    BY <1>1, FS_RemoveElement
  <2>3. IsFiniteSet(P(n)) /\ Cardinality(P(n)) <= Cardinality(D \ {n})
    BY <2>1, <2>2, FS_Subset
  <2> QED
    BY <2>2, <2>3, FS_CardinalityType
<1>4. ASSUME NEW n \in D, NEW m \in D, Before(n, m)
      PROVE  Cardinality(P(n)) < Cardinality(P(m))
  <2>1. n \notin P(n) /\ P(n) \cup {n} \in SUBSET P(m)
    BY <1>1, <1>4, BeforeOrder
  <2>2. IsFiniteSet(P(n) \cup {n}) /\ Cardinality(P(n) \cup {n}) = Cardinality(P(n)) + 1
    BY <1>3, <2>1, FS_AddElement
  <2>3. Cardinality(P(n) \cup {n}) <= Cardinality(P(m))
    BY <1>3, <2>1, FS_Subset
  <2>4. Cardinality(P(n)) \in Nat /\ Cardinality(P(m)) \in Nat
    BY <1>3
  <2> HIDE DEF P
  <2> QED
    BY <2>2, <2>3, <2>4
<1> QED
  BY <1>2, <1>3, <1>4 DEF Rank

\* Every position of the list is the rank of one name.
LEMMA RankTaken ==
  ASSUME NEW d, IsDirectory(d), NEW i \in 1..Cardinality(DOMAIN d)
  PROVE  \E n \in DOMAIN d : Rank(d, n) = i - 1
<1> DEFINE D == DOMAIN d
           N == Cardinality(D)
           R == [n \in D |-> Rank(d, n)]
<1>1. D \subseteq Names /\ IsFiniteSet(D)
  BY DEF IsDirectory
<1>2. N \in Nat /\ \A n \in D : Rank(d, n) \in 0..N - 1
  BY RankOrdered
<1>3. \A n, m \in D : Rank(d, n) = Rank(d, m) => n = m
  <2> SUFFICES ASSUME NEW n \in D, NEW m \in D, Rank(d, n) = Rank(d, m), n # m PROVE FALSE
    OBVIOUS
  <2>1. Before(n, m) \/ Before(m, n)
    BY <1>1, BeforeOrder
  <2> QED
    BY <1>2, <2>1, RankOrdered
<1>4. R \in Injection(D, 0..N - 1)
  BY <1>2, <1>3 DEF Injection, IsInjective
<1>5. IsFiniteSet(0..N - 1) /\ Cardinality(0..N - 1) = N
  <2> HIDE DEF N
  <2>1. /\ IsFiniteSet(0..N - 1)
        /\ Cardinality(0..N - 1) = IF 0 > N - 1 THEN 0 ELSE N - 1 - 0 + 1
    BY <1>2, FS_Interval
  <2> QED
    BY <1>2, <2>1
<1>6. R \in Surjection(D, 0..N - 1)
  BY <1>4, <1>5, FS_Injection
<1>7. i - 1 \in 0..N - 1
  BY <1>2
<1> QED
  BY <1>6, <1>7 DEF Surjection

\* scan lists every file of its directory once, in the order of the names.
LEMMA ScanCorrect ==
  ASSUME NEW d, IsDirectory(d)
  PROVE  IsScan(scan(d), d)
<1> DEFINE D == DOMAIN d
           N == Cardinality(D)
           pick(i) == CHOOSE n \in D : Rank(d, n) = i - 1
<1>1. D \subseteq Names /\ \A n \in D : IsFile(d[n])
  BY DEF IsDirectory
<1>2. N \in Nat /\ \A n \in D : Rank(d, n) \in 0..N - 1
  BY RankOrdered
<1>3. \A i \in 1..N : pick(i) \in D /\ Rank(d, pick(i)) = i - 1
  BY RankTaken
<1>4. scan(d) = [i \in 1..N |-> Entry(d, pick(i))]
  BY DEF scan, Rank
<1>5. \A i \in 1..N : Entry(d, pick(i)) \in Entries /\ Entry(d, pick(i)).name = pick(i)
  BY <1>1, <1>3, SizeType DEF Entry, Entries, IsFile
<1> HIDE DEF pick
<1>6. scan(d) \in Seq(Entries) /\ DOMAIN scan(d) = 1..N
  BY <1>2, <1>4, <1>5
<1>7. \A i \in 1..N : scan(d)[i].name = pick(i)
  BY <1>4, <1>5
<1>8. Sorted(scan(d))
  <2> SUFFICES ASSUME NEW i \in 1..N, NEW j \in 1..N, i < j PROVE Before(pick(i), pick(j))
    BY <1>6, <1>7 DEF Sorted
  <2>1. pick(i) = pick(j) \/ Before(pick(i), pick(j)) \/ Before(pick(j), pick(i))
    BY <1>1, <1>3, BeforeOrder
  <2>2. Rank(d, pick(i)) < Rank(d, pick(j))
    BY <1>2, <1>3
  <2> QED
    BY <1>2, <1>3, <2>1, <2>2, RankOrdered
<1>9. NamesOf(scan(d)) = D
  <2>1. NamesOf(scan(d)) = {pick(i) : i \in 1..N}
    BY <1>6, <1>7 DEF NamesOf
  <2>2. ASSUME NEW n \in D PROVE \E i \in 1..N : pick(i) = n
    <3>1. PICK k \in 0..N - 1 : k = Rank(d, n)
      BY <1>2
    <3>2. k + 1 \in 1..N /\ Rank(d, pick(k + 1)) = Rank(d, n) /\ pick(k + 1) \in D
      BY <1>2, <1>3, <3>1
    <3>3. pick(k + 1) = n \/ Before(pick(k + 1), n) \/ Before(n, pick(k + 1))
      BY <1>1, <3>2, BeforeOrder
    <3> QED
      BY <1>2, <3>2, <3>3, RankOrdered
  <2> QED
    BY <1>3, <2>1, <2>2
<1> QED
  BY <1>6, <1>8, <1>9 DEF IsScan
=============================================================================
