----------------------------- MODULE AuditIngest -----------------------------
(***************************************************************************)
(* How kvisior takes in audit records: the receiver commits a batch to the *)
(* audit_inbox table and answers 202 (auditdelivery/delivery.go), workers  *)
(* process the batches of a cluster one at a time in the order of their    *)
(* ids (store/auditinbox.go), and the engine turns each record into a row  *)
(* of audit_events, merges what two sources report about one change, and   *)
(* lets rules fire (auditengine/engine.go, pending.go).                    *)
(*                                                                         *)
(* A change of an object is reported twice: once in an "events" batch and  *)
(* once in a "log" batch.  For a change that went through the admission    *)
(* webhook the log record carries the id of the admission event; a change  *)
(* seen by an informer has no such id and is joined with the log record by *)
(* looking for its twin.  A transaction of WithAuditEvent holds the lock   *)
(* of its state row, and the object lock where twins are looked up, so it  *)
(* is one step.  Time is left out: a pending record may be stale, and a    *)
(* processed batch past its retention, at any moment.                      *)
(***************************************************************************)
EXTENDS Integers, Sequences, FiniteSets

CONSTANTS
  Admission,   \* changes reported by the webhook
  Watched,     \* changes reported by an informer
  Rules,       \* audit rules that alert on every match
  Hits,        \* the rules that match a row, by its origin
  Batches,     \* id -> [cluster, kind, recs]: what the senders deliver
  Bad,         \* records that the database refuses as a row, with a data error
  Stuck,       \* batches whose processing always fails
  free,        \* no worker: an advisory lock that nobody holds
  Workers,     \* the goroutines of Run, in all replicas
  MaxPending,  \* Receiver.MaxPending
  MaxSends,    \* bound: requests
  MaxFails,    \* bound: transient database errors
  MaxLosses,   \* bound: lost database connections of a worker
  MaxCrashes   \* bound: crashes of kvisior

Changes == Admission \cup Watched
Clusters == {Batches[b].cluster : b \in DOMAIN Batches}
Records == Changes \X {"events", "log"}
Origins == {"admission", "apilog", "both"}

ASSUME IngestAssumption ==
  /\ Admission \cap Watched = {}
  /\ Hits \in [Origins -> SUBSET Rules]
  /\ Bad \subseteq Records /\ Stuck \subseteq DOMAIN Batches
  /\ MaxPending \in Nat \ {0}
  /\ {MaxSends, MaxFails, MaxLosses, MaxCrashes} \subseteq Nat

VARIABLES
  \* batches whose sender has seen the 202
  acked,
  \* audit_inbox in the order of ids
  inbox,
  \* audit_ingest_state by event key; audit_events, audit_rule_matches and
  \* alerts by change; records refused for good
  state, db, refused,
  \* the workers, and who holds the advisory lock of a cluster
  worker, lock,
  \* what the environment has done so far
  sends, fails, losses, crashes

bounds == <<sends, fails, losses, crashes>>
stored == <<state, db, refused>>
vars == <<acked, inbox, stored, worker, lock, bounds>>

\* The event key under which the state of a record is kept.
Key(c, kind) == IF c \in Admission THEN <<c, "events">> ELSE <<c, kind>>
Keys == {Key(r[1], r[2]) : r \in Records}

\* Pending: "no"; "log", an enrichment with the logged event; "bare", one
\* without it; "stored", the mark that the logged event has become the row.
NewState == [admitted |-> FALSE, enriched |-> FALSE, pending |-> "no"]
NewChange == [rows |-> <<>>, claims |-> {}, alerts |-> [r \in Rules |-> 0]]
Idle == [pc |-> "idle", at |-> 0, i |-> 0, seen |-> [k \in {} |-> NewState]]

\* Every variable holds a value of its kind; the advisory lock of a cluster is
\* only ever held by a worker that is at work (processAuditCluster ends its
\* transaction on every path).
TypeOK ==
  /\ acked \subseteq DOMAIN Batches
  /\ inbox \in Seq([batch : DOMAIN Batches, status : {"pending", "processed", "removed"}])
  /\ state \in [Keys -> [admitted : BOOLEAN, enriched : BOOLEAN, pending : {"no", "log", "bare", "stored"}]]
  /\ \A c \in Changes :
       /\ db[c].rows \in Seq([uid : Keys, origin : Origins])
       /\ db[c].claims \subseteq Keys \X Rules /\ db[c].alerts \in [Rules -> Nat]
  /\ refused \subseteq Records
  /\ \A w \in Workers : worker[w].pc \in {"idle", "work"} /\ worker[w].at \in 0..Len(inbox)
  /\ lock \in [Clusters -> {w \in Workers : worker[w].pc = "work"} \cup {free}]
  /\ {sends, fails, losses, crashes} \subseteq Nat

-----------------------------------------------------------------------------
(* The receiver *)

\* Variant: the batches of all clusters stand in one line.
WaitingTogether(cluster) == {i \in DOMAIN inbox : inbox[i].status = "pending"}

\* EnqueueAudit, under the admission lock of the cluster: a known batch is left
\* alone, a full inbox refuses.
Known(b) == \E i \in DOMAIN inbox : inbox[i].batch = b /\ inbox[i].status # "removed"
Waiting(cluster) ==
  {i \in DOMAIN inbox : inbox[i].status = "pending" /\ Batches[inbox[i].batch].cluster = cluster}
EnqueueAudit(b) == IF Known(b) THEN inbox ELSE Append(inbox, [batch |-> b, status |-> "pending"])

\* handle: a request that finds a free place commits its batch and is answered;
\* the answer may be lost.  A sender that stops between the answer and the removal
\* of its file, or the saving of its checkpoint, sends the batch once more.  A
\* request that is turned away, because the cluster has too many or its inbox is
\* full, changes nothing.
Deliver(b) ==
  /\ sends < MaxSends /\ sends' = sends + 1
  /\ Known(b) \/ Cardinality(Waiting(Batches[b].cluster)) < MaxPending
  /\ inbox' = EnqueueAudit(b)
  /\ acked' \in {acked, acked \cup {b}}
  /\ UNCHANGED <<stored, worker, lock, fails, losses, crashes>>

\* CleanAuditInbox.
Clean ==
  /\ \E i \in DOMAIN inbox :
       inbox[i].status = "processed" /\ inbox' = [inbox EXCEPT ![i].status = "removed"]
  /\ UNCHANGED <<acked, stored, worker, lock, bounds>>

-----------------------------------------------------------------------------
(* The tables of one change *)

Has(d, uid, origin) == \E i \in DOMAIN d.rows : d.rows[i] = [uid |-> uid, origin |-> origin]
Merge(d, uid, origin) ==
  [d EXCEPT !.rows = [i \in DOMAIN @ |->
     IF @[i] = [uid |-> uid, origin |-> origin] THEN [uid |-> uid, origin |-> "both"] ELSE @[i]]]

\* Variant: a rule fires without being claimed.
actUnclaimed(d, key, hits) ==
  [d EXCEPT !.alerts = [r \in Rules |-> @[r] + IF r \in hits THEN 1 ELSE 0]]

\* act: a rule fires for an event key if this transaction is the one that
\* claims it.
act(d, key, hits) ==
  [d EXCEPT
     !.claims = @ \cup ({key} \X hits),
     !.alerts = [r \in Rules |-> @[r] + IF r \in hits /\ <<key, r>> \notin d.claims THEN 1 ELSE 0]]

InsertAuditEvents(d, key, origin) ==
  [d EXCEPT !.rows = Append(@, [uid |-> key, origin |-> origin])]

persist(d, key, origin) == act(InsertAuditEvents(d, key, origin), key, Hits[origin])

\* enrich: a log record is added to the row of its event.
enrich(d, key) == act(Merge(d, key, "admission"), key, Hits["both"])

\* mergeAdmission: an event is added to the row its log record has become.
mergeAdmission(d, key) ==
  IF Has(d, key, "apilog") THEN act(Merge(d, key, "apilog"), key, Hits["both"]) ELSE d

\* ExistingAuditEvent: the row is looked up where the state does not know of it.
Existing(s, d, uid) ==
  IF s.admitted THEN s
  ELSE [s EXCEPT !.admitted = \E o \in Origins : Has(d, uid, o), !.enriched = Has(d, uid, "both")]

-----------------------------------------------------------------------------
(* Transactions of the engine: the new state and tables for one record *)

\* Variant: no twin is looked for, and what is pending is not looked at.
IngestEventsOnly(s, d, c) ==
  LET s1 == Existing(s, d, Key(c, "events"))
  IN [s |-> [s1 EXCEPT !.admitted = TRUE],
      d |-> IF s1.admitted THEN d ELSE persist(d, Key(c, "events"), "admission")]

\* IngestEvents: an event joins the row of its log record, or is stored and
\* takes over the enrichment that waits for it.
IngestEvents(s, d, c) ==
  LET key == Key(c, "events")
      s1 == Existing(s, d, key)
      twin == c \in Watched /\ ~s1.admitted /\ Has(d, Key(c, "log"), "apilog")
      d1 == IF s1.admitted THEN d ELSE persist(d, key, "admission")
      s2 == [s1 EXCEPT !.admitted = TRUE]
      joined == [s2 EXCEPT !.enriched = TRUE, !.pending = "no"]
  IN CASE twin -> [s |-> s2, d |-> Merge(d, Key(c, "log"), "apilog")]
       [] ~twin /\ s2.pending = "stored" -> [s |-> joined, d |-> mergeAdmission(d1, key)]
       [] ~twin /\ s2.pending \in {"log", "bare"} /\ ~s2.enriched /\ Has(d1, key, "admission")
            -> [s |-> joined, d |-> enrich(d1, key)]
       [] OTHER -> [s |-> s2, d |-> d1]

\* IngestLog, a record that names its admission event: it enriches the stored
\* event or waits for it.
LogOfEvent(s, d, c) ==
  LET key == Key(c, "log")
      s1 == Existing(s, d, key)
  IN CASE s.enriched \/ s.pending = "stored" -> [s |-> s, d |-> d]
       [] ~s.enriched /\ s.pending # "stored" /\ s1.enriched -> [s |-> s1, d |-> d]
       [] ~s1.enriched /\ s.pending # "stored" /\ ~s1.admitted -> [s |-> [s1 EXCEPT !.pending = "log"], d |-> d]
       [] OTHER ->
            IF Has(d, key, "admission")
            THEN [s |-> [s1 EXCEPT !.enriched = TRUE, !.pending = "no"], d |-> enrich(d, key)]
            ELSE [s |-> [s1 EXCEPT !.pending = "bare"], d |-> d]

\* IngestLog, a record on its own: it enriches the row of its informer twin or
\* becomes a row.
LogAlone(s, d, c) ==
  LET key == Key(c, "log")
      twin == Key(c, "events")
  IN [s |-> [s EXCEPT !.admitted = TRUE],
      d |-> CASE s.admitted -> d
              [] ~s.admitted /\ Has(d, twin, "admission") -> enrich(d, twin)
              [] OTHER -> persist(d, key, "apilog")]

IngestLog(s, d, c) == IF c \in Admission THEN LogOfEvent(s, d, c) ELSE LogAlone(s, d, c)

-----------------------------------------------------------------------------
(* The workers *)

Batch(w) == Batches[inbox[worker[w].at].batch]
Item(w) == <<Batch(w).recs[worker[w].i], Batch(w).kind>>
Release(w) == [c \in Clusters |-> IF lock[c] = w THEN free ELSE lock[c]]

\* The first batch of a cluster that is not processed.
HeadBatch(cluster) == CHOOSE i \in Waiting(cluster) : \A j \in Waiting(cluster) : i <= j

\* processAuditCluster takes the lock and the head; the engine reads the
\* progress of all its records before it starts (AuditProgress).
Begin(w, cluster) ==
  /\ worker[w].pc = "idle" /\ lock[cluster] = free /\ Waiting(cluster) # {}
  /\ LET at == HeadBatch(cluster)
         b == Batches[inbox[at].batch]
         keys == {Key(b.recs[i], b.kind) : i \in DOMAIN b.recs}
     IN worker' = [worker EXCEPT ![w] = [pc |-> "work", at |-> at, i |-> 1, seen |-> [k \in keys |-> state[k]]]]
  /\ lock' = [lock EXCEPT ![cluster] = w]
  /\ UNCHANGED <<acked, inbox, stored, bounds>>

\* Variant: a stored event is done with, whatever waits for it.
SkippedOnceStored(kind, c, p) ==
  IF kind = "log" /\ c \in Admission THEN p.enriched \/ (p.pending # "no" /\ ~p.admitted) ELSE p.admitted

\* A record whose progress, as read at the start, says there is nothing to do.
Skipped(kind, c, p) ==
  CASE kind = "events" -> p.admitted /\ (p.enriched \/ p.pending = "no")
    [] kind = "log" /\ c \in Admission -> p.enriched \/ (p.pending # "no" /\ ~p.admitted)
    [] OTHER -> p.admitted

\* One record: skipped, refused by the database, or committed.  The log record
\* of an admission event is not a row yet.
Ingest(w) ==
  /\ worker[w].pc = "work" /\ worker[w].i <= Len(Batch(w).recs) /\ inbox[worker[w].at].batch \notin Stuck
  /\ LET c == Item(w)[1]
         kind == Item(w)[2]
         key == Key(c, kind)
         skip == Skipped(kind, c, worker[w].seen[key])
         tx == IF kind = "events" THEN IngestEvents(state[key], db[c], c) ELSE IngestLog(state[key], db[c], c)
     IN IF skip \/ Item(w) \in Bad \ (Admission \X {"log"})
        THEN /\ refused' = IF skip THEN refused ELSE refused \cup {Item(w)}
             /\ UNCHANGED <<state, db>>
        ELSE /\ state' = [state EXCEPT ![key] = tx.s]
             /\ db' = [db EXCEPT ![c] = tx.d]
             /\ UNCHANGED refused
  /\ worker' = [worker EXCEPT ![w].i = @ + 1]
  /\ UNCHANGED <<acked, inbox, lock, bounds>>

\* Variant: the transaction with the lock is left open.
FinishLocked(w) ==
  /\ worker[w].pc = "work" /\ worker[w].i > Len(Batch(w).recs)
  /\ inbox' = [inbox EXCEPT ![worker[w].at].status = "processed"]
  /\ worker' = [worker EXCEPT ![w] = Idle]
  /\ UNCHANGED <<acked, stored, lock, bounds>>

\* The batch is marked as processed; a worker that has lost its connection, and
\* with it the lock, fails to.
Finish(w) ==
  /\ worker[w].pc = "work" /\ worker[w].i > Len(Batch(w).recs)
  /\ inbox' = IF lock[Batch(w).cluster] = w
              THEN [inbox EXCEPT ![worker[w].at].status = "processed"] ELSE inbox
  /\ worker' = [worker EXCEPT ![w] = Idle] /\ lock' = Release(w)
  /\ UNCHANGED <<acked, stored, bounds>>

\* A transient error, or the timeout of the job: the batch stays where it is.
Fail(w) ==
  /\ worker[w].pc = "work"
  /\ \/ inbox[worker[w].at].batch \in Stuck /\ UNCHANGED fails
     \/ fails < MaxFails /\ fails' = fails + 1
  /\ worker' = [worker EXCEPT ![w] = Idle] /\ lock' = Release(w)
  /\ UNCHANGED <<acked, inbox, stored, sends, losses, crashes>>

\* The connection that holds the lock is lost while the engine goes on.
LoseLock(w) ==
  /\ losses < MaxLosses /\ losses' = losses + 1
  /\ lock' = Release(w) /\ lock' # lock
  /\ UNCHANGED <<acked, inbox, stored, worker, sends, fails, crashes>>

\* A log record of which the sweep finds that its event has not come.
Stale(c) == c \in Admission /\ ~state[Key(c, "log")].admitted /\ state[Key(c, "log")].pending = "log"

\* materialize: it becomes the row, unless there is one.
materialize(c) ==
  LET key == Key(c, "log")
      s1 == [Existing(state[key], db[c], key) EXCEPT !.pending = "bare"]
      joins == s1.admitted /\ Has(db[c], key, "admission")
  IN /\ Stale(c) /\ <<c, "log">> \notin Bad
     /\ state' = [state EXCEPT ![key] =
          CASE ~s1.admitted -> [s1 EXCEPT !.admitted = TRUE, !.pending = "stored"]
            [] s1.enriched \/ joins -> [s1 EXCEPT !.enriched = TRUE, !.pending = "no"]
            [] OTHER -> s1]
     /\ db' = [db EXCEPT ![c] =
          CASE ~s1.admitted -> persist(@, key, "apilog")
            [] ~s1.enriched /\ joins -> enrich(@, key)
            [] OTHER -> @]
     /\ UNCHANGED <<acked, inbox, refused, worker, lock, bounds>>

\* The database refuses the row: the enrichment goes on waiting without it.
dropPendingEvent(c) ==
  /\ Stale(c) /\ <<c, "log">> \in Bad
  /\ state' = [state EXCEPT ![Key(c, "log")].pending = "bare"]
  /\ refused' = refused \cup {<<c, "log">>}
  /\ UNCHANGED <<acked, inbox, db, worker, lock, bounds>>

\* kvisior stops; its requests and transactions are cut off.
Crash ==
  /\ crashes < MaxCrashes /\ crashes' = crashes + 1
  /\ worker' = [w \in Workers |-> Idle] /\ lock' = [c \in Clusters |-> free]
  /\ UNCHANGED <<acked, inbox, stored, sends, fails, losses>>

-----------------------------------------------------------------------------
Init ==
  /\ acked = {} /\ inbox = <<>>
  /\ state = [k \in Keys |-> NewState] /\ db = [c \in Changes |-> NewChange] /\ refused = {}
  /\ worker = [w \in Workers |-> Idle] /\ lock = [c \in Clusters |-> free]
  /\ sends = 0 /\ fails = 0 /\ losses = 0 /\ crashes = 0

Next ==
  \/ \E b \in DOMAIN Batches : Deliver(b)
  \/ \E w \in Workers : \/ \E cluster \in Clusters : Begin(w, cluster)
                        \/ Ingest(w) \/ Finish(w) \/ Fail(w) \/ LoseLock(w)
  \/ \E c \in Changes : materialize(c) \/ dropPendingEvent(c)
  \/ Clean \/ Crash

Spec == Init /\ [][Next]_vars

\* Every worker goes on with what it has; a cluster with a waiting batch gets a
\* worker in the end, because the head of a failing cluster is not eligible
\* while its backoff lasts; the sweep for stale records comes round.
FairSpec ==
  /\ Spec
  /\ \A w \in Workers : WF_vars(Ingest(w) \/ Finish(w) \/ Fail(w))
  /\ \A cluster \in Clusters : SF_vars(\E w \in Workers : Begin(w, cluster))
  /\ \A c \in Changes : WF_vars(materialize(c) \/ dropPendingEvent(c))

-----------------------------------------------------------------------------
(* Properties *)

\* A change has one row, whichever of its reports comes first, however often a
\* batch is delivered or processed and wherever processing is cut off.
OneRow == \A c \in Changes : Len(db[c].rows) <= 1

\* "Rules that already fired do not fire again": a rule alerts once per change.
AlertOnce == \A c \in Changes, r \in Rules : db[c].alerts[r] <= 1

\* What a record has become: part of a row, or the enrichment that waits for one.
Origin(c, o) == \E i \in DOMAIN db[c].rows : db[c].rows[i].origin \in {o, "both"}
Reflected(c, kind) ==
  \/ <<c, kind>> \in refused
  \/ kind = "events" /\ Origin(c, "admission")
  \/ kind = "log" /\ (Origin(c, "apilog") \/ (db[c].rows = <<>> /\ state[Key(c, "log")].pending = "log"))

\* A batch that was answered with 202 waits in the inbox until each of its
\* records is in the tables; what both sources report ends up in one row of
\* origin both.
AckedKept ==
  \A b \in acked :
    \/ \E i \in DOMAIN inbox : inbox[i] = [batch |-> b, status |-> "pending"]
    \/ \A i \in DOMAIN Batches[b].recs : Reflected(Batches[b].recs[i], Batches[b].kind)

\* An acknowledged batch is processed in the end, even if the head of another
\* cluster fails for ever, and each of its records is in a row.
AckedStored ==
  \A b \in DOMAIN Batches :
    (\A x \in Stuck : Batches[x].cluster # Batches[b].cluster) =>
      (b \in acked) ~> (\A i \in DOMAIN Batches[b].recs :
        <<Batches[b].recs[i], Batches[b].kind>> \in refused \/ db[Batches[b].recs[i]].rows # <<>>)
=============================================================================
