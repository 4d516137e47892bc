------------------------------ MODULE MCIngest ------------------------------
(***************************************************************************)
(* AuditIngest for TLC: a change x seen by the webhook and a change y seen *)
(* by an informer, both reported by both sources, and a change z whose     *)
(* only batch, of another cluster, always fails where it is Stuck.         *)
(***************************************************************************)
EXTENDS AuditIngest, TLC

CONSTANTS v, x, y, z, w1, w2, alwaysHit, mergedHit

MCHits == [o \in Origins |-> IF o = "both" THEN {alwaysHit, mergedHit} ELSE {alwaysHit}]

\* Both changes in every batch: a batch can be cut off between its records.
SharedBatches ==
  <<[cluster |-> "main", kind |-> "events", recs |-> <<x, y>>],
    [cluster |-> "main", kind |-> "log", recs |-> <<x, y>>]>>

\* Next to a cluster whose head fails for ever; two reports may be Bad.
StuckBatches ==
  <<[cluster |-> "other", kind |-> "events", recs |-> <<z>>],
    [cluster |-> "main", kind |-> "log", recs |-> <<x, v>>],
    [cluster |-> "main", kind |-> "events", recs |-> <<y, x>>]>>

RefusedRecords == {<<y, "events">>, <<v, "log">>}

WorkerSymmetry == Permutations(Workers)
=============================================================================
