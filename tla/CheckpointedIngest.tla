------------------------- MODULE CheckpointedIngest -------------------------
(***************************************************************************)
(* What the bulk backfill promises, with no processes and no queues: a     *)
(* store of company facts and checkpoints that grows by whole batches of   *)
(* companies never ingested before, and that a power cut can only take     *)
(* back to an earlier commit, facts and checkpoints together               *)
(* (src/src/secfin/ingest/backfill.py:1-42, "Interrupting and resuming").  *)
(***************************************************************************)
EXTENDS Naturals

CONSTANT Companies      \* the companies of companyfacts.zip

VARIABLES db,           \* the store as SQLite shows it: facts rows and checkpoints
          disk          \* the part of it a power cut cannot take back

vars == <<db, disk>>

\* The companies all of whose facts are stored, and those checkpointed.
Store == [rows : SUBSET Companies, ckpt : SUBSET Companies]

Empty == [rows |-> {}, ckpt |-> {}]

Init == db = Empty /\ disk = Empty

(* One transaction makes a batch of new companies stored and checkpointed. *)
IngestBatch ==
  /\ \E batch \in SUBSET (Companies \ db.ckpt) :
       /\ batch # {}
       /\ db' = [rows |-> db.rows \cup batch, ckpt |-> db.ckpt \cup batch]
  /\ UNCHANGED disk

(* Every commit so far reaches the disk. *)
Sync == disk' = db /\ UNCHANGED db

(* A power cut takes the store back to what had reached the disk. *)
Rollback == db' = disk /\ UNCHANGED disk

Next == IngestBatch \/ Sync \/ Rollback

Spec == Init /\ [][Next]_vars
=============================================================================
