----------------------------- MODULE MCBackfill -----------------------------
(* Small instances of the bulk backfill.  Company 2 has no facts at all and *)
(* company 1 cannot be parsed; two of the others fill a batch.              *)
EXTENDS Backfill

MCNFacts == [c \in Companies |-> IF c = 2 THEN 0 ELSE 1]
=============================================================================
