----------------------------- MODULE MCApiGate -----------------------------
(* A key and an anonymous caller, two tiers; ticks of half a               *)
(* second.                                                                 *)
EXTENDS ApiGate

MCTiers == {"free", "pro"}
MCRate == [t \in MCTiers |-> IF t = "free" THEN 1 ELSE 2]
MCQuota == [t \in MCTiers |-> IF t = "free" THEN 1 ELSE 3]
=============================================================================
