---------------------------- MODULE MCSecAccess ----------------------------
(* Two API requests and one batch job. *)
EXTENDS SecAccess, TLC

CONSTANTS api, batch, r1, r2, job

MCProcs == {api, batch}
MCTasks == {r1, r2, job}
MCHome == (r1 :> api) @@ (r2 :> api) @@ (job :> batch)
=============================================================================
