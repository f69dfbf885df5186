----------------------------- MODULE MCFactCache -----------------------------
(* A small instance of the fact cache: two clients ask for one period and   *)
(* for the history of apple, which files of two; gme files, and is not      *)
(* asked about.                                                             *)
EXTENDS FactCache, TLC

Clients == Permutations(Request)
MCAsked == "apple" :> {"FY", "all"} @@ "gme" :> {}
MCReported == "apple" :> {"FY", "Q1"} @@ "gme" :> {"FY"}
=============================================================================
