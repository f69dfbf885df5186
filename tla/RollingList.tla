---------------------------- MODULE RollingList ----------------------------
(***************************************************************************)
(* The newest so many of some filings, which are numbered in the order     *)
(* they were filed: what EDGAR's submissions list of a company, and what a *)
(* query with ORDER BY filed DESC LIMIT n returns.                         *)
(***************************************************************************)
EXTENDS Integers, FiniteSets

Newest(S, n) == {f \in S : Cardinality({g \in S : g > f}) < n}
=============================================================================
