---------------------------- MODULE MCFilingDocs ----------------------------
(***************************************************************************)
(* One company and five filings: two annual reports and an amendment,      *)
(* an event and a notice; EDGAR lists three.  One endpoint of each sort: an  *)
(* index read before the cover page is fetched, read after, or only listed.*)
(***************************************************************************)
EXTENDS FilingDocs

CONSTANT r1

MCForm == <<"10-K", "8-K", "10-K", "10-K/A", "144">>
MCOf == [f \in 1..NDocs |-> 1]
=============================================================================
