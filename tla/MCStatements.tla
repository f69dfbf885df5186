----------------------------- MODULE MCStatements -----------------------------
(* Statements for TLC: five filings from a year-end on, so that a whole     *)
(* fiscal year is told quarter by quarter; one of them out of the ordinary. *)
EXTENDS Statements

MCFirstQuarters == {12}
MCPeriods       == {<<4, "Q2">>, <<4, "FY">>}
=============================================================================
