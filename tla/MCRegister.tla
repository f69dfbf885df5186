----------------------------- MODULE MCRegister -----------------------------
(***************************************************************************)
(* Two managers, three quarters, an issuer with two share classes and a    *)
(* peer with one.  The reports include a CUSIP listed twice, an option, a  *)
(* principal amount, a row without a count, and reports without a place.   *)
(***************************************************************************)
EXTENDS Register, TLC

CONSTANTS m1, m2

Row3(line, c, n, k) == [line |-> line, cusip |-> c, shares |-> n, kind |-> k]
Rep(rows, filed, amendment, place) ==
  [rows |-> rows, filed |-> filed, amendment |-> amendment, place |-> place, stored |-> TRUE]

MCCusipsOf == "issuer" :> {"A", "C"} @@ "peer" :> {"P"}
MCReports ==
  {Rep({Row3(1, "A", 2, "SH"), Row3(2, "C", 1, "OPT"), Row3(3, "P", 1, "SH")}, 30, FALSE, "XX"),
   Rep({Row3(1, "A", 2, "SH"), Row3(2, "A", 1, "SH"), Row3(3, "C", 1, "SH")}, 50, TRUE, NoPlace),
   Rep({Row3(1, "A", NoCount, "SH"), Row3(2, "C", 3, "SH"), Row3(3, "P", 1, "PRN")}, NoDate, FALSE, "A6")}

(* A 13D/A; a Form 4 of a transaction before the one filed earlier; a      *)
(* Form 4/A of the same transaction as the filing it amends; rows without  *)
(* a count or a date.                                                      *)
Owner(who, filed, dated, shares, kind) ==
  [who |-> who, filed |-> filed, dated |-> dated, shares |-> shares, kind |-> kind]
MCOwnership ==
  {<<Owner("o", 60, 55, 2, "13DG"), Owner("o", 40, 58, 5, "13DG"), Owner("p", 30, NoDate, 1, "owned")>>,
   <<Owner("o", 70, 50, 4, "owned"), Owner("o", 60, 58, NoCount, "owned"), Owner("o", 60, 58, 3, "owned"),
     Owner("o", 20, 18, 7, "owned"), Owner("p", 10, NoDate, 1, "unknown")>>,
   <<Owner("o", 65, 58, 9, "owned"), Owner("o", 60, 58, 3, "owned"), Owner("o", 59, NoDate, 6, "owned"),
     Owner("o", NoDate, 10, 8, "13DG")>>}

Symmetry == Permutations({m1, m2})
=============================================================================
