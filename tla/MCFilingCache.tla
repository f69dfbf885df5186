---------------------------- MODULE MCFilingCache ----------------------------
(* Two issuers: an insider filing of the first, one in the lists of both,  *)
(* and two 13Gs in the list of the second; a list holds two filings, so    *)
(* that they push the second issuer's insider filing out of it.            *)
EXTENDS FilingCache, TLC

Alike == Permutations(Requests)

MCForm == <<"345", "345", "13DG", "13DG">>
MCFeeds == <<{1}, {1, 2}, {2}, {2}>>
MCSubject == <<1, 2, 1, 2>>
=============================================================================
