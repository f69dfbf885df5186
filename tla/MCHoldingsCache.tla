-------------------------- MODULE MCHoldingsCache --------------------------
(* Two managers: the first amends its 13F, whose original states no        *)
(* location; the second's original has a cover page nobody can parse.      *)
EXTENDS HoldingsCache

MCOf == <<1, 2, 1, 2>>
MCCusip == <<"c1", "c2", "c1", "c2">>
=============================================================================
