--------------------------- MODULE MCSectorTables ---------------------------
(***************************************************************************)
(* Two companies and two groups, of which a group of one is shown.         *)
(***************************************************************************)
EXTENDS SectorTables, TLC

CONSTANTS g1, g2

Sym == Permutations({g1, g2})

=============================================================================
