--------------------------- MODULE MCPeerAnalytics ---------------------------
(* Small instances of the weekly chain: companies 1 and 2 are one group,    *)
(* just large enough, company 3 has no SIC, and a second filing makes       *)
(* company 2's metric N/A.                                                  *)
EXTENDS PeerAnalytics

MCSic == [c \in Companies |-> IF c \in {1, 2} THEN "tech" ELSE NoGroup]
MCNA == {<<2, 2>>}
=============================================================================
