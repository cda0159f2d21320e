--------------------------- MODULE MCCrawlerNode ---------------------------
(* Two remote nodes with one address each, one bootstrap address, ids of a  *)
(* single bit (so the one bucket never splits; RoutingTable's own run does  *)
(* that) and room for two nodes in the table. The places of ih2 in the      *)
(* Bloom filter are among those of ih1: it is taken for seen if ih1 was.    *)
EXTENDS CrawlerNode

CONSTANTS ip1, ip2, ip3, p1, p2, ih1, ih2

mc_Remote == {<<ip1, p1>>, <<ip2, p1>>}
mc_Bootstrap == {<<ip3, p1>>}
mc_own_id == <<0>>
mc_hash_pair == [ih \in {ih1, ih2} |-> IF ih = ih1 THEN <<6, 3>> ELSE <<1, 4>>]
mc_NodeIds == {<<1>>}
=============================================================================
