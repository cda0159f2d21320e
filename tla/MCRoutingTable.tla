-------------------------- MODULE MCRoutingTable --------------------------
(* Three-bit ids around own_id 000: two far nodes (no common bit), one that *)
(* shares one bit and one that shares two; the last one is also met under a *)
(* second id, as the bootstrap nodes, whose ids are drawn at random, are.   *)
EXTENDS RoutingTable

CONSTANTS a1, a2, a3, a4

mc_own_id == <<0, 0, 0>>

mc_Nodes == { << <<1, 0, 0>>, a1 >>, << <<1, 0, 1>>, a2 >>,
              << <<0, 1, 0>>, a3 >>, << <<0, 0, 1>>, a4 >>,
              << <<1, 1, 0>>, a4 >> }

=============================================================================
