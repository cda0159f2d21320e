---------------------------- MODULE MCServices ----------------------------
(***************************************************************************)
(* Services on a small instance of each of them.                           *)
(***************************************************************************)
EXTENDS Services

CONSTANTS TCP, UDP, k1, k2

\* Two UDP ports next to each other, so that the first may take the second's.
mc_Ports == << [protocol |-> TCP, internal_port |-> 3],
               [protocol |-> UDP, internal_port |-> 2],
               [protocol |-> UDP, internal_port |-> 3] >>

\* Two entries with one id.
mc_Node == {[id |-> 1, addr |-> a] : a \in {1, 2}}

mc_Key == {k1, k2}
mc_AuthConfig ==
  {[enabled |-> FALSE, api_keys |-> {}, rate_limit_per_second |-> 1],
   [enabled |-> TRUE, api_keys |-> {k1}, rate_limit_per_second |-> 1],
   [enabled |-> TRUE, api_keys |-> {}, rate_limit_per_second |-> 0]}

=============================================================================
