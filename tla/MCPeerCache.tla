---------------------------- MODULE MCPeerCache ----------------------------
(* Two infohashes; which of them iter() visits first is no loss, since their *)
(* roles are the same. Addresses and requests are interchangeable.           *)
EXTENDS PeerCache, TLC

CONSTANTS ih1, ih2

mc_Shards == <<ih1, ih2>>

Symmetry == Permutations(Addr) \cup Permutations(Task)
=============================================================================
