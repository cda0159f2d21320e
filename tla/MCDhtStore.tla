----------------------------- MODULE MCDhtStore -----------------------------
(* The peer store of the node by itself, with any callers: two infohashes,  *)
(* three peers and lists of two, so that lists fill, overflow and expire.   *)
(* Peers and infohashes are interchangeable; the rest of the node rests.    *)
EXTENDS CrawlerNode, TLC

mc_own_id == <<0>>
mc_hash_pair == [ih \in Infohash |-> <<1, 1>>]

AnyCaller ==
  /\ Store!Next
  /\ UNCHANGED <<tableVars, secretVars, issued, loopVars, last_packet, seenVars>>

StoreSpec == Init /\ [][AnyCaller]_vars

Symmetry == Permutations(Infohash) \cup Permutations(IP)
=============================================================================
