---------------------------- MODULE MCDhtClient ----------------------------
(* One lookup and one announce that race for init; a bootstrap node that may *)
(* enter twice, under two ids, and two other nodes in two buckets for one,   *)
(* so that a node is learned only in the place of one that failed or        *)
(* expired, and is displaced while it is asked. A lookup ends in each of     *)
(* its ways: no node left, no nearer node twice, the last round, enough      *)
(* peers. Each answer lists at most one node, under an id that fits its      *)
(* address or not. MaxTotal is never reached.                                *)
EXTENDS DhtClient, TLC

CONSTANTS c1, c2, b1, r1, r2

mc_kind == (c1 :> "lookup") @@ (c2 :> "announce")
mc_bootstrap == <<b1>>
mc_own_id == <<0, 0>>
mc_infohash == <<1, 1>>
mc_real_id == (b1 :> <<1, 0>>) @@ (r1 :> <<0, 1>>) @@ (r2 :> <<1, 1>>)
mc_RandomIds == {<<0, 1>>, <<1, 0>>}
mc_Contacts == {<< <<0, 1>>, r1 >>, << <<1, 1>>, r2 >>, << <<1, 1>>, r1 >>}
mc_Verified == {<< <<0, 1>>, r1 >>, << <<1, 1>>, r2 >>}
=============================================================================
