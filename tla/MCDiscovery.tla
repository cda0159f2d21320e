---------------------------- MODULE MCDiscovery ----------------------------
(* The registry starts with a discoverer that can be used and one that is    *)
(* disabled. Discoverers are registered by name, so that one name may be     *)
(* registered twice: that gives requests that ask two at a time.             *)
EXTENDS Discovery

CONSTANTS tracker, dht

mc_Default == <<tracker, dht>>
=============================================================================
