--------------------------- MODULE MCDiscoverers ---------------------------
(* Two trackers, in the order of the configured list.                       *)
EXTENDS Discoverers

CONSTANTS first, second

mc_trackers == <<first, second>>
=============================================================================
