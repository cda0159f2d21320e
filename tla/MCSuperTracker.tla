-------------------------- MODULE MCSuperTracker --------------------------
(* Two UDP clients behind one ip, one behind another, and an HTTP client.   *)
EXTENDS SuperTracker

CONSTANTS ip1, ip2, ip3, localhost, p1, p2

mc_UdpClient == {<<ip1, p1>>, <<ip1, p2>>, <<ip2, p1>>}
mc_HttpClient == {<<ip3, p1>>}
mc_HttpAddr == <<localhost, 0>>
=============================================================================
