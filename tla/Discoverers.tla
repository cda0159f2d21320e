---------------------------- MODULE Discoverers ----------------------------
(***************************************************************************)
(* The discoverers with a protocol of their own, put together: peer        *)
(* exchange, local peer discovery, the list of trackers, the UDP tracker   *)
(* client and the messages of the DHT. They share no state: a behaviour is *)
(* one of one of them (part), the others stay as they start. What          *)
(* surrounds them is the subject of Discovery.                             *)
(***************************************************************************)
EXTENDS Integers, FiniteSets

CONSTANTS
  Peer, Addr, Task, max_connected_peers, pex_request_interval, PeerTTL, MaxSkipped,
  OurId, PeerIds, MaxTime,
  Call, Infohash, Neighbour, min_broadcast_interval, query_wait_time, peer_ttl, LpdMaxTime,
  overall_timeout, INITIAL_TIMEOUT, MAX_RETRIES, Id, Junk, MaxDelay,
  V4Node, V6Node, Target, Port, MaxAnnounced,
  trackers, max_concurrent_requests, max_consecutive_failures, cooldown_duration, MaxFailures

ASSUME LpdAssumption == min_broadcast_interval \in Nat /\ query_wait_time \in Nat
ASSUME UdpAssumption == overall_timeout \in Nat /\ INITIAL_TIMEOUT \in Nat
ASSUME TrackerClientAssumption ==
  /\ max_concurrent_requests \in Nat \ {0}
  /\ max_consecutive_failures \in Nat \ {0}
  /\ cooldown_duration \in Nat \ {0}

VARIABLES
  part,
  connected_peers, known_peers, calls, exchange, wanted, now,
  listener_started, listening, last_broadcast, discovered_peers, lpd_calls, sent, rushed, clock,
  stage, waiting, attempt, timeout, wait, elapsed, connection_id, packets, issued, total, delays,
  phase, wire, asked, heard, meant, read, held_token, stored, announcing, announced,
  states, call

exchangeVars == <<connected_peers, known_peers, calls, exchange, wanted, now>>
localVars ==
  <<listener_started, listening, last_broadcast, discovered_peers, lpd_calls, sent, rushed, clock>>
trackerVars ==
  <<stage, waiting, attempt, timeout, wait, elapsed, connection_id, packets, issued, total, delays>>
messageVars == <<phase, wire, asked, heard, meant, read, held_token, stored, announcing, announced>>
listVars == <<states, call>>

Exchange == INSTANCE Pex
Local == INSTANCE Lpd
Tracker == INSTANCE UdpTrackerClient
Messages == INSTANCE Krpc
List == INSTANCE TrackerClient

discoverersVars == <<part, exchangeVars, localVars, trackerVars, messageVars, listVars>>

Init ==
  /\ part \in {"exchange", "local", "tracker", "messages", "list"}
  /\ Exchange!Init /\ Local!Init /\ Tracker!Init /\ Messages!Init /\ List!Init

\* Everything but part p stays as it is.
Still(p) ==
  /\ UNCHANGED part
  /\ IF p = "exchange" THEN TRUE ELSE UNCHANGED exchangeVars
  /\ IF p = "local" THEN TRUE ELSE UNCHANGED localVars
  /\ IF p = "tracker" THEN TRUE ELSE UNCHANGED trackerVars
  /\ IF p = "messages" THEN TRUE ELSE UNCHANGED messageVars
  /\ IF p = "list" THEN TRUE ELSE UNCHANGED listVars

Next ==
  \/ part = "exchange" /\ Exchange!Next /\ Still("exchange")
  \/ part = "local" /\ Local!Next /\ Still("local")
  \/ part = "tracker" /\ Tracker!Next /\ Still("tracker")
  \/ part = "messages" /\ Messages!Next /\ Still("messages")
  \/ part = "list" /\ List!Next /\ Still("list")

\* Peer exchange: the timeouts around connect, handshake and receive fire, a
\* write goes through or fails, and tokio runs the tasks. The read of the
\* extension handshake may wait for ever.
ExchangeFairness ==
  \A t \in Task :
    /\ WF_discoverersVars(part = "exchange" /\ Exchange!Return(t) /\ Still("exchange"))
    /\ \A p \in Peer :
         /\ WF_discoverersVars(part = "exchange" /\ ~Exchange!At(t, p, "extension")
                                 /\ Exchange!ExchangeFails(t, p) /\ Still("exchange"))
         /\ WF_discoverersVars(part = "exchange" /\ Exchange!ReceiveEnds(t, p) /\ Still("exchange"))
         /\ WF_discoverersVars(part = "exchange" /\ Exchange!Join(t, p) /\ Still("exchange"))

\* The list of trackers: time passes, requests keep being made, and a call that
\* is under way ends, since discover_all gives every call a timeout.
ListFairness ==
  /\ WF_discoverersVars(part = "list" /\ List!Tick /\ Still("list"))
  /\ WF_discoverersVars(part = "list" /\ List!DiscoverSome /\ Still("list"))
  /\ \A c \in Call :
       WF_discoverersVars(part = "list" /\ (List!Record(c) \/ List!Timeout(c)) /\ Still("list"))

Spec == Init /\ [][Next]_discoverersVars /\ ExchangeFairness /\ ListFairness

-----------------------------------------------------------------------------
\* Pex: no exchange brings back a peer whose connection was removed.
DisconnectedStayOut == Exchange!DisconnectedStayOut

\* Pex: an exchange ends unless the peer falls silent before its extension
\* handshake, and a request waits for no other one.
ExchangesEnd == Exchange!ExchangesEnd

\* Lpd: broadcasts for one infohash are an interval apart.
BroadcastsSpaced == Local!BroadcastsSpaced

\* UdpTrackerClient: a call takes at most two overall timeouts.
CallInTime == Tracker!CallInTime

\* TrackerClient: the flag of a tracker says that it has failed often enough in
\* a row; a disabled tracker is enabled again, and an enabled one is asked.
DisabledIffFailing == List!DisabledIffFailing
DisabledRecovers == List!DisabledRecovers
EnabledIsAsked == part = "list" => List!EnabledIsAsked

\* Krpc: a node and the crawler read from each other what was meant.
Understood == Messages!Understood

=============================================================================
