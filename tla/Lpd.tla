-------------------------------- MODULE Lpd --------------------------------
(***************************************************************************)
(* Local peer discovery by multicast, src/discoverers/lpd/client.rs: the   *)
(* listener that the first request starts, the limit on broadcasts and the *)
(* peers heard of. Requests run concurrently on a thread pool. Between two *)
(* waits a request takes no time.                                          *)
(***************************************************************************)
EXTENDS Integers, FiniteSets

CONSTANTS
  Call,                    \* requests
  Infohash,
  Neighbour,               \* other clients of the local network
  min_broadcast_interval,
  query_wait_time,
  peer_ttl,
  LpdMaxTime               \* bound of the clock

Never == -1

VARIABLES
  listener_started,
  listening,         \* the socket is bound and its task reads it
  last_broadcast,    \* infohash |-> when it was last let through, or Never
  discovered_peers,  \* infohash |-> neighbour |-> when it was last heard
  lpd_calls,         \* per request: [pc, infohash, wakes]
  sent,              \* history: infohash |-> when the last message went out
  rushed,            \* history: a message followed another one too soon
  clock

lpdVars == <<listener_started, listening, last_broadcast, discovered_peers,
             lpd_calls, sent, rushed, clock>>

idle == [pc |-> "idle"]

Init ==
  /\ listener_started = FALSE /\ listening = FALSE
  /\ last_broadcast = [h \in Infohash |-> Never]
  /\ discovered_peers = [h \in Infohash |-> [n \in {} |-> 0]]
  /\ lpd_calls = [c \in Call |-> idle]
  /\ sent = [h \in Infohash |-> Never] /\ rushed = FALSE
  /\ clock = 0

Goes(c, pc) == lpd_calls' = [lpd_calls EXCEPT ![c].pc = pc]
Ends(c) == lpd_calls' = [lpd_calls EXCEPT ![c] = idle]

-----------------------------------------------------------------------------
\* A request asks whether the listener was started.
Request(c, h) ==
  /\ lpd_calls[c].pc = "idle"
  /\ lpd_calls' = [lpd_calls EXCEPT ![c] =
       [pc |-> IF listener_started THEN "check" ELSE "bind", infohash |-> h]]
  /\ UNCHANGED <<listener_started, listening, last_broadcast, discovered_peers, sent, rushed, clock>>

\* It was not: bind the multicast port and start the task. The bind fails when
\* another request, or another program, has the port; the request fails too.
StartListener(c) ==
  /\ lpd_calls[c].pc = "bind"
  /\ \/ /\ ~listening
        /\ listening' = TRUE /\ listener_started' = TRUE
        /\ Goes(c, "check")
     \/ Ends(c) /\ UNCHANGED <<listening, listener_started>>
  /\ UNCHANGED <<last_broadcast, discovered_peers, sent, rushed, clock>>

due(h) == last_broadcast[h] = Never \/ clock - last_broadcast[h] >= min_broadcast_interval

sleeping(h) == [pc |-> "wait", infohash |-> h, wakes |-> clock + query_wait_time]

\* Planted fault: the time is not taken with the decision.
CheckLimit_split(c) ==
  /\ lpd_calls[c].pc = "check"
  /\ LET h == lpd_calls[c].infohash IN
     lpd_calls' = [lpd_calls EXCEPT ![c] =
                     IF due(h) THEN [@ EXCEPT !.pc = "send"] ELSE sleeping(h)]
  /\ UNCHANGED <<listener_started, listening, last_broadcast, discovered_peers,
                 sent, rushed, clock>>

\* broadcast_query under the lock: the time is taken before the message is
\* sent, so one that cannot be sent counts as well.
CheckLimit(c) ==
  /\ lpd_calls[c].pc = "check"
  /\ LET h == lpd_calls[c].infohash IN
     IF due(h)
     THEN /\ last_broadcast' = [last_broadcast EXCEPT ![h] = clock]
          /\ Goes(c, "send")
     ELSE /\ lpd_calls' = [lpd_calls EXCEPT ![c] = sleeping(h)]
          /\ UNCHANGED last_broadcast
  /\ UNCHANGED <<listener_started, listening, discovered_peers, sent, rushed, clock>>

\* The message goes out, or fails, which the request ignores. It comes back to
\* our own listener, which knows it by its cookie.
Broadcast(c) ==
  /\ lpd_calls[c].pc = "send"
  /\ LET h == lpd_calls[c].infohash IN
     /\ \/ /\ sent' = [sent EXCEPT ![h] = clock]
           /\ rushed' = (rushed \/ (sent[h] # Never /\ clock - sent[h] < min_broadcast_interval))
        \/ UNCHANGED <<sent, rushed>>
     /\ lpd_calls' = [lpd_calls EXCEPT ![c] = sleeping(h)]
  /\ UNCHANGED <<listener_started, listening, last_broadcast, discovered_peers, clock>>

\* The wait is over: what was heard for the infohash is returned, expired or not.
Collect(c) ==
  /\ lpd_calls[c].pc = "wait" /\ clock >= lpd_calls[c].wakes
  /\ Ends(c)
  /\ UNCHANGED <<listener_started, listening, last_broadcast, discovered_peers, sent, rushed, clock>>

\* The listener hears a neighbour. Only now are the expired peers of this
\* infohash dropped.
Hear(h, n) ==
  /\ listening
  /\ LET heard == discovered_peers[h]
         live == {m \in DOMAIN heard \ {n} : clock - heard[m] < peer_ttl}
     IN  discovered_peers' = [discovered_peers EXCEPT ![h] =
           [m \in live \cup {n} |-> IF m = n THEN clock ELSE heard[m]]]
  /\ UNCHANGED <<listener_started, listening, last_broadcast, lpd_calls, sent, rushed, clock>>

\* Time passes when every request is idle or waits.
Tick ==
  /\ clock < LpdMaxTime
  /\ \A c \in Call : lpd_calls[c].pc \in {"idle", "wait"}
  /\ \A c \in Call : lpd_calls[c].pc = "wait" => clock < lpd_calls[c].wakes
  /\ clock' = clock + 1
  /\ UNCHANGED <<listener_started, listening, last_broadcast, discovered_peers,
                 lpd_calls, sent, rushed>>

Next ==
  \/ \E c \in Call : \/ \E h \in Infohash : Request(c, h)
                     \/ StartListener(c) \/ CheckLimit(c) \/ Broadcast(c) \/ Collect(c)
  \/ \E h \in Infohash, n \in Neighbour : Hear(h, n)
  \/ Tick

-----------------------------------------------------------------------------
\* Two broadcasts for one infohash are min_broadcast_interval apart, also when
\* several requests ask for it at the same time.
BroadcastsSpaced == ~rushed

=============================================================================
