------------------------- MODULE DiscoverersProofs -------------------------
(***************************************************************************)
(* Theorems about the discoverers with a protocol of their own, for every  *)
(* value of their constants: peer exchange, local peer discovery, the list *)
(* of trackers and the UDP tracker client. A step of the composition is a  *)
(* step of one of them and leaves the variables of the others alone.       *)
(***************************************************************************)
EXTENDS Discoverers, Sequences, TLAPS

\* Every step of the composition is, for each discoverer, a step of it or one
\* that leaves it alone.
LEMMA DiscoverersStep ==
  ASSUME [Next]_discoverersVars
  PROVE  /\ [Exchange!Next]_exchangeVars
         /\ [Local!Next]_localVars
         /\ [Tracker!Next]_trackerVars
         /\ [Messages!Next]_messageVars
         /\ [List!Next]_listVars
<1>1. CASE UNCHANGED discoverersVars
  BY <1>1 DEF discoverersVars
<1>2. CASE part = "exchange" /\ Exchange!Next /\ Still("exchange")
  BY <1>2 DEF Still
<1>3. CASE part = "local" /\ Local!Next /\ Still("local")
  BY <1>3 DEF Still
<1>4. CASE part = "tracker" /\ Tracker!Next /\ Still("tracker")
  BY <1>4 DEF Still
<1>5. CASE part = "messages" /\ Messages!Next /\ Still("messages")
  BY <1>5 DEF Still
<1>6. CASE part = "list" /\ List!Next /\ Still("list")
  BY <1>6 DEF Still
<1> QED
  BY <1>1, <1>2, <1>3, <1>4, <1>5, <1>6 DEF Next

-----------------------------------------------------------------------------
(* Pex.                                                                    *)

\* A step of an exchange or of a request changes records of connections, but
\* neither adds a connection nor touches the history of those removed.
LEMMA ExchangesAddNothing ==
  ASSUME NEW t \in Task,
         \/ Exchange!Discover(t) \/ Exchange!Return(t) \/ Exchange!DropRequest(t)
         \/ \E p \in Peer :
              \/ Exchange!ExchangeFails(t, p) \/ Exchange!Connects(t, p)
              \/ \E b \in BOOLEAN : Exchange!Handshake(t, p, b)
              \/ Exchange!SkipMessage(t, p)
              \/ \E id \in Exchange!ut_pex_ids : Exchange!ExtensionHandshake(t, p, id)
              \/ Exchange!SendKnown(t, p)
              \/ \E id \in PeerIds \cup {OurId}, added \in Exchange!added_peers :
                   Exchange!ReceivePex(t, p, id, added)
              \/ Exchange!ReceiveEnds(t, p)
              \/ Exchange!Join(t, p)
  PROVE  wanted' = wanted /\ DOMAIN connected_peers' = DOMAIN connected_peers
<1>1. CASE Exchange!Discover(t) \/ Exchange!Return(t) \/ Exchange!DropRequest(t)
  BY <1>1 DEF Exchange!Discover, Exchange!Return, Exchange!DropRequest
<1>2. ASSUME NEW p, NEW record, Exchange!Note(p, record)
      PROVE  DOMAIN connected_peers' = DOMAIN connected_peers
  BY <1>2 DEF Exchange!Note
<1>3. ASSUME NEW p \in Peer,
             \/ Exchange!ExchangeFails(t, p) \/ Exchange!Connects(t, p)
             \/ Exchange!SendKnown(t, p) \/ Exchange!Join(t, p)
      PROVE  wanted' = wanted /\ DOMAIN connected_peers' = DOMAIN connected_peers
  BY <1>3 DEF Exchange!ExchangeFails, Exchange!Connects, Exchange!SendKnown, Exchange!Join
<1>4. ASSUME NEW p \in Peer, NEW b \in BOOLEAN, Exchange!Handshake(t, p, b)
      PROVE  wanted' = wanted /\ DOMAIN connected_peers' = DOMAIN connected_peers
  BY <1>2, <1>4 DEF Exchange!Handshake, Exchange!Refused
<1>5. ASSUME NEW p \in Peer, Exchange!SkipMessage(t, p)
      PROVE  wanted' = wanted /\ DOMAIN connected_peers' = DOMAIN connected_peers
  BY <1>2, <1>5 DEF Exchange!SkipMessage, Exchange!Refused
<1>6. ASSUME NEW p \in Peer, NEW id, Exchange!ExtensionHandshake(t, p, id)
      PROVE  wanted' = wanted /\ DOMAIN connected_peers' = DOMAIN connected_peers
  BY <1>2, <1>6 DEF Exchange!ExtensionHandshake, Exchange!Refused
<1>7. ASSUME NEW p \in Peer, NEW id, NEW added,
             Exchange!ReceivePex(t, p, id, added) \/ Exchange!ReceiveEnds(t, p)
      PROVE  wanted' = wanted /\ DOMAIN connected_peers' = DOMAIN connected_peers
  BY <1>2, <1>7 DEF Exchange!ReceivePex, Exchange!ReceiveEnds, Exchange!Exchanged
<1> QED
  BY <1>1, <1>3, <1>4, <1>5, <1>6, <1>7

\* A peer whose connection was removed stays out until it is added again, for
\* any number of exchanges under way with it (exchange_with_peer,
\* remove_connected_peer in pex/client.rs).
THEOREM RemovedStaysOut == Spec => []DisconnectedStayOut
<1>1. Init => DisconnectedStayOut
  BY DEF Init, Exchange!Init, DisconnectedStayOut, Exchange!DisconnectedStayOut
<1>2. DisconnectedStayOut /\ [Exchange!Next]_exchangeVars => DisconnectedStayOut'
  <2> SUFFICES ASSUME DisconnectedStayOut, [Exchange!Next]_exchangeVars
               PROVE  DisconnectedStayOut'
    OBVIOUS
  <2> USE DEF DisconnectedStayOut, Exchange!DisconnectedStayOut
  <2>1. CASE UNCHANGED exchangeVars \/ Exchange!Tick
    BY <2>1 DEF exchangeVars, Exchange!Tick
  <2>2. ASSUME NEW p \in Peer, Exchange!AddConnectedPeer(p) PROVE DisconnectedStayOut'
    BY <2>2 DEF Exchange!AddConnectedPeer
  <2>3. ASSUME NEW p \in Peer, Exchange!RemoveConnectedPeer(p) PROVE DisconnectedStayOut'
    BY <2>3 DEF Exchange!RemoveConnectedPeer, Exchange!Keep
  <2>4. ASSUME wanted' = wanted, DOMAIN connected_peers' = DOMAIN connected_peers
        PROVE  DisconnectedStayOut'
    BY <2>4
  <2> QED
    BY <2>1, <2>2, <2>3, <2>4, ExchangesAddNothing DEF Exchange!Next
<1>3. DisconnectedStayOut /\ [Next]_discoverersVars => DisconnectedStayOut'
  BY <1>2, DiscoverersStep
<1> QED
  BY <1>1, <1>3, PTL DEF Spec

-----------------------------------------------------------------------------
(* Lpd.                                                                    *)

Sends(c, h) == lpd_calls[c].pc = "send" /\ lpd_calls[c].infohash = h

LpdType ==
  /\ clock \in Nat
  /\ last_broadcast \in [Infohash -> Nat \cup {-1}]
  /\ sent \in [Infohash -> Nat \cup {-1}]
  /\ lpd_calls \in [Call -> {Local!idle}
                      \cup [pc : {"bind", "check", "send"}, infohash : Infohash]
                      \cup [pc : {"wait"}, infohash : Infohash, wakes : Nat]]

\* A request that was let through has the moment to itself: the time is
\* noted, the message before is an interval ago, and no other request has
\* been let through for the infohash.
LpdInv ==
  /\ LpdType
  /\ \A h \in Infohash : sent[h] <= last_broadcast[h] /\ last_broadcast[h] <= clock
  /\ \A c \in Call, h \in Infohash : Sends(c, h) =>
       /\ last_broadcast[h] = clock
       /\ sent[h] # -1 => clock - sent[h] >= min_broadcast_interval
  /\ min_broadcast_interval > 0 =>
       \A h \in Infohash : \A c, d \in Call : Sends(c, h) /\ Sends(d, h) => c = d
  /\ BroadcastsSpaced

\* It holds at the start.
LEMMA LpdInvInit == Init => LpdInv
BY LpdAssumption
   DEF Init, Local!Init, LpdInv, LpdType, Local!idle, Local!Never, Sends, BroadcastsSpaced,
       Local!BroadcastsSpaced

\* Every step of local peer discovery keeps it.
LEMMA LpdInvNext == LpdInv /\ [Local!Next]_localVars => LpdInv'
<1> SUFFICES ASSUME LpdInv, [Local!Next]_localVars PROVE LpdInv'
  OBVIOUS
<1> USE LpdAssumption DEF LpdInv, LpdType, BroadcastsSpaced, Local!BroadcastsSpaced, Local!idle
<1>1. CASE UNCHANGED localVars
  BY <1>1 DEF localVars, Sends
<1>2. ASSUME NEW c \in Call, NEW h \in Infohash, Local!Request(c, h) PROVE LpdInv'
  BY <1>2 DEF Local!Request, Sends
<1>3. ASSUME NEW c \in Call, Local!StartListener(c) PROVE LpdInv'
  BY <1>3 DEF Local!StartListener, Local!Goes, Local!Ends, Sends
<1>4. ASSUME NEW c \in Call, Local!CheckLimit(c) PROVE LpdInv'
  BY <1>4 DEF Local!CheckLimit, Local!Goes, Local!due, Local!sleeping, Local!Never, Sends
<1>5. ASSUME NEW c \in Call, Local!Broadcast(c) PROVE LpdInv'
  <2>0. PICK h \in Infohash : h = lpd_calls[c].infohash
    BY <1>5 DEF Local!Broadcast
  <2>1. h \in Infohash /\ Sends(c, h) /\ clock \in Nat
    BY <1>5, <2>0 DEF Local!Broadcast, Sends
  <2>2. /\ lpd_calls' = [lpd_calls EXCEPT ![c] = Local!sleeping(h)]
        /\ UNCHANGED <<last_broadcast, clock>>
        /\ sent' = sent \/ sent' = [sent EXCEPT ![h] = clock]
    BY <1>5, <2>0 DEF Local!Broadcast
  <2>3. ~rushed'
    <3>1. sent[h] # -1 => ~(clock - sent[h] < min_broadcast_interval)
      <4>1. sent[h] # -1 => clock - sent[h] >= min_broadcast_interval
        BY <2>1
      <4>2. sent[h] \in Int
        BY <2>1
      <4> QED
        BY <2>1, <4>1, <4>2
    <3>2. rushed' = rushed \/ rushed' = (rushed \/ (sent[h] # -1 /\ clock - sent[h] < min_broadcast_interval))
      BY <1>5, <2>0 DEF Local!Broadcast, Local!Never
    <3>3. ~rushed
      OBVIOUS
    <3> HIDE DEF LpdInv
    <3> QED
      BY <3>1, <3>2, <3>3, Zenon
  <2>4. LpdType'
    BY <2>1, <2>2 DEF Local!sleeping
  <2>5. /\ sent'[h] = sent[h] \/ sent'[h] = clock
        /\ \A g \in Infohash \ {h} : sent'[g] = sent[g]
    BY <2>1, <2>2
  <2>6. /\ ~Sends(c, h)'
        /\ \A d \in Call, g \in Infohash : Sends(d, g)' => d # c /\ Sends(d, g)
    BY <2>1, <2>2 DEF Sends, Local!sleeping
  <2>7. ASSUME NEW d \in Call, Sends(d, h)', min_broadcast_interval > 0 PROVE FALSE
    <3>1. d # c /\ Sends(d, h)
      BY <2>1, <2>6, <2>7
    <3> QED
      BY <2>1, <2>7, <3>1
  <2>8. \A g \in Infohash : (sent[g] <= last_broadcast[g] /\ last_broadcast[g] <= clock)'
    BY <2>1, <2>2, <2>5
  <2>9. \A d \in Call, g \in Infohash : Sends(d, g)' =>
          /\ last_broadcast'[g] = clock'
          /\ sent'[g] # -1 => clock' - sent'[g] >= min_broadcast_interval
    <3> SUFFICES ASSUME NEW d \in Call, NEW g \in Infohash, Sends(d, g)'
                 PROVE  /\ last_broadcast'[g] = clock'
                        /\ sent'[g] # -1 => clock' - sent'[g] >= min_broadcast_interval
      OBVIOUS
    <3>1. Sends(d, g)
      BY <2>6
    <3>2. CASE g # h
      BY <3>1, <3>2, <2>2, <2>5
    <3>3. CASE g = h /\ min_broadcast_interval = 0
      BY <3>1, <3>3, <2>1, <2>2, <2>5
    <3>4. CASE g = h /\ min_broadcast_interval > 0
      BY <3>4, <2>7
    <3> QED
      BY <3>2, <3>3, <3>4
  <2>10. min_broadcast_interval > 0 =>
           \A g \in Infohash : \A d, e \in Call : Sends(d, g)' /\ Sends(e, g)' => d = e
    BY <2>6
  <2> QED
    BY <2>3, <2>4, <2>8, <2>9, <2>10
<1>6. ASSUME NEW c \in Call, Local!Collect(c) PROVE LpdInv'
  BY <1>6 DEF Local!Collect, Local!Ends, Sends
<1>7. ASSUME NEW h \in Infohash, NEW n \in Neighbour, Local!Hear(h, n) PROVE LpdInv'
  BY <1>7 DEF Local!Hear, Sends
<1>8. CASE Local!Tick
  BY <1>8 DEF Local!Tick, Sends
<1> QED
  BY <1>1, <1>2, <1>3, <1>4, <1>5, <1>6, <1>7, <1>8 DEF Local!Next

\* Two broadcasts for one infohash are min_broadcast_interval apart, however
\* many requests ask for it at the same time (broadcast_query in
\* lpd/client.rs).
THEOREM BroadcastsKeepDistance == Spec => []BroadcastsSpaced
<1>1. LpdInv /\ [Next]_discoverersVars => LpdInv'
  BY LpdInvNext, DiscoverersStep
<1>2. LpdInv => BroadcastsSpaced
  BY DEF LpdInv
<1> QED
  BY <1>1, <1>2, LpdInvInit, PTL DEF Spec

-----------------------------------------------------------------------------
(* UdpTrackerClient.                                                       *)

pending == IF waiting THEN wait ELSE 0

\* What a stage has taken and still may wait fits its timeout, apart from the
\* time lost outside of the waits; before it there was one stage at most.
UdpInv ==
  /\ total \in Nat /\ delays \in Nat /\ elapsed \in Nat /\ wait \in Nat /\ timeout \in Nat
  /\ stage \in {"connect", "announce", "returned", "failed"}
  /\ stage = "connect" => total = elapsed /\ total + pending <= overall_timeout + delays
  /\ stage = "announce" => /\ total - elapsed <= overall_timeout + delays
                           /\ total + pending <= 2 * overall_timeout + delays
  /\ CallInTime

\* It holds at the start.
LEMMA UdpInvInit == Init => UdpInv
BY UdpAssumption DEF Init, Tracker!Init, UdpInv, pending, CallInTime, Tracker!CallInTime

\* Every step of a call keeps it.
LEMMA UdpInvNext == UdpInv /\ [Tracker!Next]_trackerVars => UdpInv'
<1> SUFFICES ASSUME UdpInv, [Tracker!Next]_trackerVars PROVE UdpInv'
  OBVIOUS
<1> USE UdpAssumption DEF UdpInv, CallInTime, Tracker!CallInTime, pending
<1>1. CASE UNCHANGED trackerVars
  BY <1>1 DEF trackerVars
<1>2. CASE Tracker!Send
  <2>1. /\ Tracker!calling /\ ~waiting /\ elapsed <= overall_timeout
        /\ wait' = Tracker!Min({timeout, overall_timeout - elapsed}) /\ waiting' = TRUE
        /\ UNCHANGED <<stage, timeout, elapsed, total, delays>>
    BY <1>2 DEF Tracker!Send, Tracker!wait_timeout
  <2>2. wait' \in Nat /\ wait' <= overall_timeout - elapsed
    <3> DEFINE S == {timeout, overall_timeout - elapsed}
    <3>1. overall_timeout - elapsed \in Nat /\ timeout \in Nat
      BY <2>1
    <3>2. \E x \in S : \A y \in S : x <= y
      BY <3>1
    <3>3. Tracker!Min(S) \in S /\ \A y \in S : Tracker!Min(S) <= y
      BY <3>2 DEF Tracker!Min
    <3> QED
      BY <2>1, <3>1, <3>3
  <2> QED
    BY <2>1, <2>2 DEF Tracker!calling
<1>3. CASE Tracker!GiveUp \/ Tracker!SendFails
  BY <1>3 DEF Tracker!GiveUp, Tracker!SendFails
<1>4. CASE Tracker!Again
  BY <1>4 DEF Tracker!Again
<1>5. ASSUME NEW m, Tracker!ReceiveForeign(m) PROVE UdpInv'
  BY <1>5 DEF Tracker!ReceiveForeign
<1>6. ASSUME NEW m, Tracker!ReceiveConnect(m) PROVE UdpInv'
  BY <1>6 DEF Tracker!ReceiveConnect, Tracker!Enter
<1>7. ASSUME NEW m, Tracker!ReceiveAnnounce(m) PROVE UdpInv'
  BY <1>7 DEF Tracker!ReceiveAnnounce
<1>8. CASE Tracker!Tick
  BY <1>8 DEF Tracker!Tick, Tracker!calling
<1> QED
  BY <1>1, <1>2, <1>3, <1>4, <1>5, <1>6, <1>7, <1>8 DEF Tracker!Next

\* A call takes at most two overall timeouts, besides the time lost outside of
\* its waits, for any number of retries and whatever packets come
\* (send_with_retry, connect and do_announce in tracker/udp.rs).
THEOREM CallEndsInTime == Spec => []CallInTime
<1>1. UdpInv /\ [Next]_discoverersVars => UdpInv'
  BY UdpInvNext, DiscoverersStep
<1>2. UdpInv => CallInTime
  BY DEF UdpInv
<1> QED
  BY <1>1, <1>2, UdpInvInit, PTL DEF Spec

-----------------------------------------------------------------------------
(* TrackerClient.                                                          *)

\* The state of a tracker, whatever the bound of the exploration.
TrackerState == [consecutive_failures : Nat, age : 0..cooldown_duration, disabled : BOOLEAN]

\* The flag of one tracker agrees with its count.
Agrees(s) == s.disabled <=> s.consecutive_failures >= max_consecutive_failures

ListInv == states \in [List!Tracker -> TrackerState] /\ DisabledIffFailing

\* Clearing the flag and the count together keeps them in agreement.
LEMMA ClearedAgrees ==
  ASSUME NEW s \in TrackerState
  PROVE  LET r == [s EXCEPT !.disabled = FALSE, !.consecutive_failures = 0]
         IN  r \in TrackerState /\ Agrees(r)
<1> DEFINE r == [s EXCEPT !.disabled = FALSE, !.consecutive_failures = 0]
<1>1. r.consecutive_failures = 0 /\ r.disabled = FALSE
  BY DEF TrackerState
<1>2. r \in TrackerState
  BY DEF TrackerState
<1>3. ~(r.consecutive_failures >= max_consecutive_failures)
  BY <1>1, TrackerClientAssumption
<1> QED BY <1>1, <1>2, <1>3 DEF Agrees

\* So does the end of a cooldown.
LEMMA RecoverAgrees ==
  ASSUME ListInv, NEW t \in List!Tracker
  PROVE  LET s == List!recover_cooldown_trackers(states)[t] IN s \in TrackerState /\ Agrees(s)
<1> DEFINE s == states[t]
<1>1. s \in TrackerState /\ Agrees(s)
  BY DEF ListInv, DisabledIffFailing, List!DisabledIffFailing, Agrees
<1>2. List!recover_cooldown_trackers(states)[t] =
        IF s.disabled /\ s.age >= cooldown_duration
        THEN [s EXCEPT !.disabled = FALSE, !.consecutive_failures = 0] ELSE s
  BY DEF List!recover_cooldown_trackers
<1> HIDE DEF s
<1> QED BY <1>1, <1>2, ClearedAgrees

\* A result, however late, sets the flag by the count it leaves: a failure of a
\* disabled tracker finds the count at the threshold already.
LEMMA RecordAgrees ==
  ASSUME NEW s \in TrackerState, Agrees(s), NEW success
  PROVE  List!record_result(s, success) \in TrackerState /\ Agrees(List!record_result(s, success))
<1>1. CASE success
  <2>1. List!record_result(s, success) = [s EXCEPT !.disabled = FALSE, !.consecutive_failures = 0]
    BY <1>1 DEF List!record_result, TrackerState
  <2> QED BY <2>1, ClearedAgrees
<1>2. CASE ~success
  <2> DEFINE n == s.consecutive_failures + 1
             flag == s.disabled \/ n >= max_consecutive_failures
             r == [consecutive_failures |-> n, age |-> 0, disabled |-> flag]
  <2>1. List!record_result(s, success) = r
    BY <1>2 DEF List!record_result, TrackerState
  <2>2. n \in Nat /\ 0 \in 0..cooldown_duration /\ flag \in BOOLEAN
    BY TrackerClientAssumption DEF TrackerState
  <2>3. r \in TrackerState
    BY <2>2 DEF TrackerState
  <2>4. flag <=> n >= max_consecutive_failures
    BY TrackerClientAssumption DEF Agrees, TrackerState
  <2>5. r.disabled = flag /\ r.consecutive_failures = n
    OBVIOUS
  <2>6. Agrees(r)
    BY <2>4, <2>5 DEF Agrees
  <2> QED BY <2>1, <2>3, <2>6
<1> QED BY <1>1, <1>2

\* A state whose trackers all agree satisfies the invariant.
LEMMA FromTrackers ==
  ASSUME NEW f, f = [t \in List!Tracker |-> f[t]],
         \A t \in List!Tracker : f[t] \in TrackerState /\ Agrees(f[t]), states' = f
  PROVE  ListInv'
  BY DEF ListInv, DisabledIffFailing, List!DisabledIffFailing, Agrees

\* The recovery at the start of discover_peers and of scrape.
LEMMA RecoverStep ==
  ASSUME ListInv, states' = List!recover_cooldown_trackers(states)
  PROVE  ListInv'
<1> DEFINE f == List!recover_cooldown_trackers(states)
<1>1. f = [t \in List!Tracker |-> f[t]]
  BY DEF List!recover_cooldown_trackers
<1>2. \A t \in List!Tracker : f[t] \in TrackerState /\ Agrees(f[t])
  BY RecoverAgrees
<1> HIDE DEF f
<1>3. states' = f
  BY DEF f
<1> QED BY <1>1, <1>2, <1>3, FromTrackers

\* The result a call records.
LEMMA RecordStep ==
  ASSUME ListInv, NEW c \in Call, List!Record(c)
  PROVE  ListInv'
<1> DEFINE t0 == Head(call[c].todo)
           r == List!record_result(states[t0], call[c].results[t0])
<1>1. states' = [states EXCEPT ![t0] = r]
  BY DEF List!Record
<1>2. ASSUME t0 \in List!Tracker PROVE r \in TrackerState /\ Agrees(r)
  <2>1. states[t0] \in TrackerState /\ Agrees(states[t0])
    BY <1>2 DEF ListInv, DisabledIffFailing, List!DisabledIffFailing, Agrees
  <2> QED BY <2>1, RecordAgrees
<1> HIDE DEF t0, r
<1>3. \A t \in List!Tracker : states'[t] \in TrackerState /\ Agrees(states'[t])
  BY <1>1, <1>2 DEF ListInv, DisabledIffFailing, List!DisabledIffFailing, Agrees
<1>4. states' = [t \in List!Tracker |-> states'[t]]
  BY <1>1 DEF ListInv
<1> QED BY <1>3, <1>4, FromTrackers

\* Time only ages the last failure.
LEMMA TickStep ==
  ASSUME ListInv, List!Tick
  PROVE  ListInv'
<1>1. states' = [t \in List!Tracker |->
                  [states[t] EXCEPT !.age = IF @ < cooldown_duration THEN @ + 1 ELSE @]]
  BY DEF List!Tick
<1>2. \A t \in List!Tracker : states'[t] \in TrackerState /\ Agrees(states'[t])
  BY <1>1, TrackerClientAssumption DEF ListInv, DisabledIffFailing, List!DisabledIffFailing, Agrees, TrackerState
<1> QED BY <1>1, <1>2, FromTrackers

\* Every step of the tracker discoverer keeps the agreement.
LEMMA ListInvNext == ListInv /\ [List!Next]_listVars => ListInv'
<1> SUFFICES ASSUME ListInv, [List!Next]_listVars PROVE ListInv'
  OBVIOUS
<1>1. CASE UNCHANGED states
  BY <1>1 DEF ListInv, DisabledIffFailing, List!DisabledIffFailing
<1>2. ASSUME NEW c \in Call, List!Discover(c) PROVE ListInv'
  BY <1>2, RecoverStep DEF List!Discover
<1>3. CASE List!Scrape
  BY <1>3, RecoverStep DEF List!Scrape
<1>4. ASSUME NEW c \in Call, NEW t, NEW ok, List!Finish(c, t, ok) PROVE UNCHANGED states
  BY <1>4 DEF List!Finish
<1>5. ASSUME NEW c \in Call, List!Timeout(c) PROVE UNCHANGED states
  BY <1>5 DEF List!Timeout
<1> QED
  BY <1>1, <1>2, <1>3, <1>4, <1>5, RecordStep, TickStep DEF List!Next, List!DiscoverSome, listVars

\* A tracker is disabled exactly when it has failed often enough in a row, for
\* any number of overlapping calls whose results come late (record_result,
\* recover_cooldown_trackers in tracker/client.rs).
THEOREM TrackerDisabledIffFailing == Spec => []DisabledIffFailing
<1>1. Init => ListInv
  BY TrackerClientAssumption
     DEF Init, List!Init, ListInv, TrackerState, DisabledIffFailing, List!DisabledIffFailing
<1>2. ListInv /\ [Next]_discoverersVars => ListInv'
  BY ListInvNext, DiscoverersStep
<1>3. ListInv => DisabledIffFailing
  BY DEF ListInv
<1> QED
  BY <1>1, <1>2, <1>3, PTL DEF Spec

=============================================================================
