------------------------ MODULE SuperTrackerProofs ------------------------
(* Proofs about SuperTracker, for all infohashes, clients, times to live    *)
(* and sweep intervals.                                                     *)
EXTENDS SuperTracker, TLAPS

\* Connection ids belong to ips that asked for one; so do packets that have
\* been verified and UDP peers. A packet comes from a UDP client.
ConnectedOnly ==
  /\ \A c \in DOMAIN connections : connections[c].ip \in connected
  /\ \A t \in tasks : t.addr \in UdpClient
  /\ StoredIpConnected

\* What the next sweep will find is younger than a time to live and a sweep.
YoungAtNextSweep ==
  /\ \A c \in DOMAIN connections : conn_sweep - connections[c].created_at < ConnTTL + SweepInterval
  /\ \A p \in DOMAIN peers : peer_sweep - peers[p] < PeerTTL + SweepInterval

\* The store has seen a UDP client when the client last announced itself.
SeenWhenTold ==
  /\ DOMAIN told \subseteq Infohash \X Addr \X {"udp", "http"}
  /\ told \in [DOMAIN told -> 0..now]
  /\ \A t \in DOMAIN told :
       t[3] = "udp" /\ now - told[t] < PeerTTL =>
         <<t[1], t[2]>> \in DOMAIN peers /\ peers[<<t[1], t[2]>>] = told[t]

IInv == TypeOK /\ ConnectedOnly /\ YoungAtNextSweep /\ SeenWhenTold

\* The constants as the provers want them.
LEMMA Constants ==
  /\ PeerTTL \in Nat /\ PeerTTL > 0 /\ ConnTTL \in Nat /\ ConnTTL > 0
  /\ SweepInterval \in Nat /\ SweepInterval > 0
  /\ MaxConn \in Nat /\ MaxTasks \in Nat /\ MaxTime \in Nat
  /\ HttpAddr \notin Addr
  BY SuperTrackerAssumption

\* The clock and the two alarms.
LEMMA Times ==
  ASSUME TypeOK
  PROVE  /\ now \in Nat /\ now <= MaxTime
         /\ conn_sweep \in Nat /\ now <= conn_sweep /\ conn_sweep <= now + SweepInterval
         /\ peer_sweep \in Nat /\ now <= peer_sweep /\ peer_sweep <= now + SweepInterval
  BY Constants DEF TypeOK

\* At the start everything is empty.
LEMMA InitIInv == Init => IInv
<1> SUFFICES ASSUME Init PROVE IInv
  OBVIOUS
<1> USE Constants
<1>1. TypeOK BY DEF Init, TypeOK
<1>2. ConnectedOnly BY DEF Init, ConnectedOnly, StoredIpConnected
<1>3. YoungAtNextSweep BY DEF Init, YoungAtNextSweep
<1>4. SeenWhenTold BY DEF Init, SeenWhenTold
<1> QED BY <1>1, <1>2, <1>3, <1>4 DEF IInv

\* A connection id of now is young at the next sweep.
LEMMA ConnectStep ==
  ASSUME IInv, NEW ip \in Ip, HandleConnect(ip)
  PROVE  IInv'
<1> USE Constants, Times
<1> DEFINE id == drawn + 1
           conn == [ip |-> ip, created_at |-> now]
<1>1. /\ drawn < MaxConn /\ drawn' = id /\ connected' = connected \cup {ip}
      /\ DOMAIN connections' = DOMAIN connections \cup {id}
      /\ \A c \in DOMAIN connections' : connections'[c] = IF c = id THEN conn ELSE connections[c]
      /\ connections' = [c \in DOMAIN connections' |-> connections'[c]]
      /\ UNCHANGED <<peers, tasks, conn_sweep, peer_sweep, told, now>>
  BY DEF HandleConnect, Put
<1>2. conn \in [ip : Ip, created_at : 0..now]
  BY DEF IInv
<1>3. TypeOK'
  BY <1>1, <1>2 DEF IInv, TypeOK
<1>4. ConnectedOnly'
  BY <1>1 DEF IInv, ConnectedOnly, StoredIpConnected
<1>5. conn_sweep - conn.created_at < ConnTTL + SweepInterval
  BY DEF IInv
<1>6. YoungAtNextSweep'
  BY <1>1, <1>5 DEF IInv, YoungAtNextSweep
<1>7. SeenWhenTold'
  BY <1>1 DEF IInv, SeenWhenTold
<1> QED BY <1>3, <1>4, <1>6, <1>7 DEF IInv

\* A packet with a connection id of its own ip comes from a connected ip.
LEMMA VerifyStep ==
  ASSUME IInv, NEW addr \in UdpClient, NEW id, NEW ih \in Infohash, NEW event \in Event,
         VerifyAnnounce(addr, id, ih, event)
  PROVE  IInv'
<1> DEFINE t0 == [ih |-> ih, addr |-> addr, event |-> event]
<1>1. /\ tasks' = tasks \cup {t0}
      /\ id \in DOMAIN connections /\ connections[id].ip = addr[1]
      /\ UNCHANGED <<connections, drawn, peers, conn_sweep, peer_sweep, connected, told, now>>
  BY DEF VerifyAnnounce, valid, connVars
<1>2. t0 \in [ih : Infohash, addr : Addr, event : Event]
  BY DEF Addr
<1>3. TypeOK'
  BY <1>1, <1>2 DEF IInv, TypeOK
<1>4. addr[1] \in connected
  BY <1>1 DEF IInv, ConnectedOnly
<1>5. ConnectedOnly'
  BY <1>1, <1>4 DEF IInv, ConnectedOnly, StoredIpConnected
<1>6. YoungAtNextSweep' /\ SeenWhenTold'
  BY <1>1 DEF IInv, YoungAtNextSweep, SeenWhenTold
<1> QED BY <1>3, <1>5, <1>6 DEF IInv

\* A UDP announce touches the store and the history at the same client, and
\* gives both the same time.
LEMMA StoreStep ==
  ASSUME IInv, NEW t0 \in tasks, StoreUdp(t0)
  PROVE  IInv'
<1> USE Constants, Times
<1> DEFINE p0 == <<t0.ih, t0.addr>>
           u0 == <<t0.ih, t0.addr, "udp">>
<1>1. /\ t0.ih \in Infohash /\ t0.addr \in UdpClient /\ t0.addr[1] \in connected
      /\ t0.addr \in Addr
  BY DEF IInv, TypeOK, ConnectedOnly, StoredIpConnected
<1>2. /\ tasks' \subseteq tasks
      /\ UNCHANGED <<connections, drawn, conn_sweep, peer_sweep, connected, now>>
  BY DEF StoreUdp, connVars
<1>3. CASE t0.event = "stopped"
  <2>1. /\ DOMAIN peers' = DOMAIN peers \ {p0} /\ \A p \in DOMAIN peers' : peers'[p] = peers[p]
        /\ peers' = [p \in DOMAIN peers' |-> peers'[p]]
        /\ DOMAIN told' = DOMAIN told \ {u0} /\ \A t \in DOMAIN told' : told'[t] = told[t]
        /\ told' = [t \in DOMAIN told' |-> told'[t]]
    BY <1>3 DEF StoreUdp, Store, Tell, Drop
  <2>2. TypeOK'
    BY <1>2, <2>1 DEF IInv, TypeOK
  <2>3. ConnectedOnly'
    BY <1>2, <2>1 DEF IInv, ConnectedOnly, StoredIpConnected
  <2>4. YoungAtNextSweep'
    BY <1>2, <2>1 DEF IInv, YoungAtNextSweep
  <2>5. ASSUME NEW t \in DOMAIN told', t[3] = "udp" PROVE <<t[1], t[2]>> # p0
    BY <2>1, <2>5 DEF IInv, SeenWhenTold
  <2>6. SeenWhenTold'
    BY <1>2, <2>1, <2>5 DEF IInv, SeenWhenTold
  <2> QED BY <2>2, <2>3, <2>4, <2>6 DEF IInv
<1>4. CASE t0.event # "stopped"
  <2>1. /\ DOMAIN peers' = DOMAIN peers \cup {p0}
        /\ \A p \in DOMAIN peers' : peers'[p] = IF p = p0 THEN now ELSE peers[p]
        /\ peers' = [p \in DOMAIN peers' |-> peers'[p]]
        /\ DOMAIN told' = DOMAIN told \cup {u0}
        /\ \A t \in DOMAIN told' : told'[t] = IF t = u0 THEN now ELSE told[t]
        /\ told' = [t \in DOMAIN told' |-> told'[t]]
    BY <1>4 DEF StoreUdp, Store, Tell, Put
  <2>2. TypeOK'
    BY <1>1, <1>2, <2>1 DEF IInv, TypeOK
  <2>3. ConnectedOnly'
    BY <1>1, <1>2, <2>1 DEF IInv, ConnectedOnly, StoredIpConnected
  <2>4. YoungAtNextSweep'
    BY <1>2, <2>1 DEF IInv, YoungAtNextSweep
  <2>5. ASSUME NEW t \in DOMAIN told, t[3] = "udp", t # u0 PROVE <<t[1], t[2]>> # p0
    BY <2>5 DEF IInv, SeenWhenTold
  <2>6. SeenWhenTold'
    BY <1>1, <1>2, <2>1, <2>5 DEF IInv, SeenWhenTold
  <2> QED BY <2>2, <2>3, <2>4, <2>6 DEF IInv
<1> QED BY <1>3, <1>4

\* An HTTP announce writes under HttpAddr, which is no UDP client.
LEMMA HttpStep ==
  ASSUME IInv, NEW client \in HttpClient, NEW ih \in Infohash, NEW event \in Event,
         HandleHttpAnnounce(client, ih, event)
  PROVE  IInv'
<1> USE Constants, Times
<1> DEFINE p0 == <<ih, HttpAddr>>
           h0 == <<ih, client, "http">>
<1>1. UNCHANGED <<connections, drawn, tasks, conn_sweep, peer_sweep, connected, now>>
  BY DEF HandleHttpAnnounce, connVars
<1>2. client \in Addr
  BY DEF Addr
<1>3. \/ /\ DOMAIN peers' = DOMAIN peers \ {p0} /\ \A p \in DOMAIN peers' : peers'[p] = peers[p]
         /\ DOMAIN told' = DOMAIN told \ {h0} /\ \A t \in DOMAIN told' : told'[t] = told[t]
      \/ /\ DOMAIN peers' = DOMAIN peers \cup {p0}
         /\ \A p \in DOMAIN peers' : peers'[p] = IF p = p0 THEN now ELSE peers[p]
         /\ DOMAIN told' = DOMAIN told \cup {h0}
         /\ \A t \in DOMAIN told' : told'[t] = IF t = h0 THEN now ELSE told[t]
  BY DEF HandleHttpAnnounce, Store, Tell, Put, Drop
<1>4. peers' = [p \in DOMAIN peers' |-> peers'[p]] /\ told' = [t \in DOMAIN told' |-> told'[t]]
  BY DEF HandleHttpAnnounce, Store, Tell, Put, Drop
<1>5. TypeOK'
  BY <1>1, <1>3, <1>4 DEF IInv, TypeOK
<1>6. ConnectedOnly'
  BY <1>1, <1>3 DEF IInv, ConnectedOnly, StoredIpConnected
<1>7. YoungAtNextSweep'
  BY <1>1, <1>3 DEF IInv, YoungAtNextSweep
<1>8. DOMAIN told' \subseteq Infohash \X Addr \X {"udp", "http"} /\ told' \in [DOMAIN told' -> 0..now']
  BY <1>1, <1>2, <1>3, <1>4 DEF IInv, SeenWhenTold
<1>9. ASSUME NEW t \in DOMAIN told', t[3] = "udp"
      PROVE  /\ t \in DOMAIN told /\ told'[t] = told[t]
             /\ <<t[1], t[2]>> # p0
  BY <1>3, <1>8, <1>9 DEF IInv, SeenWhenTold
<1>10. SeenWhenTold'
  BY <1>1, <1>3, <1>8, <1>9 DEF IInv, SeenWhenTold
<1> QED BY <1>5, <1>6, <1>7, <1>10 DEF IInv

\* A sweep leaves what is younger than its time to live, and so younger than a
\* time to live and a sweep at the next one.
LEMMA SweepConnectionsStep ==
  ASSUME IInv, SweepConnections
  PROVE  IInv'
<1> USE Constants, Times
<1>1. /\ DOMAIN connections' \subseteq DOMAIN connections
      /\ \A c \in DOMAIN connections' : /\ connections'[c] = connections[c]
                                        /\ ~(now - connections[c].created_at >= ConnTTL)
      /\ connections' = [c \in DOMAIN connections' |-> connections'[c]]
      /\ conn_sweep' = now + SweepInterval
      /\ UNCHANGED <<drawn, peers, tasks, peer_sweep, connected, told, now>>
  BY DEF SweepConnections, Drop
<1>2. \A c \in DOMAIN connections : connections[c].created_at \in 0..now
  BY DEF IInv, TypeOK
<1>3. TypeOK'
  BY <1>1 DEF IInv, TypeOK
<1>4. ConnectedOnly'
  BY <1>1 DEF IInv, ConnectedOnly, StoredIpConnected
<1>5. YoungAtNextSweep'
  BY <1>1, <1>2 DEF IInv, YoungAtNextSweep
<1>6. SeenWhenTold'
  BY <1>1 DEF IInv, SeenWhenTold
<1> QED BY <1>3, <1>4, <1>5, <1>6 DEF IInv

\* The same for peers; a client that announced itself within its time to live
\* was seen then, and stays.
LEMMA SweepPeersStep ==
  ASSUME IInv, SweepPeers
  PROVE  IInv'
<1> USE Constants, Times
<1>1. /\ DOMAIN peers' = DOMAIN peers \ {p \in DOMAIN peers : now - peers[p] >= PeerTTL}
      /\ \A p \in DOMAIN peers' : peers'[p] = peers[p]
      /\ peers' = [p \in DOMAIN peers' |-> peers'[p]]
      /\ peer_sweep' = now + SweepInterval
      /\ UNCHANGED <<connections, drawn, tasks, conn_sweep, connected, told, now>>
  BY DEF SweepPeers, Drop, connVars
<1>2. \A p \in DOMAIN peers : peers[p] \in 0..now
  BY DEF IInv, TypeOK
<1>3. TypeOK'
  BY <1>1 DEF IInv, TypeOK
<1>4. ConnectedOnly'
  BY <1>1 DEF IInv, ConnectedOnly, StoredIpConnected
<1>5. YoungAtNextSweep'
  BY <1>1, <1>2 DEF IInv, YoungAtNextSweep
<1>6. SeenWhenTold'
  BY <1>1, <1>2 DEF IInv, SeenWhenTold
<1> QED BY <1>3, <1>4, <1>5, <1>6 DEF IInv

\* Time makes announcements older and passes no alarm.
LEMMA TickStep ==
  ASSUME IInv, Tick
  PROVE  IInv'
<1> USE Constants, Times
<1>1. /\ now < MaxTime /\ now < conn_sweep /\ now < peer_sweep /\ now' = now + 1
      /\ UNCHANGED <<connections, drawn, peers, tasks, conn_sweep, peer_sweep, connected, told>>
  BY DEF Tick, connVars
<1>2. 0..now \subseteq 0..now'
  BY <1>1 DEF IInv
<1>3. TypeOK'
  <2>1. connections \in [DOMAIN connections -> [ip : Ip, created_at : 0..now']]
    BY <1>2 DEF IInv, TypeOK
  <2>2. peers \in [DOMAIN peers -> 0..now']
    BY <1>2 DEF IInv, TypeOK
  <2> QED BY <1>1, <2>1, <2>2 DEF IInv, TypeOK
<1>4. ConnectedOnly' /\ YoungAtNextSweep'
  BY <1>1 DEF IInv, ConnectedOnly, StoredIpConnected, YoungAtNextSweep
<1>5. \A t \in DOMAIN told : told[t] \in 0..now
  BY DEF IInv, SeenWhenTold
<1>6. told \in [DOMAIN told -> 0..now']
  BY <1>2 DEF IInv, SeenWhenTold
<1>7. SeenWhenTold'
  BY <1>1, <1>5, <1>6 DEF IInv, SeenWhenTold
<1> QED BY <1>3, <1>4, <1>7 DEF IInv

\* The invariant is inductive.
THEOREM Inductive == Spec => []IInv
<1>1. IInv /\ [Next]_vars => IInv'
  <2> SUFFICES ASSUME IInv, [Next]_vars PROVE IInv'
    OBVIOUS
  <2>1. CASE UNCHANGED vars
    BY <2>1 DEF vars, connVars, IInv, TypeOK, ConnectedOnly, StoredIpConnected,
                YoungAtNextSweep, SeenWhenTold
  <2>2. CASE Next
    BY <2>2, ConnectStep, VerifyStep, StoreStep, HttpStep, SweepConnectionsStep,
       SweepPeersStep, TickStep DEF Next
  <2> QED BY <2>1, <2>2
<1> QED BY <1>1, InitIInv, PTL DEF Spec

\* Type correctness of the tracker.
THEOREM TrackerTypeCorrect == Spec => []TypeOK
<1>1. IInv => TypeOK BY DEF IInv
<1> QED BY <1>1, Inductive, PTL

\* Only ips that asked for a connection are stored over UDP.
THEOREM TrackerStoredIpConnected == Spec => []StoredIpConnected
<1>1. IInv => StoredIpConnected BY DEF IInv, ConnectedOnly
<1> QED BY <1>1, Inductive, PTL

\* Connection ids and peers live for a time to live and one sweep at most.
THEOREM TrackerExpires == Spec => [](ConnectionsExpire /\ PeersExpire)
<1>1. IInv => ConnectionsExpire /\ PeersExpire
  <2> SUFFICES ASSUME IInv PROVE ConnectionsExpire /\ PeersExpire
    OBVIOUS
  <2>1. \A c \in DOMAIN connections : connections[c].created_at \in 0..now
    BY DEF IInv, TypeOK
  <2>2. \A p \in DOMAIN peers : peers[p] \in 0..now
    BY DEF IInv, TypeOK
  <2>3. IInv => TypeOK BY DEF IInv
  <2> QED BY <2>1, <2>2, <2>3, Times, Constants DEF IInv, YoungAtNextSweep, ConnectionsExpire, PeersExpire
<1> QED BY <1>1, Inductive, PTL

\* A client that announced itself over UDP stays until it stops or expires.
THEOREM TrackerKeepsUdpClients == Spec => []UdpClientKept
<1>1. IInv => UdpClientKept BY DEF IInv, SeenWhenTold, UdpClientKept
<1> QED BY <1>1, Inductive, PTL

-----------------------------------------------------------------------------
(* The tracker implements a swarm.                                          *)

Place == [c \in Client |-> IF c[3] = "udp" THEN <<c[1], c[2]>> ELSE <<c[1], HttpAddr>>]

\* Where the swarm keeps the clients of the two fronts.
LEMMA Places ==
  /\ \A ih \in Infohash, addr \in UdpClient :
       /\ <<ih, addr, "udp">> \in Client
       /\ Place[<<ih, addr, "udp">>] = <<ih, addr>>
  /\ \A ih \in Infohash, addr \in HttpClient :
       /\ <<ih, addr, "http">> \in Client
       /\ Place[<<ih, addr, "http">>] = <<ih, HttpAddr>>
<1>1. ASSUME NEW ih \in Infohash, NEW addr \in UdpClient
      PROVE  /\ <<ih, addr, "udp">> \in Client
             /\ Place[<<ih, addr, "udp">>] = <<ih, addr>>
  BY DEF Client, Place
<1>2. ASSUME NEW ih \in Infohash, NEW addr \in HttpClient
      PROVE  /\ <<ih, addr, "http">> \in Client
             /\ Place[<<ih, addr, "http">>] = <<ih, HttpAddr>>
  BY DEF Client, Place
<1> QED BY <1>1, <1>2

\* An announce or a stop of a client, by either front, is one of the swarm's.
LEMMA SwarmHears ==
  ASSUME NEW ih, NEW addr, NEW client, NEW via, NEW event,
         <<ih, client, via>> \in Client, Place[<<ih, client, via>>] = <<ih, addr>>,
         Store(ih, addr, event), Tell(ih, client, via, event), UNCHANGED now
  PROVE  Members!Next
<1> DEFINE c0 == <<ih, client, via>>
<1>1. CASE event = "stopped"
  <2>1. Members!Stop(c0)
    BY <1>1 DEF Members!Stop, Members!Without, Members!Restrict, Place, Store, Tell, Drop
  <2> QED BY <2>1 DEF Members!Next
<1>2. CASE event # "stopped"
  <2>1. Members!Announce(c0)
    BY <1>2 DEF Members!Announce, Members!At, Place, Store, Tell, Put
  <2> QED BY <2>1 DEF Members!Next
<1> QED BY <1>1, <1>2

\* Every step of the tracker is a step of the swarm or leaves it alone. Time
\* does not pass an alarm, and who would be too old after a second would be too
\* old at the next sweep.
LEMMA SwarmStep ==
  ASSUME IInv, [Next]_vars
  PROVE  [Members!Next]_<<peers, told, now>>
<1>1. CASE UNCHANGED vars
  BY <1>1 DEF vars
<1>2. ASSUME NEW ip \in Ip, HandleConnect(ip) PROVE UNCHANGED <<peers, told, now>>
  BY <1>2 DEF HandleConnect
<1>3. ASSUME NEW addr \in UdpClient, NEW id \in 1..MaxConn, NEW ih \in Infohash, NEW event \in Event,
             VerifyAnnounce(addr, id, ih, event)
      PROVE  UNCHANGED <<peers, told, now>>
  BY <1>3 DEF VerifyAnnounce
<1>4. ASSUME NEW t \in tasks, StoreUdp(t) PROVE Members!Next
  <2>1. t.ih \in Infohash /\ t.addr \in UdpClient
    BY DEF IInv, TypeOK, ConnectedOnly
  <2>2. Store(t.ih, t.addr, t.event) /\ Tell(t.ih, t.addr, "udp", t.event) /\ UNCHANGED now
    BY <1>4 DEF StoreUdp
  <2> QED BY <2>1, <2>2, Places, SwarmHears
<1>5. ASSUME NEW client \in HttpClient, NEW ih \in Infohash, NEW event \in Event,
             HandleHttpAnnounce(client, ih, event)
      PROVE  Members!Next
  <2>1. Store(ih, HttpAddr, event) /\ Tell(ih, client, "http", event) /\ UNCHANGED now
    BY <1>5 DEF HandleHttpAnnounce
  <2> QED BY <2>1, Places, SwarmHears
<1>6. CASE SweepConnections
  BY <1>6 DEF SweepConnections
<1>7. CASE SweepPeers
  <2>1. Members!Leave
    <3> DEFINE due == {p \in DOMAIN peers : now - peers[p] >= PeerTTL}
    <3>1. due \in SUBSET Members!quiet(PeerTTL)
      BY DEF Members!quiet
    <3>2. peers' = Members!Without(peers, due) /\ UNCHANGED <<told, now>>
      BY <1>7 DEF SweepPeers, Drop, Members!Without, Members!Restrict
    <3> QED BY <3>1, <3>2, Zenon DEF Members!Leave
  <2> QED BY <2>1 DEF Members!Next
<1>8. CASE Tick
  <2>1. now < MaxTime /\ now < peer_sweep /\ now' = now + 1 /\ UNCHANGED <<peers, told>>
    BY <1>8 DEF Tick
  <2>2. ASSUME NEW p \in DOMAIN peers PROVE ~(now - peers[p] >= PeerTTL + SweepInterval - 1)
    <3>1. peers[p] \in Int /\ peer_sweep - peers[p] < PeerTTL + SweepInterval
      BY DEF IInv, TypeOK, YoungAtNextSweep
    <3>2. IInv => TypeOK BY DEF IInv
    <3> QED BY <2>1, <3>1, <3>2, Times, Constants
  <2>3. Members!Tick
    BY <2>1, <2>2 DEF Members!Tick, Members!quiet
  <2> QED BY <2>3 DEF Members!Next
<1> QED BY <1>1, <1>2, <1>3, <1>4, <1>5, <1>6, <1>7, <1>8 DEF Next

\* Whatever packets, tasks and sweeps come between each other, the peers of the
\* tracker are a swarm: a client is there from its announce on until it stops
\* or has been quiet for a time to live, and no longer than a sweep after that.
THEOREM TrackerImplementsSwarm == Spec => ActsAsSwarm
<1>1. Init => Members!Init
  BY DEF Init, Members!Init
<1>2. IInv /\ [Next]_vars => [Members!Next]_<<peers, told, now>>
  BY SwarmStep
<1>3. Spec => Members!Spec
  BY <1>1, <1>2, Inductive, PTL DEF Spec, Members!Spec
<1> QED BY <1>3 DEF ActsAsSwarm

===========================================================================
