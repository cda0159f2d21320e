---------------------------- MODULE SuperTracker ----------------------------
(***************************************************************************)
(* The tracker PeerDiscoveryCenter is to BitTorrent clients: the store of  *)
(* announced peers (SuperTrackerState of src/data_plane/http_tracker.rs)   *)
(* behind its HTTP front (announce_handler) and its UDP front              *)
(* (src/data_plane/udp_tracker.rs, BEP 15).                                *)
(*                                                                         *)
(* A UDP packet is handled by a task of its own, which checks the          *)
(* connection id under one lock and stores the peer under another, with an *)
(* await in between: two actions. Packets may be lost, repeated and        *)
(* reordered, and whoever knows a connection id may use it. Scrape and the *)
(* answers read the store and change nothing; they are left out.           *)
(***************************************************************************)
EXTENDS Integers, FiniteSets

CONSTANTS
  Infohash,
  UdpClient, HttpClient,  \* the addresses <<ip, port>> clients listen at
  HttpAddr,        \* 127.0.0.1:0, what announce_handler falls back to
  PeerTTL,         \* peer_ttl_secs
  ConnTTL,         \* age at which a connection id may be swept (120)
  SweepInterval,   \* the sleep of both cleanup tasks (60)
  MaxConn,         \* bound of the connection ids drawn
  MaxTasks,        \* bound of the packets in progress
  MaxTime          \* bound of the clock

Addr == UdpClient \cup HttpClient
Ip == {a[1] : a \in UdpClient}

ASSUME SuperTrackerAssumption ==
  /\ {MaxConn, MaxTasks, MaxTime} \subseteq Nat
  /\ {PeerTTL, ConnTTL, SweepInterval} \subseteq Nat \ {0}
  /\ HttpAddr \notin Addr

VARIABLES
  connections,  \* connection id |-> [ip, created_at]
  drawn,        \* how many connection ids were drawn; each one is new
  peers,        \* <<infohash, addr>> |-> last_seen
  tasks,        \* verified UDP announces that are not stored yet
  conn_sweep, peer_sweep,  \* when the two cleanup tasks wake up
  connected,    \* history: the ips that asked for a connection
  told,         \* history: when a client last announced itself (and did not
                \* stop since), by <<infohash, its address, protocol>>
  now

connVars == <<connections, drawn>>
vars == <<connVars, peers, tasks, conn_sweep, peer_sweep, connected, told, now>>

Put(f, k, v) == [x \in DOMAIN f \cup {k} |-> IF x = k THEN v ELSE f[x]]
Drop(f, S) == [x \in DOMAIN f \ S |-> f[x]]

Init ==
  /\ connections = [c \in {} |-> 0] /\ drawn = 0
  /\ peers = [p \in {} |-> 0]
  /\ tasks = {}
  /\ conn_sweep = SweepInterval
  /\ peer_sweep \in 1..SweepInterval
  /\ connected = {}
  /\ told = [t \in {} |-> 0]
  /\ now = 0

-----------------------------------------------------------------------------
(* The UDP front.                                                          *)

\* connect with the right protocol id; any other is answered with an error.
HandleConnect(ip) ==
  /\ drawn < MaxConn
  /\ connected' = connected \cup {ip}
  /\ drawn' = drawn + 1
  /\ connections' = Put(connections, drawn', [ip |-> ip, created_at |-> now])
  /\ UNCHANGED <<peers, tasks, conn_sweep, peer_sweep, told, now>>

\* The ip of the sender has to be the one the connection id was drawn for.
valid(ip, id) == id \in DOMAIN connections /\ connections[id].ip = ip

\* Planted fault: any connection id that exists is good.
VerifyAnnounce_any_ip(addr, id, ih, event) ==
  /\ Cardinality(tasks) < MaxTasks
  /\ id \in DOMAIN connections
  /\ tasks' = tasks \cup {[ih |-> ih, addr |-> addr, event |-> event]}
  /\ UNCHANGED <<connVars, peers, conn_sweep, peer_sweep, connected, told, now>>

\* handle_announce up to the call of handle_udp_announce. An unknown id gets
\* no answer and a wrong ip an error; neither goes on. The peer's address is
\* the ip of the sender with the port it announces.
VerifyAnnounce(addr, id, ih, event) ==
  /\ Cardinality(tasks) < MaxTasks
  /\ valid(addr[1], id)
  /\ tasks' = tasks \cup {[ih |-> ih, addr |-> addr, event |-> event]}
  /\ UNCHANGED <<connVars, peers, conn_sweep, peer_sweep, connected, told, now>>

\* What an announce does to the store, under the lock of the infohash.
Store(ih, addr, event) ==
  peers' = IF event = "stopped" THEN Drop(peers, {<<ih, addr>>})
           ELSE Put(peers, <<ih, addr>>, now)

Tell(ih, addr, via, event) ==
  told' = IF event = "stopped" THEN Drop(told, {<<ih, addr, via>>})
          ELSE Put(told, <<ih, addr, via>>, now)

\* Planted fault: a stopped client takes all clients of its ip with it.
StoreUdp_by_ip(t) ==
  /\ t \in tasks
  /\ peers' = IF t.event = "stopped"
              THEN Drop(peers, {k \in DOMAIN peers : k[2][1] = t.addr[1]})
              ELSE Put(peers, <<t.ih, t.addr>>, now)
  /\ Tell(t.ih, t.addr, "udp", t.event)
  /\ tasks' = tasks \ {t}
  /\ UNCHANGED <<connVars, conn_sweep, peer_sweep, connected, now>>

\* handle_udp_announce.
StoreUdp(t) ==
  /\ t \in tasks
  /\ Store(t.ih, t.addr, t.event)
  /\ Tell(t.ih, t.addr, "udp", t.event)
  /\ tasks' = tasks \ {t}
  /\ UNCHANGED <<connVars, conn_sweep, peer_sweep, connected, now>>

SweepConnections ==
  /\ now = conn_sweep
  /\ connections' = Drop(connections,
       {c \in DOMAIN connections : now - connections[c].created_at >= ConnTTL})
  /\ conn_sweep' = now + SweepInterval
  /\ UNCHANGED <<drawn, peers, tasks, peer_sweep, connected, told, now>>

-----------------------------------------------------------------------------
(* The HTTP front and the cleanup of the store.                            *)

\* announce_handler: the server is started without connect info, so every
\* client has the address HttpAddr; the port it announces is not used.
HandleHttpAnnounce(client, ih, event) ==
  /\ Store(ih, HttpAddr, event)
  /\ Tell(ih, client, "http", event)
  /\ UNCHANGED <<connVars, tasks, conn_sweep, peer_sweep, connected, now>>

\* Planted fault: a sweep also takes the peers that the next one would find
\* due.
SweepPeers_early ==
  /\ now = peer_sweep
  /\ peers' = Drop(peers, {p \in DOMAIN peers : now + SweepInterval - peers[p] >= PeerTTL})
  /\ peer_sweep' = now + SweepInterval
  /\ UNCHANGED <<connVars, tasks, conn_sweep, connected, told, now>>

SweepPeers ==
  /\ now = peer_sweep
  /\ peers' = Drop(peers, {p \in DOMAIN peers : now - peers[p] >= PeerTTL})
  /\ peer_sweep' = now + SweepInterval
  /\ UNCHANGED <<connVars, tasks, conn_sweep, connected, told, now>>

\* A sweep that is due runs before the clock goes on.
Tick ==
  /\ now < MaxTime
  /\ now < conn_sweep /\ now < peer_sweep
  /\ now' = now + 1
  /\ UNCHANGED <<connVars, peers, tasks, conn_sweep, peer_sweep, connected, told>>

Event == {"stopped", "other"}

Next ==
  \/ \E ip \in Ip : HandleConnect(ip)
  \/ \E addr \in UdpClient, id \in 1..MaxConn, ih \in Infohash, event \in Event :
       VerifyAnnounce(addr, id, ih, event)
  \/ \E t \in tasks : StoreUdp(t)
  \/ \E client \in HttpClient, ih \in Infohash, event \in Event :
       HandleHttpAnnounce(client, ih, event)
  \/ SweepConnections \/ SweepPeers
  \/ Tick

Spec == Init /\ [][Next]_vars

-----------------------------------------------------------------------------
TypeOK ==
  /\ DOMAIN connections \subseteq 1..drawn
  /\ connections \in [DOMAIN connections -> [ip : Ip, created_at : 0..now]]
  /\ drawn \in 0..MaxConn
  /\ DOMAIN peers \subseteq Infohash \X (Addr \cup {HttpAddr})
  /\ peers \in [DOMAIN peers -> 0..now]
  /\ tasks \subseteq [ih : Infohash, addr : Addr, event : Event]
  /\ {conn_sweep, peer_sweep} \subseteq now..(now + SweepInterval)
  /\ now \in 0..MaxTime

\* Nobody is announced over UDP from an ip that never asked for a connection,
\* whichever connection ids its packets carry and however late their tasks run.
StoredIpConnected ==
  /\ \A t \in tasks : t.addr[1] \in connected
  /\ \A k \in DOMAIN peers : k[2] # HttpAddr => k[2][1] \in connected

\* No connection id is good for longer than its time to live and one sweep.
ConnectionsExpire ==
  \A c \in DOMAIN connections : now - connections[c].created_at < ConnTTL + SweepInterval

\* No peer is handed out that has not announced itself for a time to live and
\* one sweep.
PeersExpire == \A p \in DOMAIN peers : now - peers[p] < PeerTTL + SweepInterval

\* A client of a swarm is <<infohash, address, protocol>>, as in told.
Client == (Infohash \X UdpClient \X {"udp"}) \cup (Infohash \X HttpClient \X {"http"})

\* Those who ask for peers see a swarm: whatever packets, tasks and sweeps come
\* between each other, a peer is there from an announce on until its own client
\* stops or a time to live has passed, and no longer than a sweep after that.
Members == INSTANCE Swarm WITH
  Place <- [c \in Client |-> IF c[3] = "udp" THEN <<c[1], c[2]>> ELSE <<c[1], HttpAddr>>],
  Grace <- SweepInterval, members <- peers, said <- told

ActsAsSwarm == Members!Spec

\* A client that announced itself over UDP, and has neither stopped nor
\* expired, is in the store: nobody else's announce, stop or sweep drops it.
UdpClientKept ==
  \A t \in DOMAIN told :
    t[3] = "udp" /\ now - told[t] < PeerTTL => <<t[1], t[2]>> \in DOMAIN peers

\* http_tracker.rs:51: all peers that announce themselves are stored.
EveryClientKept ==
  \A t \in DOMAIN told : now - told[t] < PeerTTL => <<t[1], t[2]>> \in DOMAIN peers

=============================================================================
