---------------------------- MODULE CrawlerNode ----------------------------
(***************************************************************************)
(* The DHT node of src/crawler/engine.rs: one loop (crawl_loop) answers    *)
(* the queries of remote nodes over the peer store, the token manager and  *)
(* the routing table, and, when a whole second goes by without a packet,   *)
(* does its periodic work: bootstrap again and maintenance.                *)
(*                                                                         *)
(* The loop handles one packet at a time, so a handler is one action. The  *)
(* network may lose, repeat, delay and reorder: a remote node announces    *)
(* with any token it ever got, from any of its addresses, or with none.    *)
(* Statistics nothing else reads (messages_received, errors, nodes_crawled,*)
(* peers_collected, timestamps) are left out, and so is CrawlProgress.     *)
(***************************************************************************)
EXTENDS Integers, FiniteSets, Sequences

CONSTANTS
  IP, Port,            \* a remote address is an <<ip, port>>
  Remote,              \* the addresses remote nodes send from
  Bootstrap,           \* addresses the bootstrap hosts resolve to
  Infohash,
  PeerTTL, MaxPeers,                                    \* peer store
  RotationInterval,                                     \* tokens
  hash_pair, HashSpace, num_bits, num_hashes,           \* Bloom filter
  IdBits, own_id, NodeIds, K, MaxBuckets, NodeTTL,      \* routing table
  MaxFailures, U8Max, RefreshAge, MaxTotal,
  BootstrapInterval,   \* bootstrap_interval (300)
  MaintenanceInterval, \* maintenance_interval (60)
  SleepTime,           \* the sleep of the idle branch (1)
  MinGap,              \* environment: least time between packets of
                       \* different seconds; 1 is a packet every second
  MaxTime

ASSUME CrawlerAssumption ==
  /\ {PeerTTL, RotationInterval, BootstrapInterval, MinGap, MaxTime} \subseteq Nat
  /\ {MaintenanceInterval, SleepTime} \subseteq Nat \ {0}
  /\ Remote \subseteq IP \X Port

VARIABLES
  peers, total_peers, total_infohashes,            \* the peer store
  buckets, total_nodes,                            \* the routing table
  current_secret, previous_secret, last_rotation,  \* the token manager
  issued,              \* the tokens remote nodes hold, with address and time
  phase,               \* where the loop is: "start" (the bootstrap before
                       \* it), "select", or in the idle branch "bootstrap"
                       \* and then "maintain"
  to_ping,             \* bootstrap addresses still to be pinged
  last_bootstrap, last_maintenance,
  waiting_since,       \* when the current iteration of the loop began
  last_packet,         \* when the last packet came
  bits,                \* the Bloom filter seen_infohashes
  infohashes_collected,
  published,           \* InfohashSeen events per infohash
  came,                \* history: the infohashes that came in a query
  now

storeVars == <<peers, total_peers, total_infohashes>>
tableVars == <<buckets, total_nodes>>
secretVars == <<current_secret, previous_secret, last_rotation>>
loopVars == <<phase, to_ping, last_bootstrap, last_maintenance, waiting_since>>
seenVars == <<bits, infohashes_collected, published, came>>
vars == <<storeVars, tableVars, secretVars, issued, loopVars, last_packet, seenVars, now>>

Addr == IP \X Port

Store == INSTANCE DhtStore
Tokens == INSTANCE TokenManager
Seen == INSTANCE Bloom
Table == INSTANCE RoutingTable WITH Nodes <- NodeIds \X (Remote \cup Bootstrap)

ASSUME StoreAssumption == Store!DhtStoreAssumption
ASSUME TableAssumption == Table!RoutingTableAssumption

-----------------------------------------------------------------------------
(* new, start and the bootstrap before the loop.                           *)

Init ==
  /\ Store!Init
  /\ Table!Init
  /\ Tokens!Init
  /\ phase = "start" /\ to_ping = Bootstrap
  /\ last_bootstrap = 0 /\ last_maintenance = 0
  /\ waiting_since = 0 /\ last_packet = 0
  /\ Seen!Init /\ infohashes_collected = 0
  /\ came = {}
  /\ published = [ih \in Infohash |-> 0]

\* bootstrap pings one address; when the ping is sent the address enters the
\* routing table under a random id. A lookup or a send that fails skips it.
PingBootstrap(addr) ==
  /\ phase \in {"start", "bootstrap"}
  /\ addr \in to_ping
  /\ to_ping' = to_ping \ {addr}
  /\ \/ \E id \in NodeIds : Table!Insert(id, addr)
     \/ UNCHANGED <<tableVars, now>>
  /\ UNCHANGED <<storeVars, secretVars, issued, phase, last_bootstrap,
                 last_maintenance, waiting_since, last_packet, seenVars>>

\* The first bootstrap starts both timers and the loop; a later one is followed
\* by the maintenance check of the same idle branch.
BootstrapDone ==
  /\ phase \in {"start", "bootstrap"}
  /\ to_ping = {}
  /\ last_bootstrap' = now
  /\ \/ /\ phase = "start" /\ phase' = "select"
        /\ last_maintenance' = now /\ waiting_since' = now
     \/ /\ phase = "bootstrap" /\ phase' = "maintain"
        /\ UNCHANGED <<last_maintenance, waiting_since>>
  /\ UNCHANGED <<storeVars, tableVars, secretVars, issued, to_ping, last_packet, seenVars, now>>

-----------------------------------------------------------------------------
(* The packet branch of the loop.                                          *)

\* A packet is received and the next iteration starts a new sleep.
Receive ==
  /\ phase = "select"
  /\ last_packet = now \/ now - last_packet >= MinGap
  /\ last_packet' = now
  /\ waiting_since' = now
  /\ UNCHANGED <<phase, to_ping, last_bootstrap, last_maintenance, now>>

\* Planted fault: the answer of the filter is ignored.
Collect_always(ih) ==
  /\ came' = came \cup {ih}
  /\ Seen!insert(ih)
  /\ infohashes_collected' = infohashes_collected + 1
  /\ published' = [published EXCEPT ![ih] = @ + 1]

\* An infohash the filter takes for new is counted and published.
Collect(ih) ==
  /\ came' = came \cup {ih}
  /\ \/ /\ Seen!insert_and_check(ih, TRUE)
        /\ infohashes_collected' = infohashes_collected + 1
        /\ published' = [published EXCEPT ![ih] = @ + 1]
     \/ /\ Seen!insert_and_check(ih, FALSE)
        /\ UNCHANGED <<infohashes_collected, published>>

\* ping, find_node, sample_infohashes, and what does not parse: an answer is
\* sent from what is stored, and nothing is stored.
AnswerOnly ==
  /\ Receive
  /\ UNCHANGED <<storeVars, tableVars, secretVars, issued, seenVars>>

GetPeers(from, ih) ==
  /\ Receive
  /\ Tokens!Issue(from)
  /\ Collect(ih)
  /\ UNCHANGED <<storeVars, tableVars>>

\* Planted fault: any token that was ever handed out is good.
AnnouncePeer_any_token(from, id, ih, port, token) ==
  /\ Receive
  /\ IF token # <<>>
     THEN Store!Announce(ih, <<from[1], port>>) /\ Table!Insert(id, from)
     ELSE UNCHANGED <<storeVars, tableVars>>
  /\ Collect(ih)
  /\ UNCHANGED <<secretVars, issued>>

\* announce_peer: a good token stores the peer under the sender's ip and the
\* announced (or implied) port and the sender in the routing table; with any
\* other token the infohash is collected and nothing is stored.
AnnouncePeer(from, id, ih, port, token) ==
  /\ Receive
  /\ IF Tokens!verify(from, token)
     THEN Store!Announce(ih, <<from[1], port>>) /\ Table!Insert(id, from)
     ELSE UNCHANGED <<storeVars, tableVars>>
  /\ Collect(ih)
  /\ UNCHANGED <<secretVars, issued>>

-----------------------------------------------------------------------------
(* The idle branch: a sleep that no packet cut short.                      *)

Due(last, interval) == now - last >= interval

\* Planted fault: maintenance does not rotate.
MaybeRotate_never == UNCHANGED secretVars

\* maybe_rotate
MaybeRotate ==
  \/ Tokens!Rotate
  \/ now - last_rotation < RotationInterval /\ UNCHANGED secretVars

\* The sleep is over: bootstrap if it is due, then the maintenance check.
Idle ==
  /\ phase = "select"
  /\ now - waiting_since >= SleepTime
  /\ \/ /\ Due(last_bootstrap, BootstrapInterval)
        /\ phase' = "bootstrap" /\ to_ping' = Bootstrap
     \/ /\ ~Due(last_bootstrap, BootstrapInterval)
        /\ phase' = "maintain" /\ UNCHANGED to_ping
  /\ UNCHANGED <<storeVars, tableVars, secretVars, issued, last_bootstrap,
                 last_maintenance, waiting_since, last_packet, seenVars, now>>

\* Maintenance if it is due; then the loop begins its next iteration.
Maintain ==
  /\ phase = "maintain"
  /\ phase' = "select"
  /\ waiting_since' = now
  /\ \/ /\ Due(last_maintenance, MaintenanceInterval)
        /\ Table!EvictExpired
        /\ Store!EvictExpired
        /\ MaybeRotate
        /\ last_maintenance' = now
     \/ /\ ~Due(last_maintenance, MaintenanceInterval)
        /\ UNCHANGED <<storeVars, tableVars, secretVars, last_maintenance, now>>
  /\ UNCHANGED <<issued, to_ping, last_bootstrap, last_packet, seenVars>>

\* Time passes while the loop waits; a sleep that is over ends at once. The
\* handlers and the pings of a bootstrap take no time.
Tick ==
  /\ now < MaxTime
  /\ phase = "select"
  /\ now - waiting_since < SleepTime
  /\ now' = now + 1
  /\ UNCHANGED <<storeVars, tableVars, secretVars, issued, loopVars, last_packet, seenVars>>

\* What an announce may carry: a token somebody got, or none that was issued.
Presented == {t.token : t \in issued} \cup {<<>>}

Next ==
  \/ \E addr \in Bootstrap : PingBootstrap(addr)
  \/ BootstrapDone
  \/ AnswerOnly
  \/ \E from \in Remote, ih \in Infohash : GetPeers(from, ih)
  \/ \E from \in Remote, id \in NodeIds, ih \in Infohash, port \in Port, token \in Presented :
       AnnouncePeer(from, id, ih, port, token)
  \/ Idle \/ Maintain
  \/ Tick

Spec == Init /\ [][Next]_vars

-----------------------------------------------------------------------------
\* The addresses that were handed a token.
holders == {t.addr : t \in issued}

\* Every stored peer has the ip of an address that was handed a token.
StoredVerified == \A p \in DOMAIN peers : \E h \in holders : h[1] = p[2][1]

\* Nothing enters by announce_peer without the round trip through get_peers:
\* no peer the store, and no node the routing table, apart from the bootstrap
\* nodes.
OnlyVerifiedEnter ==
  /\ StoredVerified
  /\ \A e \in Table!all_nodes : e.addr \in holders \cup Bootstrap

\* The infohashes that were published.
out == {ih \in Infohash : published[ih] > 0}

\* Each infohash is published at most once, however often and by whichever
\* message it comes; one that came and was not published has its places in the
\* filter set by others; and the statistic counts the publications.
CollectedOnce ==
  /\ \A ih \in out : published[ih] = 1
  /\ \A ih \in came \ out : Seen!places(ih) \subseteq UNION {Seen!places(o) : o \in out}
  /\ infohashes_collected = Cardinality(out)

\* token.rs:10 says the secret is rotated every 5 minutes, and engine.rs:377
\* that maintenance runs every minute. Maintenance waits for a sleep that no
\* packet cuts short; with a quiet sleep after every packet, maintenance comes
\* before two sleeps more than its interval have passed, and a rotation, and
\* the end of a stored peer, wait for it.
MaintenanceOnTime ==
  LET late == MaintenanceInterval + 2 * SleepTime IN
  /\ now - last_maintenance < late
  /\ now - last_rotation < RotationInterval + late
  /\ \A p \in DOMAIN peers : now - peers[p] < PeerTTL + late

\* A node that asked has a rotation interval to announce: its token verifies,
\* whatever maintenance the loop does in between. It takes a second rotation to
\* refuse a token.
FreshTokenVerifies == Tokens!FreshTokenVerifies

\* A token the node has refused is never accepted again.
RefusedForGood == Tokens!RefusedForGood

\* What the node reports of its store is true: total_peers() and
\* total_infohashes() are exact after every mix of announces, replacements and
\* evictions.
CountersExact == Store!CountersExact

\* Those who ask the node for peers see the directory of PeerDirectory, whenever
\* maintenance finds time to evict.
ActsAsDirectory == Store!ActsAsDirectory

=============================================================================
