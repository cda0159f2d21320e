------------------------------ MODULE DhtStore ------------------------------
(***************************************************************************)
(* The DHT peer store of src/discoverers/dht/store.rs: the peers that      *)
(* announced themselves, by infohash, with two cached counts.              *)
(*                                                                         *)
(* The map of lists is a partial function from <<infohash, address>> to    *)
(* last_seen. A list never holds an address twice (announce looks it up    *)
(* first); its order only decides which of several equally old peers goes  *)
(* first and which peers a limited get_peers returns, and both are left    *)
(* open here. Every operation runs under one write lock: one action each.  *)
(***************************************************************************)
EXTENDS Integers, FiniteSets, Functions

CONSTANTS
  Infohash, Addr,
  PeerTTL,      \* PEER_TTL_SECS (1800)
  MaxPeers,     \* MAX_PEERS_PER_INFOHASH (256)
  MaxTime       \* bound of the clock

\* announce counts a new infohash when its list has length 1 after the push: a
\* capacity of 1 would count the infohash again at every replacement. (The node
\* that owns the store assumes this.)
DhtStoreAssumption ==
  /\ PeerTTL \in Nat /\ MaxTime \in Nat
  /\ MaxPeers \in Nat /\ MaxPeers >= 2

VARIABLES
  peers,             \* <<infohash, addr>> |-> last_seen
  total_peers,       \* cached count of peers
  total_infohashes,  \* cached count of infohashes
  now                \* seconds since the store was created

storeVars == <<peers, total_peers, total_infohashes>>
vars == <<storeVars, now>>

-----------------------------------------------------------------------------
is_expired(p) == now - peers[p] > PeerTTL

saturating_sub(m, n) == IF m >= n THEN m - n ELSE 0

list(ih) == {p \in DOMAIN peers : p[1] = ih}

infohashes(S) == {p[1] : p \in S}

\* The entry a full list gives up: the first one of the sorted list.
oldest(ih) == {p \in list(ih) : \A q \in list(ih) : peers[p] <= peers[q]}

\* What get_peers may answer: as many unexpired peers as the limit allows.
get_peers(ih, limit) ==
  LET live == {p \in list(ih) : ~is_expired(p)}
      some == {S \in SUBSET live : Cardinality(S) = limit}
  IN  IF Cardinality(live) <= limit THEN {live} ELSE some

-----------------------------------------------------------------------------
Init ==
  /\ peers = [p \in {} |-> 0]
  /\ total_peers = 0
  /\ total_infohashes = 0
  /\ now = 0

\* announce of a peer that is in the list.
Refresh(ih, addr) ==
  /\ <<ih, addr>> \in DOMAIN peers
  /\ peers' = [peers EXCEPT ![<<ih, addr>>] = now]
  /\ UNCHANGED <<total_peers, total_infohashes, now>>

\* The end of announce: push the entry on what is left of the lists.
Push(ih, addr, left, count) ==
  /\ peers' = [p \in left \cup {<<ih, addr>>} |-> IF p \in left THEN peers[p] ELSE now]
  /\ total_peers' = count + 1
  /\ total_infohashes' = IF Cardinality({p \in left : p[1] = ih}) = 0
                         THEN total_infohashes + 1 ELSE total_infohashes
  /\ UNCHANGED now

\* announce of a new peer while the list has room.
Add(ih, addr) ==
  /\ <<ih, addr>> \notin DOMAIN peers
  /\ Cardinality(list(ih)) < MaxPeers
  /\ Push(ih, addr, DOMAIN peers, total_peers)

\* Planted fault: a full list gives up an arbitrary peer.
ReplaceAny(ih, addr) ==
  /\ <<ih, addr>> \notin DOMAIN peers
  /\ Cardinality(list(ih)) >= MaxPeers
  /\ \E victim \in list(ih) :
       Push(ih, addr, DOMAIN peers \ {victim}, saturating_sub(total_peers, 1))

\* announce of a new peer to a full list: the oldest peer goes first.
ReplaceOldest(ih, addr) ==
  /\ <<ih, addr>> \notin DOMAIN peers
  /\ Cardinality(list(ih)) >= MaxPeers
  /\ \E victim \in oldest(ih) :
       Push(ih, addr, DOMAIN peers \ {victim}, saturating_sub(total_peers, 1))

Announce(ih, addr) == Refresh(ih, addr) \/ Add(ih, addr) \/ ReplaceOldest(ih, addr)

\* Planted fault: the infohashes that vanish are not counted down.
EvictExpired_keeps_infohashes ==
  LET kept == {p \in DOMAIN peers : ~is_expired(p)}
  IN  /\ peers' = Restrict(peers, kept)
      /\ total_peers' = saturating_sub(total_peers, Cardinality(DOMAIN peers \ kept))
      /\ UNCHANGED <<total_infohashes, now>>

\* Expired peers leave their lists, lists left empty leave the map, and both
\* counts drop by what went.
EvictExpired ==
  LET kept == {p \in DOMAIN peers : ~is_expired(p)}
      emptied == infohashes(DOMAIN peers) \ infohashes(kept)
  IN  /\ peers' = Restrict(peers, kept)
      /\ total_infohashes' = saturating_sub(total_infohashes, Cardinality(emptied))
      /\ total_peers' = saturating_sub(total_peers, Cardinality(DOMAIN peers \ kept))
      /\ UNCHANGED now

Tick ==
  /\ now < MaxTime
  /\ now' = now + 1
  /\ UNCHANGED storeVars

Next ==
  \/ \E ih \in Infohash, addr \in Addr : Announce(ih, addr)
  \/ EvictExpired
  \/ Tick

Spec == Init /\ [][Next]_vars

-----------------------------------------------------------------------------
TypeOK ==
  /\ DOMAIN peers \subseteq Infohash \X Addr
  /\ peers \in [DOMAIN peers -> Nat]
  /\ \A p \in DOMAIN peers : peers[p] <= now
  /\ total_peers \in Nat
  /\ total_infohashes \in Nat
  /\ now \in 0..MaxTime

\* The cached counts are the real ones after every mix of announces,
\* replacements and evictions: total_peers() counts the entries of all lists
\* and total_infohashes() the infohashes that have one.
CountersExact ==
  /\ total_peers = Cardinality(DOMAIN peers)
  /\ total_infohashes = Cardinality(infohashes(DOMAIN peers))

\* No infohash holds more than MAX_PEERS_PER_INFOHASH peers.
ListsBounded == \A ih \in Infohash : Cardinality(list(ih)) <= MaxPeers

\* A peer that has not expired is dropped only to make room in its own list:
\* the list was full, a new peer of the same infohash came in, and no peer of
\* that list was older.
LiveLossOnlyByOverflow ==
  [][\A p \in DOMAIN peers :
       p \notin DOMAIN peers' /\ ~is_expired(p) =>
         /\ Cardinality(list(p[1])) = MaxPeers
         /\ Cardinality(list(p[1])') = MaxPeers
         /\ p \in oldest(p[1])]_vars

\* The entries get_peers and peer_count look at.
live == Restrict(peers, {p \in DOMAIN peers : ~is_expired(p)})

Directory == INSTANCE PeerDirectory WITH members <- live, Capacity <- MaxPeers

\* No answer of get_peers or peer_count tells when evict_expired ran: the store
\* behaves as a directory whose members leave the moment they expire. An expired entry that
\* still takes up room costs no live peer its place, one that is announced
\* again comes back as a newcomer, and only a list full of live peers gives one
\* up, the oldest.
ActsAsDirectory == Directory!Spec

=============================================================================
