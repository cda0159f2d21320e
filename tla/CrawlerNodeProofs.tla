------------------------- MODULE CrawlerNodeProofs -------------------------
(* Proofs about CrawlerNode and the token manager and the peer store it    *)
(* owns, for any number of remote nodes and infohashes, for all intervals  *)
(* and every capacity of the store of at least two.                        *)
EXTENDS CrawlerNode, FiniteSetTheorems, TLAPS

\* What is proved of the routing table, for the table of this node.
TableFacts == INSTANCE RoutingTableProofs WITH Nodes <- NodeIds \X (Remote \cup Bootstrap)

-----------------------------------------------------------------------------
(* The token manager by itself, with any callers.                          *)

\* Where the secret of a token stands tells its age: a secret older than the
\* current one was last used by last_rotation, and one older than the previous
\* one a whole interval ago.
SecretTellsAge ==
  /\ previous_secret < current_secret
  /\ \A t \in issued :
       /\ t.token[1] = t.addr /\ t.token[2] <= current_secret
       /\ t.token[2] < current_secret => t.at <= last_rotation
       /\ t.token[2] < current_secret /\ t.token[2] # previous_secret =>
            now - t.at >= RotationInterval

TokenInv == Tokens!TypeOK /\ SecretTellsAge

\* The two secrets drawn at the start satisfy the invariant.
LEMMA TokenInvInit == Tokens!Init => TokenInv
  BY CrawlerAssumption DEF Tokens!Init, TokenInv, Tokens!TypeOK, SecretTellsAge

\* Handing out a token of the current secret keeps the invariant.
LEMMA IssueKeeps ==
  ASSUME NEW addr \in Addr, TokenInv, Tokens!Issue(addr)
  PROVE  TokenInv'
<1> DEFINE t0 == [addr |-> addr, token |-> <<addr, current_secret>>, at |-> now]
<1>1. /\ issued' = issued \cup {t0} /\ now' = now /\ last_rotation' = last_rotation
      /\ current_secret' = current_secret /\ previous_secret' = previous_secret
  BY DEF Tokens!Issue, Tokens!generate, Tokens!generate_with_secret, Tokens!secretVars
<1>2. now \in Nat /\ now \in 0..now
  BY CrawlerAssumption DEF TokenInv, Tokens!TypeOK
<1>3. t0 \in [addr : Addr, token : Addr \X Nat, at : 0..now]
  BY <1>2 DEF TokenInv, Tokens!TypeOK
<1>4. Tokens!TypeOK'
  BY <1>1, <1>3 DEF TokenInv, Tokens!TypeOK
<1>5. SecretTellsAge'
  BY <1>1, <1>2 DEF TokenInv, Tokens!TypeOK, SecretTellsAge
<1> QED BY <1>4, <1>5 DEF TokenInv

\* A rotation makes the tokens of the old previous secret invalid; the
\* interval that has passed since the last rotation makes them old.
LEMMA RotateKeeps ==
  ASSUME TokenInv, Tokens!MaybeRotate
  PROVE  TokenInv'
<1>1. /\ previous_secret' = current_secret /\ current_secret' = current_secret + 1
      /\ last_rotation' = now /\ now' = now /\ issued' = issued
      /\ now - last_rotation >= RotationInterval
  BY DEF Tokens!MaybeRotate, Tokens!Rotate
<1>2. now \in Nat /\ last_rotation \in Nat /\ last_rotation <= now
  BY CrawlerAssumption DEF TokenInv, Tokens!TypeOK
<1>3. Tokens!TypeOK'
  BY <1>1, <1>2 DEF TokenInv, Tokens!TypeOK
<1>4. ASSUME NEW t \in issued
      PROVE  /\ t.token[1] = t.addr /\ t.token[2] <= current_secret'
             /\ t.token[2] < current_secret' => t.at <= last_rotation'
             /\ t.token[2] < current_secret' /\ t.token[2] # previous_secret' =>
                  now' - t.at >= RotationInterval
  <2>1. t.at \in 0..now /\ t.token[2] \in Nat
    BY DEF TokenInv, Tokens!TypeOK
  <2>2. /\ t.token[1] = t.addr /\ t.token[2] <= current_secret
        /\ t.token[2] < current_secret => t.at <= last_rotation
    BY DEF TokenInv, SecretTellsAge
  <2> QED BY <1>1, <1>2, <2>1, <2>2, CrawlerAssumption DEF TokenInv, Tokens!TypeOK
<1>5. previous_secret' < current_secret'
  BY <1>1 DEF TokenInv, Tokens!TypeOK
<1> QED BY <1>1, <1>3, <1>4, <1>5 DEF TokenInv, SecretTellsAge

\* Time only makes tokens older.
LEMMA TickKeeps ==
  ASSUME TokenInv, Tokens!Tick
  PROVE  TokenInv'
<1>1. /\ now' = now + 1 /\ issued' = issued /\ last_rotation' = last_rotation
      /\ current_secret' = current_secret /\ previous_secret' = previous_secret
      /\ now < MaxTime
  BY DEF Tokens!Tick, Tokens!secretVars
<1>2. now \in Nat
  BY CrawlerAssumption DEF TokenInv, Tokens!TypeOK
<1>3. \A t \in issued : t.at \in 0..now
  BY DEF TokenInv, Tokens!TypeOK
<1>4. Tokens!TypeOK'
  BY <1>1, <1>2, CrawlerAssumption DEF TokenInv, Tokens!TypeOK
<1>5. SecretTellsAge'
  BY <1>1, <1>2, <1>3, CrawlerAssumption DEF TokenInv, SecretTellsAge
<1> QED BY <1>4, <1>5 DEF TokenInv

\* Every step keeps the invariant.
LEMMA TokenInvNext == TokenInv /\ [Tokens!Next]_(Tokens!vars) => TokenInv'
<1> SUFFICES ASSUME TokenInv, [Tokens!Next]_(Tokens!vars) PROVE TokenInv'
  OBVIOUS
<1>1. CASE UNCHANGED Tokens!vars
  BY <1>1 DEF Tokens!vars, Tokens!secretVars, TokenInv, Tokens!TypeOK, SecretTellsAge
<1> QED BY <1>1, IssueKeeps, RotateKeeps, TickKeeps DEF Tokens!Next

\* The invariant holds throughout.
THEOREM TokenInvariant == Tokens!Spec => []TokenInv
  BY TokenInvInit, TokenInvNext, PTL DEF Tokens!Spec

\* The token manager's variables keep their types.
THEOREM TokenTypeCorrect == Tokens!Spec => []Tokens!TypeOK
<1>1. TokenInv => Tokens!TypeOK
  BY DEF TokenInv
<1> QED BY <1>1, TokenInvariant, PTL

\* A token is good for at least one rotation interval, whoever asks for tokens
\* and whenever maybe_rotate is called (token.rs).
THEOREM TokenFreshVerifies == Tokens!Spec => []Tokens!FreshTokenVerifies
<1>1. TokenInv => Tokens!FreshTokenVerifies
  <2> SUFFICES ASSUME TokenInv, NEW t \in issued, now - t.at < RotationInterval
               PROVE  Tokens!verify(t.addr, t.token)
    BY DEF Tokens!FreshTokenVerifies
  <2>1. t.token = <<t.addr, t.token[2]>> /\ t.token[2] \in Nat /\ t.at \in 0..now
    BY DEF TokenInv, Tokens!TypeOK, SecretTellsAge
  <2>2. t.token[2] = current_secret \/ t.token[2] = previous_secret
    BY <2>1, CrawlerAssumption DEF TokenInv, Tokens!TypeOK, SecretTellsAge
  <2> QED BY <2>1, <2>2 DEF Tokens!verify, Tokens!generate_with_secret
<1> QED BY <1>1, TokenInvariant, PTL

\* A refused token is refused for good: no later secret equals an old one
\* (verify and maybe_rotate in token.rs).
THEOREM TokenStaysRefused == Tokens!Spec => Tokens!RefusedForGood
<1> DEFINE A == \A t \in issued :
                  ~Tokens!verify(t.addr, t.token) => ~Tokens!verify(t.addr, t.token)'
<1>1. TokenInv /\ [Tokens!Next]_(Tokens!vars) => [A]_(Tokens!vars)
  <2> SUFFICES ASSUME TokenInv, Tokens!Next, NEW t \in issued, ~Tokens!verify(t.addr, t.token)
               PROVE  ~Tokens!verify(t.addr, t.token)'
    OBVIOUS
  <2>1. /\ t.token = <<t.addr, t.token[2]>> /\ t.token[2] \in Nat
        /\ t.token[2] <= current_secret /\ current_secret \in Nat
    BY DEF TokenInv, Tokens!TypeOK, SecretTellsAge
  <2>2. t.token[2] # current_secret /\ t.token[2] # previous_secret
    BY <2>1 DEF Tokens!verify, Tokens!generate_with_secret
  <2>3. \/ current_secret' = current_secret /\ previous_secret' = previous_secret
        \/ current_secret' = current_secret + 1 /\ previous_secret' = current_secret
    BY DEF Tokens!Next, Tokens!Issue, Tokens!MaybeRotate, Tokens!Rotate, Tokens!Tick,
           Tokens!secretVars
  <2>4. t.token[2] # current_secret' /\ t.token[2] # previous_secret'
    BY <2>1, <2>2, <2>3
  <2> QED BY <2>1, <2>4 DEF Tokens!verify, Tokens!generate_with_secret
<1> QED BY <1>1, TokenInvariant, PTL DEF Tokens!Spec, Tokens!RefusedForGood

-----------------------------------------------------------------------------
(* What the store does with the peers.                                     *)

\* announce keeps what is there or drops it, and adds one peer seen now.
LEMMA AnnounceEffect ==
  ASSUME NEW ih, NEW addr, Store!Announce(ih, addr)
  PROVE  /\ now' = now
         /\ \A p \in DOMAIN peers' : \/ p = <<ih, addr>> /\ peers'[p] = now
                                     \/ p \in DOMAIN peers /\ peers'[p] = peers[p]
<1>1. CASE Store!Refresh(ih, addr)
  BY <1>1 DEF Store!Refresh
<1>2. ASSUME NEW left \in SUBSET DOMAIN peers, NEW n, Store!Push(ih, addr, left, n)
      PROVE  /\ now' = now
             /\ \A p \in DOMAIN peers' : \/ p = <<ih, addr>> /\ peers'[p] = now
                                         \/ p \in DOMAIN peers /\ peers'[p] = peers[p]
  BY <1>2 DEF Store!Push
<1> QED
  BY <1>1, <1>2 DEF Store!Announce, Store!Add, Store!ReplaceOldest

\* evict_expired keeps only peers that have not expired.
LEMMA EvictEffect ==
  ASSUME Store!EvictExpired
  PROVE  /\ now' = now
         /\ \A p \in DOMAIN peers' : /\ p \in DOMAIN peers /\ peers'[p] = peers[p]
                                     /\ ~(now - peers[p] > PeerTTL)
BY DEF Store!EvictExpired, Store!Restrict, Store!is_expired

-----------------------------------------------------------------------------
(* Maintenance.                                                            *)

\* The loop: a sleep that is over lets no time pass, so that now is at most a
\* sleep after the iteration began. The iteration follows a maintenance check,
\* or the first packets after one, which came within its sleep.
LoopInv ==
  /\ phase \in {"start", "select", "bootstrap", "maintain"}
  /\ now \in Nat
  /\ phase = "start" => now = 0
  /\ waiting_since \in Nat /\ last_packet \in Nat /\ last_maintenance \in Nat
  /\ now - waiting_since <= SleepTime
  /\ phase = "select" =>
       \/ waiting_since - last_maintenance < MaintenanceInterval
       \/ /\ waiting_since = last_packet
          /\ waiting_since - last_maintenance < MaintenanceInterval + SleepTime
  /\ now - last_maintenance < MaintenanceInterval + 2 * SleepTime

\* What the last maintenance left behind: a secret that was not due, and
\* peers that had not expired.
LeftInv ==
  /\ last_rotation \in Nat
  /\ last_rotation = last_maintenance \/ last_maintenance - last_rotation < RotationInterval
  /\ \A p \in DOMAIN peers : /\ peers[p] \in Nat
                             /\ last_maintenance - peers[p] <= PeerTTL
  /\ last_maintenance <= now

\* A packet starts a new sleep; before the next one comes the sleep is over.
LEMMA ReceiveLoop ==
  ASSUME LoopInv, Receive, SleepTime < MinGap
  PROVE  LoopInv'
BY CrawlerAssumption DEF LoopInv, Receive

\* A packet that is no good announce leaves store, secrets and timers alone; an
\* announce adds a peer seen now.
LEMMA PacketLeft ==
  ASSUME LoopInv, LeftInv, UNCHANGED <<secretVars, last_maintenance>>,
         \/ UNCHANGED <<storeVars, now>>
         \/ \E ih \in Infohash, addr \in Addr : Store!Announce(ih, addr)
  PROVE  LeftInv'
<1>1. /\ now' = now
      /\ \A p \in DOMAIN peers' : \/ peers'[p] = now
                                  \/ p \in DOMAIN peers /\ peers'[p] = peers[p]
  BY AnnounceEffect DEF storeVars
<1> QED
  BY <1>1, CrawlerAssumption DEF LoopInv, LeftInv, secretVars

\* The rest of the steps.
LEMMA LoopStep ==
  ASSUME LoopInv, LeftInv, [Next]_vars, SleepTime < MinGap
  PROVE  LoopInv' /\ LeftInv'
<1>1. CASE UNCHANGED vars
  BY <1>1, PacketLeft DEF vars, loopVars, LoopInv
<1>2. ASSUME NEW addr \in Bootstrap, PingBootstrap(addr) PROVE LoopInv' /\ LeftInv'
  <2>1. UNCHANGED <<now, storeVars, secretVars, phase, last_maintenance, waiting_since,
                    last_packet>>
    BY <1>2 DEF PingBootstrap, Table!Insert
  <2> QED
    BY <2>1, PacketLeft DEF LoopInv
<1>3. CASE BootstrapDone
  <2>1. LoopInv'
    <3>1. CASE phase = "start"
      BY <1>3, <3>1, CrawlerAssumption DEF BootstrapDone, LoopInv
    <3>2. CASE phase = "bootstrap"
      BY <1>3, <3>2 DEF BootstrapDone, LoopInv
    <3> QED
      BY <1>3, <3>1, <3>2 DEF BootstrapDone
  <2>2. LeftInv'
    <3>1. CASE phase = "start"
      BY <1>3, <3>1, CrawlerAssumption DEF BootstrapDone, LoopInv, LeftInv, storeVars, secretVars
    <3>2. CASE phase = "bootstrap"
      BY <1>3, <3>2, PacketLeft DEF BootstrapDone
    <3> QED
      BY <1>3, <3>1, <3>2 DEF BootstrapDone
  <2> QED
    BY <2>1, <2>2
<1>4. CASE AnswerOnly \/ \E from \in Remote, ih \in Infohash : GetPeers(from, ih)
  <2>1. Receive /\ UNCHANGED <<storeVars, secretVars>>
    BY <1>4 DEF AnswerOnly, GetPeers, Tokens!Issue, Tokens!secretVars, secretVars
  <2> QED
    BY <2>1, ReceiveLoop, PacketLeft DEF Receive
<1>5. ASSUME NEW from \in Remote, NEW id, NEW ih \in Infohash, NEW port \in Port, NEW token,
             AnnouncePeer(from, id, ih, port, token)
      PROVE  LoopInv' /\ LeftInv'
  <2>1. <<from[1], port>> \in Addr
    BY CrawlerAssumption DEF Addr
  <2>2. /\ Receive /\ UNCHANGED secretVars
        /\ UNCHANGED storeVars \/ Store!Announce(ih, <<from[1], port>>)
    BY <1>5 DEF AnnouncePeer
  <2> QED
    BY <2>1, <2>2, ReceiveLoop, PacketLeft DEF Receive
<1>6. CASE Idle
  BY <1>6, PacketLeft DEF Idle, LoopInv
<1>7. CASE Maintain
  <2>1. CASE Due(last_maintenance, MaintenanceInterval)
    <3>1. /\ Store!EvictExpired /\ MaybeRotate /\ last_maintenance' = now
          /\ phase = "maintain" /\ phase' = "select" /\ waiting_since' = now
          /\ UNCHANGED last_packet
      BY <1>7, <2>1 DEF Maintain
    <3>2. now' = now
      BY <3>1, EvictEffect
    <3>3. LoopInv'
      BY <3>1, <3>2, CrawlerAssumption DEF LoopInv
    <3>4. /\ last_rotation' \in Nat
          /\ last_rotation' = now \/ now - last_rotation' < RotationInterval
      BY <3>1 DEF LoopInv, LeftInv, MaybeRotate, Tokens!Rotate, secretVars
    <3>5. ASSUME NEW p \in DOMAIN peers' PROVE peers'[p] \in Nat /\ now - peers'[p] <= PeerTTL
      BY <3>1, EvictEffect, CrawlerAssumption DEF LoopInv, LeftInv
    <3> QED
      BY <3>1, <3>2, <3>3, <3>4, <3>5 DEF LeftInv, LoopInv
  <2>2. CASE ~Due(last_maintenance, MaintenanceInterval)
    <3>1. /\ UNCHANGED <<storeVars, secretVars, last_maintenance, now, last_packet>>
          /\ phase' = "select" /\ waiting_since' = now
          /\ now - last_maintenance < MaintenanceInterval
      BY <1>7, <2>2, CrawlerAssumption DEF Maintain, Due, LoopInv
    <3> QED
      BY <3>1, PacketLeft, CrawlerAssumption DEF LoopInv
  <2> QED
    BY <2>1, <2>2
<1>8. CASE Tick
  <2>1. /\ UNCHANGED <<storeVars, secretVars, loopVars, last_packet>> /\ now' = now + 1
        /\ phase = "select" /\ now - waiting_since < SleepTime
    BY <1>8 DEF Tick
  <2>2. LoopInv'
    BY <2>1, CrawlerAssumption DEF LoopInv, loopVars
  <2>3. LeftInv'
    BY <2>1 DEF LeftInv, LoopInv, loopVars, storeVars, secretVars
  <2> QED
    BY <2>2, <2>3
<1> QED
  BY <1>1, <1>2, <1>3, <1>4, <1>5, <1>6, <1>7, <1>8 DEF Next

\* If packets leave a sleep between them now and then (seconds with packets
\* are more than a sleep apart), maintenance is late by less than two sleeps,
\* however packets cut its sleeps short, and so are the rotation of the secret
\* and the end of a stored peer by no more than a maintenance besides
\* (crawl_loop in engine.rs).
THEOREM MaintenanceComesOnTime ==
  ASSUME SleepTime < MinGap
  PROVE  Spec => []MaintenanceOnTime
<1>1. Init => LoopInv /\ LeftInv
  BY CrawlerAssumption DEF Init, Store!Init, Tokens!Init, LoopInv, LeftInv
<1>2. LoopInv /\ LeftInv /\ [Next]_vars => LoopInv' /\ LeftInv'
  BY LoopStep
<1>3. LoopInv /\ LeftInv => MaintenanceOnTime
  BY CrawlerAssumption DEF LoopInv, LeftInv, MaintenanceOnTime
<1> QED
  BY <1>1, <1>2, <1>3, PTL DEF Spec

-----------------------------------------------------------------------------
(* The infohashes collected.                                               *)

\* The filter holds what the published infohashes put there, and contains
\* everything that came.
SeenInv ==
  /\ published \in [Infohash -> Nat]
  /\ came \subseteq Infohash
  /\ bits = UNION {Seen!places(o) : o \in out}
  /\ \A ih \in came : Seen!places(ih) \subseteq bits
  /\ \A ih \in out : published[ih] = 1
  /\ IsFiniteSet(out) /\ infohashes_collected = Cardinality(out)

\* Collecting an infohash keeps it: one the filter takes for new was not
\* published before.
LEMMA CollectKeeps ==
  ASSUME SeenInv, NEW ih \in Infohash, Collect(ih)
  PROVE  SeenInv'
<1>1. CASE UNCHANGED <<bits, infohashes_collected, published>> /\ Seen!contains(ih)
  <2>1. out' = out /\ came' = came \cup {ih}
    BY <1>1 DEF out, Collect
  <2>2. \A i \in came' : Seen!places(i) \subseteq bits
    BY <1>1, <2>1 DEF SeenInv, Seen!contains
  <2> QED
    BY <1>1, <2>1, <2>2 DEF SeenInv
<1>2. CASE /\ ~Seen!contains(ih) /\ Seen!insert(ih)
           /\ infohashes_collected' = infohashes_collected + 1
           /\ published' = [published EXCEPT ![ih] = @ + 1]
  <2>1. ih \notin out
    BY <1>2 DEF SeenInv, Seen!contains
  <2>2. published[ih] = 0
    BY <2>1 DEF SeenInv, out
  <2>3. /\ published' \in [Infohash -> Nat] /\ published'[ih] = 1
        /\ \A i \in Infohash \ {ih} : published'[i] = published[i]
    BY <1>2, <2>2 DEF SeenInv
  <2>4. out' = out \cup {ih}
    BY <2>3 DEF out
  <2>5. bits' = bits \cup Seen!places(ih) /\ came' = came \cup {ih}
    BY <1>2 DEF Seen!insert, Collect
  <2>6. bits' = UNION {Seen!places(o) : o \in out'}
    BY <2>4, <2>5 DEF SeenInv
  <2>7. /\ came' \subseteq Infohash
        /\ \A i \in came' : Seen!places(i) \subseteq bits'
    BY <2>5 DEF SeenInv
  <2>8. \A i \in out' : published'[i] = 1
    BY <2>3, <2>4 DEF SeenInv, out
  <2>9. IsFiniteSet(out') /\ infohashes_collected' = Cardinality(out')
    BY <1>2, <2>1, <2>4, FS_AddElement DEF SeenInv
  <2> QED
    BY <2>3, <2>6, <2>7, <2>8, <2>9 DEF SeenInv
<1> QED
  BY <1>1, <1>2 DEF Collect, Seen!insert_and_check

\* An infohash is published once, however often and by whatever message it
\* comes, and one that is not was hidden by others in the filter, for every
\* pair of hash functions and size of the filter (collecting infohashes in
\* handle_message, insert_and_check in bloom.rs).
THEOREM InfohashesCollectedOnce == Spec => []CollectedOnce
<1>1. Init => SeenInv
  <2> SUFFICES ASSUME Init PROVE SeenInv
    OBVIOUS
  <2>1. out = {}
    BY DEF Init, out
  <2> QED
    BY <2>1, FS_EmptySet DEF Init, Seen!Init, SeenInv
<1>2. SeenInv /\ [Next]_vars => SeenInv'
  <2> SUFFICES ASSUME SeenInv, [Next]_vars PROVE SeenInv'
    OBVIOUS
  <2>1. ASSUME UNCHANGED seenVars PROVE SeenInv'
    <3>1. out' = out
      BY <2>1 DEF seenVars, out
    <3> QED
      BY <2>1, <3>1 DEF seenVars, SeenInv
  <2>2. UNCHANGED seenVars \/ \E ih \in Infohash : Collect(ih)
    BY DEF Next, vars, PingBootstrap, BootstrapDone, AnswerOnly, GetPeers, AnnouncePeer, Idle,
           Maintain, Tick
  <2> QED
    BY <2>1, <2>2, CollectKeeps
<1>3. SeenInv => CollectedOnce
  BY DEF SeenInv, CollectedOnce
<1> QED
  BY <1>1, <1>2, <1>3, PTL DEF Spec

-----------------------------------------------------------------------------
(* What enters the store.                                                  *)

\* A token names the address it was handed to.
EnterInv ==
  /\ \A t \in issued : \E secret : t.token = <<t.addr, secret>>
  /\ StoredVerified

\* A token that verifies for an address was handed to that address.
LEMMA VerifiedIsHolder ==
  ASSUME EnterInv, NEW from, NEW token \in Presented, Tokens!verify(from, token)
  PROVE  from \in holders
<1>1. PICK secret : token = <<from, secret>>
  BY DEF Tokens!verify, Tokens!generate_with_secret
<1>2. PICK t \in issued : token = t.token
  BY <1>1 DEF Presented
<1> QED
  BY <1>1, <1>2 DEF EnterInv, holders

\* Every step keeps it: a peer is stored only for the holder of a good token.
LEMMA EnterNext == EnterInv /\ [Next]_vars => EnterInv'
<1> SUFFICES ASSUME EnterInv, [Next]_vars PROVE EnterInv'
  OBVIOUS
<1>1. ASSUME UNCHANGED issued, \A p \in DOMAIN peers' : p \in DOMAIN peers
      PROVE  EnterInv'
  BY <1>1 DEF EnterInv, StoredVerified, holders
<1>2. ASSUME NEW from \in Remote, NEW ih \in Infohash, GetPeers(from, ih) PROVE EnterInv'
  <2> DEFINE t == [addr |-> from, token |-> <<from, current_secret>>, at |-> now]
  <2>1. issued' = issued \cup {t} /\ peers' = peers
    BY <1>2 DEF GetPeers, Tokens!Issue, Tokens!generate, Tokens!generate_with_secret, storeVars
  <2>2. holders \subseteq holders'
    BY <2>1 DEF holders
  <2> QED
    BY <2>1, <2>2 DEF EnterInv, StoredVerified
<1>3. ASSUME NEW from \in Remote, NEW id, NEW ih \in Infohash, NEW port \in Port,
             NEW token \in Presented, AnnouncePeer(from, id, ih, port, token)
      PROVE  EnterInv'
  <2>1. CASE Tokens!verify(from, token)
    <3>1. from \in holders
      BY <2>1, VerifiedIsHolder
    <3>2. UNCHANGED issued /\ Store!Announce(ih, <<from[1], port>>)
      BY <1>3, <2>1 DEF AnnouncePeer
    <3>3. \A p \in DOMAIN peers' : p \in DOMAIN peers \/ p = <<ih, <<from[1], port>>>>
      BY <3>2, AnnounceEffect
    <3> QED
      BY <3>1, <3>2, <3>3 DEF EnterInv, StoredVerified, holders
  <2>2. CASE ~Tokens!verify(from, token)
    BY <1>1, <1>3, <2>2 DEF AnnouncePeer, storeVars
  <2> QED
    BY <2>1, <2>2
<1>4. CASE Maintain
  BY <1>1, <1>4, EvictEffect DEF Maintain, storeVars
<1>5. CASE \/ UNCHANGED vars \/ BootstrapDone \/ AnswerOnly \/ Idle \/ Tick
           \/ \E addr \in Bootstrap : PingBootstrap(addr)
  BY <1>1, <1>5 DEF vars, storeVars, BootstrapDone, AnswerOnly, Idle, Tick, PingBootstrap
<1> QED
  BY <1>2, <1>3, <1>4, <1>5 DEF Next

\* Every peer in the store has the ip of an address that asked before and was
\* handed a token: a host that never asked is never stored (handle_message in
\* engine.rs and token.rs).
THEOREM StoreHoldsVerified == Spec => []StoredVerified
<1>1. Init => EnterInv
  BY DEF Init, Store!Init, Tokens!Init, EnterInv, StoredVerified
<1>2. EnterInv /\ [Next]_vars => EnterInv'
  BY EnterNext
<1>3. EnterInv => StoredVerified
  BY DEF EnterInv
<1> QED
  BY <1>1, <1>2, <1>3, PTL DEF Spec

\* The crawler uses its store as DhtStore has it: whatever packets come and
\* whenever maintenance runs, the store's part of the state is a behaviour of
\* DhtStore, and all that is proved of the store holds in the crawler.
THEOREM StoreInCrawler == Spec => Store!Spec
<1>1. Init => Store!Init
  BY DEF Init
<1>2. [Next]_vars => [Store!Next]_(Store!vars)
  <2> SUFFICES ASSUME [Next]_vars PROVE [Store!Next]_(Store!vars)
    OBVIOUS
  <2>1. CASE UNCHANGED <<storeVars, now>>
    BY <2>1 DEF Store!vars, Store!storeVars, storeVars
  <2>2. ASSUME NEW from \in Remote, NEW id, NEW ih \in Infohash, NEW port \in Port, NEW token,
               AnnouncePeer(from, id, ih, port, token)
        PROVE  [Store!Next]_(Store!vars)
    <3>1. <<from[1], port>> \in Addr
      BY CrawlerAssumption DEF Addr
    <3>2. UNCHANGED <<storeVars, now>> \/ Store!Announce(ih, <<from[1], port>>)
      BY <2>2 DEF AnnouncePeer, Receive
    <3> QED
      BY <2>1, <3>1, <3>2 DEF Store!Next
  <2>3. CASE Maintain
    BY <2>1, <2>3 DEF Maintain, Store!Next
  <2>4. CASE Tick
    BY <2>4 DEF Tick, Store!Next, Store!Tick, storeVars, Store!storeVars
  <2>5. CASE \/ UNCHANGED vars \/ BootstrapDone \/ AnswerOnly \/ Idle
             \/ \E from \in Remote, ih \in Infohash : GetPeers(from, ih)
             \/ \E addr \in Bootstrap : PingBootstrap(addr)
    BY <2>1, <2>5 DEF vars, BootstrapDone, AnswerOnly, GetPeers, Receive, Idle, PingBootstrap,
                      Table!Insert
  <2> QED
    BY <2>2, <2>3, <2>4, <2>5 DEF Next
<1> QED
  BY <1>1, <1>2, PTL DEF Spec, Store!Spec

\* The crawler uses its token manager as TokenManager has it: get_peers hands
\* out a token, maintenance rotates when it is due, and no packet changes a
\* secret (handle_message and crawl_loop in engine.rs).
THEOREM TokensInCrawler == Spec => Tokens!Spec
<1>1. Init => Tokens!Init
  BY DEF Init
<1>2. [Next]_vars => [Tokens!Next]_(Tokens!vars)
  <2> SUFFICES ASSUME [Next]_vars PROVE [Tokens!Next]_(Tokens!vars)
    OBVIOUS
  <2>1. CASE UNCHANGED <<secretVars, now, issued>>
    BY <2>1 DEF Tokens!vars, Tokens!secretVars, secretVars
  <2>2. ASSUME NEW from \in Remote, NEW ih, GetPeers(from, ih)
        PROVE  [Tokens!Next]_(Tokens!vars)
    BY <2>2, CrawlerAssumption DEF GetPeers, Tokens!Next, Addr
  <2>3. CASE Maintain
    <3>1. UNCHANGED <<now, issued>>
      BY <2>3, EvictEffect DEF Maintain
    <3>2. Tokens!Rotate \/ UNCHANGED secretVars
      BY <2>3 DEF Maintain, MaybeRotate
    <3> QED
      BY <2>1, <3>1, <3>2 DEF Tokens!Next, Tokens!MaybeRotate
  <2>4. CASE Tick
    BY <2>4 DEF Tick, Tokens!Next, Tokens!Tick, secretVars, Tokens!secretVars
  <2>5. ASSUME NEW from, NEW id, NEW ih, NEW port, NEW token,
               AnnouncePeer(from, id, ih, port, token)
        PROVE  [Tokens!Next]_(Tokens!vars)
    BY <2>1, <2>5 DEF AnnouncePeer, Receive
  <2>6. CASE \/ UNCHANGED vars \/ BootstrapDone \/ AnswerOnly \/ Idle
             \/ \E addr \in Bootstrap : PingBootstrap(addr)
    BY <2>1, <2>6 DEF vars, BootstrapDone, AnswerOnly, Receive, Idle, PingBootstrap, Table!Insert
  <2> QED
    BY <2>2, <2>3, <2>4, <2>5, <2>6 DEF Next
<1> QED
  BY <1>1, <1>2, PTL DEF Spec, Tokens!Spec

\* A node that asked has a rotation interval to announce, whatever packets come
\* and whenever the loop does its maintenance (engine.rs and token.rs).
THEOREM TokenGoodForAnInterval == Spec => []FreshTokenVerifies
  BY TokensInCrawler, TokenFreshVerifies, PTL DEF FreshTokenVerifies

\* The crawler never accepts a token it has refused (engine.rs and token.rs).
THEOREM TokenRefusedForGood == Spec => RefusedForGood
  BY TokensInCrawler, TokenStaysRefused, PTL DEF RefusedForGood

-----------------------------------------------------------------------------
(* The routing table of the crawler, and what enters it.                   *)

\* What a step of the crawler does to its routing table.
LEMMA TableStep ==
  ASSUME [Next]_vars
  PROVE  \/ UNCHANGED <<tableVars, now>>
         \/ \E addr \in Bootstrap, id \in NodeIds : Table!Insert(id, addr)
         \/ \E from \in Remote, id \in NodeIds, token \in Presented :
              Tokens!verify(from, token) /\ Table!Insert(id, from)
         \/ Table!EvictExpired
         \/ Tick
<1>1. CASE UNCHANGED vars
  BY <1>1 DEF vars
<1>2. ASSUME NEW addr \in Bootstrap, PingBootstrap(addr)
      PROVE  UNCHANGED <<tableVars, now>> \/ \E id \in NodeIds : Table!Insert(id, addr)
  BY <1>2 DEF PingBootstrap
<1>3. ASSUME NEW from \in Remote, NEW id \in NodeIds, NEW ih, NEW port, NEW token \in Presented,
             AnnouncePeer(from, id, ih, port, token)
      PROVE  \/ UNCHANGED <<tableVars, now>>
             \/ (Tokens!verify(from, token) /\ Table!Insert(id, from))
  BY <1>3 DEF AnnouncePeer, Receive
<1>4. CASE Maintain
  BY <1>4 DEF Maintain
<1>5. CASE \/ BootstrapDone \/ AnswerOnly \/ Idle
           \/ \E from \in Remote, ih \in Infohash : GetPeers(from, ih)
  BY <1>5 DEF BootstrapDone, AnswerOnly, Receive, GetPeers, Idle
<1> QED
  BY <1>1, <1>2, <1>3, <1>4, <1>5 DEF Next

\* The crawler uses its routing table as RoutingTable has it: what a bootstrap
\* and the announces insert and maintenance evicts is a behaviour of
\* RoutingTable (bootstrap, handle_message and maintenance in engine.rs).
THEOREM TableInCrawler == Spec => Table!Spec
<1>1. Init => Table!Init
  BY DEF Init
<1>2. [Next]_vars => [Table!Next]_(Table!vars)
  <2> SUFFICES ASSUME [Next]_vars PROVE [Table!Next]_(Table!vars)
    OBVIOUS
  <2>1. CASE UNCHANGED <<tableVars, now>>
    BY <2>1 DEF tableVars, Table!vars
  <2>2. ASSUME NEW id \in NodeIds, NEW addr \in Remote \cup Bootstrap, Table!Insert(id, addr)
        PROVE  Table!Next
    <3>1. <<id, addr>> \in NodeIds \X (Remote \cup Bootstrap)
      OBVIOUS
    <3> QED
      BY <2>2, <3>1 DEF Table!Next
  <2>3. CASE Tick
    BY <2>3 DEF Tick, Table!Next, Table!Tick, tableVars
  <2> QED
    BY <2>1, <2>2, <2>3, TableStep DEF Table!Next
<1> QED
  BY <1>1, <1>2, PTL DEF Spec, Table!Spec

\* The proofs of the routing table are about the table of the crawler: their
\* operators are, one by one, those it uses.
LEMMA SameTable ==
  /\ TableFacts!RoutingTableAssumption
  /\ Table!all_nodes = TableFacts!all_nodes /\ Table!all_nodes' = TableFacts!all_nodes'
  /\ Table!Init => TableFacts!Init
  /\ \A id, addr : Table!Insert(id, addr) => TableFacts!Insert(id, addr)
  /\ Table!EvictExpired => TableFacts!EvictExpired
<1>1. TableFacts!RoutingTableAssumption
  BY TableAssumption DEF TableFacts!RoutingTableAssumption, Table!RoutingTableAssumption,
     TableFacts!Bits, Table!Bits, TableFacts!Id, Table!Id
<1>2. \A S : Table!Min(S) = TableFacts!Min(S) /\ Table!Max(S) = TableFacts!Max(S)
  BY DEF Table!Min, TableFacts!Min, Table!Max, TableFacts!Max
<1>3. /\ \A e : Table!is_healthy(e) <=> TableFacts!is_healthy(e)
      /\ \A e, t : Table!is_expired(e, t) <=> TableFacts!is_expired(e, t)
  BY DEF Table!is_healthy, TableFacts!is_healthy, Table!is_expired, TableFacts!is_expired
<1>4. \A S, before : Table!listing(S, before) = TableFacts!listing(S, before)
  BY DEF Table!listing, TableFacts!listing, Table!Cardinality, TableFacts!Cardinality
<1>5. /\ \A s, keep : Table!retain(s, keep) = TableFacts!retain(s, keep)
      /\ \A s : Table!sort_by_last_seen(s) = TableFacts!sort_by_last_seen(s)
  BY <1>4 DEF Table!retain, TableFacts!retain, Table!sort_by_last_seen,
     TableFacts!sort_by_last_seen
<1>6. \A bs : /\ Table!places(bs) = TableFacts!places(bs)
              /\ Table!node_count(bs) = TableFacts!node_count(bs)
  <2>1. \A S : Table!Cardinality(S) = TableFacts!Cardinality(S)
    BY DEF Table!Cardinality, TableFacts!Cardinality
  <2> QED
    BY <2>1 DEF Table!places, TableFacts!places, Table!node_count, TableFacts!node_count
<1>7. Table!all_nodes = TableFacts!all_nodes /\ Table!all_nodes' = TableFacts!all_nodes'
  BY DEF Table!all_nodes, TableFacts!all_nodes, Table!entry_at, TableFacts!entry_at,
     Table!places, TableFacts!places
<1>8. Table!EvictExpired <=> TableFacts!EvictExpired
  <2>1. \A b : Table!bucket_evict(b) = TableFacts!bucket_evict(b)
    BY <1>3, <1>5 DEF Table!bucket_evict, TableFacts!bucket_evict
  <2> QED
    BY <1>2, <1>6, <2>1 DEF Table!EvictExpired, TableFacts!EvictExpired
<1>9. \A b, addr : Table!bucket_find(b, addr) = TableFacts!bucket_find(b, addr)
  BY <1>2 DEF Table!bucket_find, TableFacts!bucket_find, Table!SelectInSeq,
     TableFacts!SelectInSeq
<1>10. \A b, e : Table!slot(b, e) = TableFacts!slot(b, e)
  BY <1>2, <1>9 DEF Table!slot, TableFacts!slot, Table!SelectInSeq, TableFacts!SelectInSeq,
     Table!is_healthy, TableFacts!is_healthy, Table!is_expired, TableFacts!is_expired
<1>11. \A b, e : Table!bucket_insert(b, e) = TableFacts!bucket_insert(b, e)
  BY <1>5, <1>10 DEF Table!bucket_insert, TableFacts!bucket_insert, Table!ReplaceAt,
     TableFacts!ReplaceAt
<1>12. \A a, b : Table!common_prefix_len(a, b) = TableFacts!common_prefix_len(a, b)
  BY DEF Table!common_prefix_len, TableFacts!common_prefix_len, Table!xor_distance,
     TableFacts!xor_distance
<1>13. \A b, id : Table!bucket_contains(b, id) <=> TableFacts!bucket_contains(b, id)
  BY <1>12 DEF Table!bucket_contains, TableFacts!bucket_contains
<1>14. \A bs, id : Table!find_bucket(bs, id) = TableFacts!find_bucket(bs, id)
  <2> SUFFICES ASSUME NEW bs, NEW id PROVE Table!find_bucket(bs, id) = TableFacts!find_bucket(bs, id)
    OBVIOUS
  <2> DEFINE I == {i \in 1..Len(bs) : /\ bs[i].prefix_len <= Table!common_prefix_len(own_id, id)
                                      /\ Table!bucket_contains(bs[i], id)}
             J == {i \in 1..Len(bs) : /\ bs[i].prefix_len <= TableFacts!common_prefix_len(own_id, id)
                                      /\ TableFacts!bucket_contains(bs[i], id)}
             m == IF I # {} THEN Table!Min(I) ELSE 0
             n == IF J # {} THEN TableFacts!Min(J) ELSE 0
  <2>1. I = J
    BY <1>12, <1>13
  <2>2. Table!find_bucket(bs, id) = IF m = 0 THEN 1 ELSE m
    BY DEF Table!find_bucket, Table!SelectInSeq
  <2>3. TableFacts!find_bucket(bs, id) = IF n = 0 THEN 1 ELSE n
    BY DEF TableFacts!find_bucket, TableFacts!SelectInSeq
  <2> HIDE DEF I, J
  <2>4. m = n
    BY <1>2, <2>1
  <2> HIDE DEF m, n
  <2> QED
    BY <2>2, <2>3, <2>4
<1>15. \A bs, i : Table!split_bucket(bs, i) = TableFacts!split_bucket(bs, i)
  <2> SUFFICES ASSUME NEW bs, NEW i
               PROVE  Table!split_bucket(bs, i) = TableFacts!split_bucket(bs, i)
    OBVIOUS
  <2> DEFINE s == bs[i].entries
             n == bs[i].prefix_len + 1
             near == {j \in DOMAIN s : Table!common_prefix_len(own_id, s[j].id) >= n}
  <2>1. near = {j \in DOMAIN s : TableFacts!common_prefix_len(own_id, s[j].id) >= n}
    BY <1>12
  <2> QED
    BY <1>2, <1>5, <1>13, <2>1 DEF Table!split_bucket, TableFacts!split_bucket,
       Table!SelectInSeq, TableFacts!SelectInSeq, Table!ReplaceAt, TableFacts!ReplaceAt,
       Table!InsertAt, TableFacts!InsertAt
<1>16. \A bs, e : Table!attempt(bs, e) = TableFacts!attempt(bs, e)
  BY <1>10, <1>11, <1>14 DEF Table!attempt, TableFacts!attempt, Table!ReplaceAt,
     TableFacts!ReplaceAt
<1>17. \A bs, e : Table!insert_entry(bs, e) = TableFacts!insert_entry(bs, e)
  BY <1>13, <1>14, <1>15, <1>16 DEF Table!insert_entry, TableFacts!insert_entry
<1>18. \A id, addr : Table!Insert(id, addr) <=> TableFacts!Insert(id, addr)
  BY <1>17 DEF Table!Insert, TableFacts!Insert, Table!new_entry, TableFacts!new_entry
<1>19. Table!Init <=> TableFacts!Init
  BY DEF Table!Init, TableFacts!Init
<1> QED
  BY <1>1, <1>7, <1>8, <1>18, <1>19

\* The table is as its own proofs need it, and the address of each of its
\* entries was handed a token or is one of the bootstrap.
TableEnterInv ==
  /\ TableFacts!TableInv /\ TableFacts!CountCoversNodes
  /\ \A e \in Table!all_nodes : e.addr \in holders \cup Bootstrap

\* Tokens that were handed out stay handed out.
LEMMA IssuedGrows == [Next]_vars => issued \subseteq issued'
  BY DEF Next, vars, PingBootstrap, BootstrapDone, AnswerOnly, GetPeers, Tokens!Issue,
         AnnouncePeer, Idle, Maintain, Tick

\* Every step keeps it: an insert brings in its own address and no other, and
\* an announce inserts the sender only with a token the sender was handed.
LEMMA TableEnterNext ==
  EnterInv /\ TableEnterInv /\ [Next]_vars => TableEnterInv'
<1> SUFFICES ASSUME EnterInv, TableEnterInv, [Next]_vars PROVE TableEnterInv'
  OBVIOUS
<1>1. holders \subseteq holders'
  <2>1. issued \subseteq issued'
    BY IssuedGrows
  <2> QED
    BY <2>1 DEF holders
<1>2. ASSUME NEW id \in NodeIds, NEW addr \in Remote \cup Bootstrap, Table!Insert(id, addr),
             addr \in holders \cup Bootstrap
      PROVE  TableEnterInv'
  <2> DEFINE n == <<id, addr>>
  <2>1. n \in NodeIds \X (Remote \cup Bootstrap) /\ n[1] = id /\ n[2] = addr
    OBVIOUS
  <2>2. TableFacts!Insert(n[1], n[2])
    BY <1>2, <2>1, SameTable
  <2>3. TableFacts!Next
    BY <2>1, <2>2 DEF TableFacts!Next
  <2>4. TableFacts!TableInv' /\ TableFacts!CountCoversNodes'
    BY <2>3, SameTable, TableFacts!NextTable DEF TableEnterInv
  <2>5. \A x \in TableFacts!all_nodes' : x \in TableFacts!all_nodes \/ x.addr = n[2]
    BY <2>1, <2>2, SameTable, TableFacts!InsertBringsOne DEF TableEnterInv
  <2> QED
    BY <1>1, <1>2, <2>1, <2>4, <2>5, SameTable DEF TableEnterInv
<1>3. CASE Table!EvictExpired
  <2>1. TableFacts!EvictExpired /\ TableFacts!Next
    BY <1>3, SameTable DEF TableFacts!Next
  <2>2. TableFacts!TableInv' /\ TableFacts!CountCoversNodes'
    BY <2>1, SameTable, TableFacts!NextTable DEF TableEnterInv
  <2>3. TableFacts!all_nodes' \subseteq TableFacts!all_nodes
    BY <2>1, SameTable, TableFacts!EvictBringsNone DEF TableEnterInv
  <2> QED
    BY <1>1, <2>2, <2>3, SameTable DEF TableEnterInv
<1>4. ASSUME UNCHANGED tableVars, now' = now \/ now' = now + 1
      PROVE  TableEnterInv'
  <2>1. /\ buckets' = buckets /\ total_nodes' = total_nodes
    BY <1>4 DEF tableVars
  <2>2. Table!all_nodes' = Table!all_nodes
    BY <2>1 DEF Table!all_nodes, Table!entry_at, Table!places
  <2>3. TableFacts!TableInv' /\ TableFacts!CountCoversNodes'
    BY <1>4, <2>1 DEF TableEnterInv, TableFacts!TableInv, TableFacts!CountCoversNodes
  <2> QED
    BY <1>1, <2>2, <2>3 DEF TableEnterInv
<1>5. ASSUME NEW from \in Remote, NEW token \in Presented, Tokens!verify(from, token)
      PROVE  from \in holders
  BY <1>5, VerifiedIsHolder
<1>6. CASE Tick
  BY <1>4, <1>6 DEF Tick
<1> QED
  BY <1>2, <1>3, <1>4, <1>5, <1>6, TableStep

\* Nothing enters by announce_peer without the round trip through get_peers:
\* every stored peer has the ip of an address that was handed a token, and every
\* node of the routing table is at such an address or at one of the bootstrap,
\* through splits, displacements and evictions (handle_message in engine.rs).
THEOREM OnlyVerifiedEnters == Spec => []OnlyVerifiedEnter
<1>1. Init => EnterInv /\ TableEnterInv
  <2> SUFFICES ASSUME Init PROVE EnterInv /\ TableEnterInv
    OBVIOUS
  <2>1. EnterInv
    BY DEF Init, Store!Init, Tokens!Init, EnterInv, StoredVerified
  <2>2. TableFacts!Init
    BY SameTable DEF Init
  <2>3. TableFacts!TableInv /\ TableFacts!CountCoversNodes /\ TableFacts!all_nodes = {}
    BY <2>2, SameTable, TableFacts!InitTable, TableFacts!InitHoldsNone
  <2> QED
    BY <2>1, <2>3, SameTable DEF TableEnterInv
<1>2. EnterInv /\ TableEnterInv /\ [Next]_vars => EnterInv' /\ TableEnterInv'
  BY EnterNext, TableEnterNext
<1>3. EnterInv /\ TableEnterInv => OnlyVerifiedEnter
  BY DEF EnterInv, TableEnterInv, OnlyVerifiedEnter
<1> QED
  BY <1>1, <1>2, <1>3, PTL DEF Spec

-----------------------------------------------------------------------------
(* The peer store by itself, with any callers.                             *)

\* The store's constants, and its way to count.
LEMMA StoreConstants ==
  /\ PeerTTL \in Nat /\ MaxTime \in Nat /\ MaxPeers \in Nat /\ MaxPeers >= 2
  /\ \A S : Store!Cardinality(S) = Cardinality(S)
<1>1. Store!DhtStoreAssumption
  BY StoreAssumption
<1>2. \A S : Store!Cardinality(S) = Cardinality(S)
  BY DEF Store!Cardinality, Cardinality
<1> QED BY <1>1, <1>2 DEF Store!DhtStoreAssumption

\* The inductive invariant: the exact counts need the lists bounded (so that a
\* replacement leaves another peer in its list) and the domain finite.
StoreInv ==
  /\ Store!TypeOK
  /\ IsFiniteSet(DOMAIN peers)
  /\ Store!CountersExact
  /\ Store!ListsBounded

-----------------------------------------------------------------------------
(* Finite sets.                                                            *)

\* The infohashes of finitely many entries are finitely many.
LEMMA InfohashesFinite ==
  ASSUME NEW S, IsFiniteSet(S)
  PROVE  IsFiniteSet(Store!infohashes(S))
<1> DEFINE f == [p \in S |-> p[1]]
<1>1. f \in Surjection(S, Store!infohashes(S))
  BY DEF Surjection, Store!infohashes
<1> QED BY <1>1, FS_Surjection

\* Adding a new element adds one to the count.
LEMMA AddCount ==
  ASSUME NEW S, NEW x, x \notin S, IsFiniteSet(S)
  PROVE  /\ IsFiniteSet(S \cup {x})
         /\ Cardinality(S) \in Nat
         /\ Cardinality(S \cup {x}) = Cardinality(S) + 1
<1>1. Cardinality(S \cup {x}) = IF x \in S THEN Cardinality(S) ELSE Cardinality(S) + 1
  BY FS_AddElement
<1> QED BY <1>1, FS_AddElement, FS_CardinalityType

\* Taking a part out of a finite set takes its size off the count.
LEMMA DifferenceCount ==
  ASSUME NEW S, NEW T \in SUBSET S, IsFiniteSet(S)
  PROVE  /\ IsFiniteSet(T) /\ IsFiniteSet(S \ T)
         /\ Cardinality(T) \in Nat /\ Cardinality(S \ T) \in Nat
         /\ Cardinality(S) = Cardinality(T) + Cardinality(S \ T)
<1>1. IsFiniteSet(T) /\ IsFiniteSet(S \ T)
  BY FS_Subset
<1>2. S = T \cup (S \ T) /\ T \cap (S \ T) = {}
  OBVIOUS
<1>3. Cardinality(T) \in Nat /\ Cardinality(S \ T) \in Nat
  BY <1>1, FS_CardinalityType
<1> QED BY <1>1, <1>2, <1>3, FS_Union, FS_EmptySet

-----------------------------------------------------------------------------
(* The end of announce, which Add and ReplaceOldest share.                 *)

\* Push keeps the counts exact when it starts from the exact count of what is
\* left and no infohash went missing with the victim.
LEMMA PushCounts ==
  ASSUME NEW ih \in Infohash, NEW addr \in Addr,
         NEW left \in SUBSET (DOMAIN peers), NEW count \in Nat,
         StoreInv, Store!Push(ih, addr, left, count), <<ih, addr>> \notin left,
         count = Cardinality(left),
         Store!infohashes(left) = Store!infohashes(DOMAIN peers)
  PROVE  Store!TypeOK' /\ IsFiniteSet(DOMAIN peers)' /\ Store!CountersExact'
<1> DEFINE x == <<ih, addr>>
<1>1. IsFiniteSet(left)
  BY FS_Subset DEF StoreInv
<1>2. DOMAIN peers' = left \cup {x} /\ total_peers' = count + 1 /\ now' = now
  BY DEF Store!Push
<1>3. IsFiniteSet(DOMAIN peers') /\ Cardinality(DOMAIN peers') = Cardinality(left) + 1
  <2>1. x \notin left
    OBVIOUS
  <2> HIDE DEF x
  <2> QED BY <2>1, <1>1, <1>2, AddCount
<1>4. Store!infohashes(DOMAIN peers') = Store!infohashes(left) \cup {ih}
  BY <1>2 DEF Store!infohashes
<1>5. IsFiniteSet(Store!infohashes(left))
  BY <1>1, InfohashesFinite
<1>6. Cardinality({p \in left : p[1] = ih}) = 0 <=> ih \notin Store!infohashes(left)
  <2>1. IsFiniteSet({p \in left : p[1] = ih})
    BY <1>1, FS_Subset
  <2>2. {p \in left : p[1] = ih} = {} <=> ih \notin Store!infohashes(left)
    BY DEF Store!infohashes
  <2> QED BY <2>1, <2>2, FS_EmptySet
<1>7. total_infohashes' = Cardinality(Store!infohashes(DOMAIN peers'))
  <2>1. total_infohashes = Cardinality(Store!infohashes(left))
    BY StoreConstants DEF StoreInv, Store!CountersExact
  <2>2. CASE ih \in Store!infohashes(left)
    <3>1. Store!infohashes(left) \cup {ih} = Store!infohashes(left)
      BY <2>2
    <3> QED BY <3>1, <2>1, <2>2, <1>4, <1>6, StoreConstants DEF Store!Push
  <2>3. CASE ih \notin Store!infohashes(left)
    <3>1. Cardinality(Store!infohashes(left) \cup {ih}) = Cardinality(Store!infohashes(left)) + 1
      BY <2>3, <1>5, AddCount
    <3> QED BY <3>1, <2>1, <2>3, <1>4, <1>6, StoreConstants DEF Store!Push
  <2> QED BY <2>2, <2>3
<1>8. Store!TypeOK'
  <2>1. total_peers' \in Nat /\ total_infohashes' \in Nat /\ now' \in 0..MaxTime
    BY <1>2 DEF Store!Push, StoreInv, Store!TypeOK
  <2>2. DOMAIN peers' \subseteq Infohash \X Addr
    BY <1>2 DEF StoreInv, Store!TypeOK
  <2>3. peers' = [p \in left \cup {x} |-> IF p \in left THEN peers[p] ELSE now]
    BY DEF Store!Push
  <2>4. \A p \in DOMAIN peers' : peers'[p] \in Nat /\ peers'[p] <= now'
    <3> SUFFICES ASSUME NEW p \in DOMAIN peers'
                 PROVE  peers'[p] \in Nat /\ peers'[p] <= now'
      OBVIOUS
    <3>1. CASE p \in left
      BY <3>1, <2>3, <1>2 DEF StoreInv, Store!TypeOK
    <3>2. CASE p \notin left
      BY <3>2, <2>3, <1>2, StoreConstants DEF StoreInv, Store!TypeOK
    <3> QED BY <3>1, <3>2
  <2>5. peers' \in [DOMAIN peers' -> Nat]
    BY <2>3, <2>4
  <2> QED BY <2>1, <2>2, <2>4, <2>5 DEF Store!TypeOK
<1> QED BY <1>2, <1>3, <1>7, <1>8, StoreConstants DEF Store!CountersExact

\* Push bounds every list when the pushed one has room left.
LEMMA PushBounded ==
  ASSUME NEW ih \in Infohash, NEW addr \in Addr,
         NEW left \in SUBSET (DOMAIN peers), NEW count \in Nat,
         StoreInv, Store!Push(ih, addr, left, count), <<ih, addr>> \notin left,
         Cardinality({p \in left : p[1] = ih}) < MaxPeers
  PROVE  Store!ListsBounded'
<1> DEFINE x == <<ih, addr>>
<1> SUFFICES ASSUME NEW h \in Infohash
             PROVE  Cardinality(Store!list(h)') <= MaxPeers
  BY StoreConstants DEF Store!ListsBounded
<1> DEFINE rest == {p \in left : p[1] = h}
<1>1. DOMAIN peers' = left \cup {x}
  BY DEF Store!Push
<1>2. IsFiniteSet(DOMAIN peers) /\ IsFiniteSet(left) /\ IsFiniteSet(rest)
  BY FS_Subset DEF StoreInv
<1>3. CASE h = ih
  <2>1. Store!list(h)' = rest \cup {x}
    BY <1>1, <1>3 DEF Store!list
  <2>2. x \notin rest /\ Cardinality(rest) < MaxPeers
    BY <1>3
  <2> HIDE DEF x, rest
  <2>3. Cardinality(Store!list(h)') = Cardinality(rest) + 1 /\ Cardinality(rest) \in Nat
    BY <2>1, <2>2, <1>2, AddCount
  <2> QED BY <2>2, <2>3, StoreConstants
<1>4. CASE h # ih
  <2>1. Store!list(h)' = rest
    BY <1>1, <1>4 DEF Store!list
  <2>2. rest \subseteq Store!list(h) /\ IsFiniteSet(Store!list(h))
    BY <1>2, FS_Subset DEF Store!list
  <2>3. Cardinality(rest) <= Cardinality(Store!list(h))
    BY <2>2, FS_Subset
  <2>4. Cardinality(Store!list(h)) <= MaxPeers
    BY StoreConstants DEF StoreInv, Store!ListsBounded
  <2> QED BY <2>1, <2>2, <2>3, <2>4, <1>2, FS_CardinalityType, StoreConstants
<1> QED BY <1>3, <1>4

-----------------------------------------------------------------------------
(* One step per action.                                                    *)

\* announce of a known peer changes a timestamp only.
LEMMA StoreRefreshStep ==
  ASSUME NEW ih \in Infohash, NEW addr \in Addr, StoreInv, Store!Refresh(ih, addr)
  PROVE  StoreInv'
<1>1. DOMAIN peers' = DOMAIN peers
  BY DEF Store!Refresh
<1>2. Store!TypeOK'
  BY StoreConstants DEF Store!Refresh, StoreInv, Store!TypeOK
<1>3. \A h \in Infohash : Store!list(h)' = Store!list(h)
  BY <1>1 DEF Store!list
<1>4. Store!CountersExact' /\ Store!ListsBounded' /\ IsFiniteSet(DOMAIN peers)'
  BY <1>1, <1>3 DEF StoreInv, Store!CountersExact, Store!ListsBounded, Store!Refresh
<1> QED BY <1>2, <1>4 DEF StoreInv

\* announce of a new peer to a list with room.
LEMMA StoreAddStep ==
  ASSUME NEW ih \in Infohash, NEW addr \in Addr, StoreInv, Store!Add(ih, addr)
  PROVE  StoreInv'
<1>1. /\ <<ih, addr>> \notin DOMAIN peers
      /\ Store!Push(ih, addr, DOMAIN peers, total_peers)
      /\ Cardinality({p \in DOMAIN peers : p[1] = ih}) < MaxPeers
  BY StoreConstants DEF Store!Add, Store!list
<1>2. total_peers \in Nat /\ total_peers = Cardinality(DOMAIN peers)
  BY StoreConstants DEF StoreInv, Store!TypeOK, Store!CountersExact
<1>3. Store!TypeOK' /\ IsFiniteSet(DOMAIN peers)' /\ Store!CountersExact'
  BY <1>1, <1>2, PushCounts
<1>4. Store!ListsBounded'
  BY <1>1, <1>2, PushBounded
<1> QED BY <1>3, <1>4 DEF StoreInv

\* announce of a new peer to a full list: the list still has another peer, so
\* its infohash is neither lost nor counted twice.
LEMMA StoreReplaceStep ==
  ASSUME NEW ih \in Infohash, NEW addr \in Addr, StoreInv, Store!ReplaceOldest(ih, addr)
  PROVE  StoreInv'
<1>1. PICK v \in Store!oldest(ih) :
        Store!Push(ih, addr, DOMAIN peers \ {v}, Store!saturating_sub(total_peers, 1))
  BY DEF Store!ReplaceOldest
<1> DEFINE left == DOMAIN peers \ {v}
           rest == {p \in left : p[1] = ih}
<1>2. v \in DOMAIN peers /\ v[1] = ih /\ v \in Store!list(ih)
  BY DEF Store!oldest, Store!list
<1>3. IsFiniteSet(DOMAIN peers) /\ IsFiniteSet(Store!list(ih))
  BY FS_Subset DEF StoreInv, Store!list
<1>4. Cardinality(Store!list(ih)) = MaxPeers
  BY <1>3, FS_CardinalityType, StoreConstants DEF Store!ReplaceOldest, StoreInv, Store!ListsBounded
<1>5. rest = Store!list(ih) \ {v}
  BY DEF Store!list
<1>6. Cardinality(rest) = MaxPeers - 1 /\ IsFiniteSet(rest)
  BY <1>2, <1>3, <1>4, <1>5, FS_RemoveElement
<1>7. rest # {}
  BY <1>6, FS_EmptySet, StoreConstants
<1>8. Store!infohashes(left) = Store!infohashes(DOMAIN peers)
  BY <1>2, <1>7 DEF Store!infohashes
<1>9. /\ Store!saturating_sub(total_peers, 1) = Cardinality(left)
      /\ Store!saturating_sub(total_peers, 1) \in Nat
  <2>1. Cardinality(left) = Cardinality(DOMAIN peers) - 1 /\ IsFiniteSet(left)
    BY <1>2, <1>3, FS_RemoveElement
  <2>2. Cardinality(left) \in Nat
    BY <2>1, FS_CardinalityType
  <2> QED BY <2>1, <2>2, StoreConstants DEF Store!saturating_sub, StoreInv, Store!TypeOK,
          Store!CountersExact
<1>10. <<ih, addr>> \notin left
  BY DEF Store!ReplaceOldest
<1>11. Store!TypeOK' /\ IsFiniteSet(DOMAIN peers)' /\ Store!CountersExact'
  BY <1>1, <1>8, <1>9, <1>10, PushCounts
<1>12. Store!ListsBounded'
  BY <1>1, <1>6, <1>9, <1>10, PushBounded, StoreConstants
<1> QED BY <1>11, <1>12 DEF StoreInv

\* evict_expired: both counts drop by exactly what goes.
LEMMA StoreEvictStep ==
  ASSUME StoreInv, Store!EvictExpired
  PROVE  StoreInv'
<1> DEFINE kept == {p \in DOMAIN peers : ~Store!is_expired(p)}
           old == Store!infohashes(DOMAIN peers)
           new == Store!infohashes(kept)
<1>1. /\ DOMAIN peers' = kept /\ now' = now
      /\ \A p \in kept : peers'[p] = peers[p]
      /\ peers' \in [kept -> Nat]
  BY DEF Store!EvictExpired, Store!Restrict, StoreInv, Store!TypeOK
<1>2. kept \in SUBSET (DOMAIN peers) /\ new \in SUBSET old
  BY DEF Store!infohashes
<1>3. IsFiniteSet(DOMAIN peers) /\ IsFiniteSet(old)
  BY InfohashesFinite DEF StoreInv
<1>4. total_peers' = Cardinality(kept) /\ total_peers' \in Nat
  <2>1. total_peers' = Store!saturating_sub(total_peers, Cardinality(DOMAIN peers \ kept))
    BY StoreConstants DEF Store!EvictExpired
  <2>2. /\ total_peers = Cardinality(kept) + Cardinality(DOMAIN peers \ kept)
        /\ Cardinality(kept) \in Nat /\ Cardinality(DOMAIN peers \ kept) \in Nat
    BY <1>2, <1>3, DifferenceCount, StoreConstants DEF StoreInv, Store!CountersExact
  <2> QED BY <2>1, <2>2 DEF Store!saturating_sub
<1>5. total_infohashes' = Cardinality(new) /\ total_infohashes' \in Nat
  <2>1. total_infohashes' = Store!saturating_sub(total_infohashes, Cardinality(old \ new))
    BY StoreConstants DEF Store!EvictExpired
  <2>2. /\ total_infohashes = Cardinality(new) + Cardinality(old \ new)
        /\ Cardinality(new) \in Nat /\ Cardinality(old \ new) \in Nat
    BY <1>2, <1>3, DifferenceCount, StoreConstants DEF StoreInv, Store!CountersExact
  <2> QED BY <2>1, <2>2 DEF Store!saturating_sub
<1>6. IsFiniteSet(kept)
  BY <1>2, <1>3, FS_Subset
<1>7. Store!TypeOK'
  BY <1>1, <1>2, <1>4, <1>5 DEF StoreInv, Store!TypeOK
<1>8. Store!ListsBounded'
  <2> SUFFICES ASSUME NEW h \in Infohash
               PROVE  Cardinality(Store!list(h)') <= MaxPeers
    BY StoreConstants DEF Store!ListsBounded
  <2>1. Store!list(h)' \subseteq Store!list(h) /\ IsFiniteSet(Store!list(h))
    BY <1>1, <1>2, <1>3, FS_Subset DEF Store!list
  <2>2. /\ Cardinality(Store!list(h)') <= Cardinality(Store!list(h))
        /\ Cardinality(Store!list(h)') \in Nat /\ Cardinality(Store!list(h)) \in Nat
    BY <2>1, FS_Subset, FS_CardinalityType
  <2>3. Cardinality(Store!list(h)) <= MaxPeers
    BY StoreConstants DEF StoreInv, Store!ListsBounded
  <2> QED BY <2>2, <2>3, StoreConstants
<1> QED BY <1>1, <1>4, <1>5, <1>6, <1>7, <1>8, StoreConstants DEF StoreInv, Store!CountersExact

\* Time passing touches neither the lists nor the counts.
LEMMA StoreTickStep ==
  ASSUME StoreInv, Store!Tick
  PROVE  StoreInv'
<1>1. Store!TypeOK'
  BY StoreConstants DEF Store!Tick, Store!storeVars, StoreInv, Store!TypeOK
<1>2. Store!CountersExact' /\ Store!ListsBounded' /\ IsFiniteSet(DOMAIN peers)'
  BY DEF Store!Tick, Store!storeVars, StoreInv, Store!CountersExact, Store!ListsBounded, Store!list
<1> QED BY <1>1, <1>2 DEF StoreInv

-----------------------------------------------------------------------------
\* The invariant holds in the empty store.
LEMMA StoreInvInit == Store!Init => StoreInv
<1> SUFFICES ASSUME Store!Init PROVE StoreInv
  OBVIOUS
<1>1. DOMAIN peers = {}
  BY DEF Store!Init
<1>2. Store!infohashes(DOMAIN peers) = {} /\ \A ih \in Infohash : Store!list(ih) = {}
  BY <1>1 DEF Store!infohashes, Store!list
<1>3. Store!TypeOK
  BY <1>1, StoreConstants DEF Store!Init, Store!TypeOK
<1>4. Store!CountersExact /\ IsFiniteSet(DOMAIN peers)
  BY <1>1, <1>2, FS_EmptySet, StoreConstants DEF Store!Init, Store!CountersExact
<1>5. Store!ListsBounded
  BY <1>2, FS_EmptySet, StoreConstants DEF Store!ListsBounded
<1> QED BY <1>3, <1>4, <1>5 DEF StoreInv

\* Every step of the store keeps the invariant.
LEMMA StoreInvNext == StoreInv /\ [Store!Next]_(Store!vars) => StoreInv'
<1> SUFFICES ASSUME StoreInv, [Store!Next]_(Store!vars) PROVE StoreInv'
  OBVIOUS
<1>1. ASSUME NEW ih \in Infohash, NEW addr \in Addr, Store!Announce(ih, addr)
      PROVE  StoreInv'
  BY <1>1, StoreRefreshStep, StoreAddStep, StoreReplaceStep DEF Store!Announce
<1>2. CASE Store!EvictExpired
  BY <1>2, StoreEvictStep
<1>3. CASE Store!Tick
  BY <1>3, StoreTickStep
<1>4. CASE UNCHANGED Store!vars
  BY <1>4 DEF Store!vars, Store!storeVars, StoreInv, Store!TypeOK, Store!CountersExact,
     Store!ListsBounded, Store!list
<1> QED BY <1>1, <1>2, <1>3, <1>4 DEF Store!Next

\* The invariant holds throughout.
THEOREM StoreInvariant == Store!Spec => []StoreInv
  BY StoreInvInit, StoreInvNext, PTL DEF Store!Spec

\* The store's variables keep their types and no entry is from the future.
THEOREM StoreTypeCorrect == Store!Spec => []Store!TypeOK
<1>1. StoreInv => Store!TypeOK
  BY DEF StoreInv
<1> QED BY <1>1, StoreInvariant, PTL

\* total_peers() and total_infohashes() are exact, and no list overflows, for
\* every capacity of at least two.
THEOREM StoreCountersExact == Store!Spec => [](CountersExact /\ Store!ListsBounded)
<1>1. StoreInv => CountersExact /\ Store!ListsBounded
  BY DEF StoreInv, CountersExact
<1> QED BY <1>1, StoreInvariant, PTL

\* A replacement takes the oldest peer of a full list and leaves it full.
LEMMA ReplaceTakesOldest ==
  ASSUME NEW ih \in Infohash, NEW addr \in Addr, StoreInv, Store!ReplaceOldest(ih, addr),
         NEW p \in DOMAIN peers, p \notin DOMAIN peers'
  PROVE  /\ Cardinality(Store!list(p[1])) = MaxPeers
         /\ Cardinality(Store!list(p[1])') = MaxPeers
         /\ p \in Store!oldest(p[1])
<1>1. PICK v \in Store!oldest(ih) :
        Store!Push(ih, addr, DOMAIN peers \ {v}, Store!saturating_sub(total_peers, 1))
  BY DEF Store!ReplaceOldest
<1> DEFINE x == <<ih, addr>>
           rest == Store!list(ih) \ {v}
<1>2. DOMAIN peers' = (DOMAIN peers \ {v}) \cup {x}
  BY <1>1 DEF Store!Push
<1>3. p = v /\ p[1] = ih /\ v \in Store!list(ih)
  BY <1>2 DEF Store!oldest, Store!list
<1>4. IsFiniteSet(Store!list(ih))
  BY FS_Subset DEF StoreInv, Store!list
<1>5. Cardinality(Store!list(ih)) = MaxPeers
  BY <1>4, FS_CardinalityType, StoreConstants DEF Store!ReplaceOldest, StoreInv, Store!ListsBounded
<1>6. Store!list(ih)' = rest \cup {x} /\ x \notin rest
  BY <1>2 DEF Store!list, Store!ReplaceOldest
<1>7. IsFiniteSet(rest) /\ Cardinality(rest) = MaxPeers - 1
  BY <1>3, <1>4, <1>5, FS_RemoveElement
<1>8. Cardinality(Store!list(ih)') = MaxPeers
  <2> HIDE DEF x, rest
  <2> QED BY <1>6, <1>7, AddCount, StoreConstants
<1> QED BY <1>1, <1>3, <1>5, <1>8

\* A peer that has not expired leaves the store only as the oldest of a full
\* list that a new peer joins.
THEOREM StoreLosesLiveOnlyByOverflow == Store!Spec => Store!LiveLossOnlyByOverflow
<1> DEFINE lossOk(p) == /\ Store!Cardinality(Store!list(p[1])) = MaxPeers
                        /\ Store!Cardinality(Store!list(p[1])') = MaxPeers
                        /\ p \in Store!oldest(p[1])
           A == \A p \in DOMAIN peers :
                  p \notin DOMAIN peers' /\ ~Store!is_expired(p) => lossOk(p)
<1>1. StoreInv /\ [Store!Next]_(Store!vars) => [A]_(Store!vars)
  <2> SUFFICES ASSUME StoreInv, Store!Next, NEW p \in DOMAIN peers,
                      p \notin DOMAIN peers', ~Store!is_expired(p)
               PROVE  lossOk(p)
    OBVIOUS
  <2>1. ASSUME NEW ih \in Infohash, NEW addr \in Addr, Store!Announce(ih, addr)
        PROVE  lossOk(p)
    <3>1. ~Store!Refresh(ih, addr)
      BY DEF Store!Refresh
    <3>2. ~Store!Add(ih, addr)
      BY DEF Store!Add, Store!Push
    <3>3. Store!ReplaceOldest(ih, addr)
      BY <2>1, <3>1, <3>2 DEF Store!Announce
    <3> QED BY <3>3, ReplaceTakesOldest, StoreConstants
  <2>2. ~Store!EvictExpired
    BY DEF Store!EvictExpired, Store!Restrict
  <2>3. ~Store!Tick
    BY DEF Store!Tick, Store!storeVars
  <2> QED BY <2>1, <2>2, <2>3 DEF Store!Next
<1> QED BY <1>1, StoreInvariant, PTL DEF Store!Spec, Store!LiveLossOnlyByOverflow

-----------------------------------------------------------------------------
(* The store implements PeerDirectory: the mapping hides expired entries.  *)

\* The live entries are those young enough, with their times.
LEMMA LiveEntries ==
  ASSUME Store!TypeOK
  PROVE  /\ DOMAIN Store!live = {p \in DOMAIN peers : now - peers[p] <= PeerTTL}
         /\ \A p \in DOMAIN Store!live : Store!live[p] = peers[p]
  BY StoreConstants DEF Store!TypeOK, Store!live, Store!Restrict, Store!is_expired

\* Both modules count with the same Cardinality.
LEMMA SameCount ==
  ASSUME NEW S
  PROVE  Store!Directory!Cardinality(S) = Cardinality(S)
  BY DEF Store!Directory!Cardinality, Cardinality

\* The live entries of a list that has an expired entry leave room for one.
LEMMA ExpiredLeavesRoom ==
  ASSUME NEW ih \in Infohash, StoreInv, NEW x \in Store!list(ih), x \notin DOMAIN Store!live
  PROVE  Cardinality(Store!Directory!of(ih)) < MaxPeers
<1>1. IsFiniteSet(Store!list(ih)) /\ Cardinality(Store!list(ih)) <= MaxPeers
  BY FS_Subset, StoreConstants DEF StoreInv, Store!ListsBounded, Store!list
<1>2. Store!Directory!of(ih) \subseteq Store!list(ih) \ {x}
  BY LiveEntries DEF StoreInv, Store!Directory!of, Store!list
<1>3. /\ IsFiniteSet(Store!list(ih) \ {x})
      /\ Cardinality(Store!list(ih) \ {x}) = Cardinality(Store!list(ih)) - 1
  BY <1>1, FS_RemoveElement
<1>4. Cardinality(Store!Directory!of(ih)) <= Cardinality(Store!list(ih) \ {x})
  BY <1>2, <1>3, FS_Subset
<1>5. Cardinality(Store!list(ih)) \in Nat /\ Cardinality(Store!Directory!of(ih)) \in Nat
  BY <1>1, <1>2, <1>3, FS_Subset, FS_CardinalityType
<1> QED BY <1>1, <1>3, <1>4, <1>5, StoreConstants

\* announce of a known peer renews a member, or brings one back for which there
\* is room.
LEMMA RefreshRefines ==
  ASSUME NEW ih \in Infohash, NEW addr \in Addr, StoreInv, Store!Refresh(ih, addr)
  PROVE  Store!Directory!Announce(ih, addr)
<1> DEFINE x == <<ih, addr>>
<1>1. x \in DOMAIN Store!live \/ Cardinality(Store!Directory!of(ih)) < MaxPeers
  <2>1. x \in Store!list(ih)
    BY DEF Store!Refresh, Store!list
  <2> QED BY <2>1, ExpiredLeavesRoom
<1>2. Store!TypeOK /\ Store!TypeOK' /\ now' = now /\ x \in DOMAIN peers
  BY StoreRefreshStep DEF StoreInv, Store!Refresh
<1>3. peers' = [peers EXCEPT ![x] = now]
  BY DEF Store!Refresh
<1>4. DOMAIN Store!live' = DOMAIN Store!live \cup {x}
  BY <1>2, <1>3, LiveEntries, StoreConstants
     DEF Store!live, Store!Restrict, Store!is_expired, Store!TypeOK
<1>5. Store!live' = [p \in DOMAIN Store!live \cup {x} |-> IF p = x THEN now ELSE Store!live[p]]
  BY <1>2, <1>3, <1>4, LiveEntries DEF Store!live, Store!Restrict
<1>6. Store!Directory!Cardinality(Store!Directory!of(ih)) = Cardinality(Store!Directory!of(ih))
  BY SameCount
<1> QED BY <1>1, <1>2, <1>5, <1>6 DEF Store!Directory!Announce

\* After Push the live entries are those that were left, and the new one.
LEMMA PushLive ==
  ASSUME NEW ih \in Infohash, NEW addr \in Addr,
         NEW left \in SUBSET (DOMAIN peers), NEW count \in Nat,
         Store!TypeOK, Store!TypeOK', Store!Push(ih, addr, left, count),
         <<ih, addr>> \notin DOMAIN peers
  PROVE  Store!live' = [p \in (DOMAIN Store!live \cap left) \cup {<<ih, addr>>} |->
                    IF p = <<ih, addr>> THEN now ELSE Store!live[p]]
<1> DEFINE x == <<ih, addr>>
<1>1. /\ peers' = [p \in left \cup {x} |-> IF p \in left THEN peers[p] ELSE now]
      /\ now' = now /\ x \notin left /\ x \notin DOMAIN peers
  BY DEF Store!Push
<1>2. now - now <= PeerTTL
  BY StoreConstants DEF Store!TypeOK
<1> HIDE DEF x
<1>3. \A p \in DOMAIN peers' : now' - peers'[p] <= PeerTTL <=> p = x \/ p \in DOMAIN Store!live
  BY <1>1, <1>2, LiveEntries
<1>4. DOMAIN Store!live' = {p \in DOMAIN peers' : now' - peers'[p] <= PeerTTL}
  BY StoreConstants DEF Store!live, Store!Restrict, Store!is_expired, Store!TypeOK
<1>5. DOMAIN Store!live' = (DOMAIN Store!live \cap left) \cup {x}
  BY <1>1, <1>3, <1>4
<1>6. \A p \in DOMAIN Store!live' : Store!live'[p] = IF p = x THEN now ELSE Store!live[p]
  BY <1>1, <1>5, LiveEntries DEF Store!live, Store!Restrict
<1>7. Store!live' = [p \in DOMAIN Store!live' |-> Store!live'[p]]
  BY DEF Store!live, Store!Restrict
<1> QED BY <1>5, <1>6, <1>7 DEF x

\* announce of a new peer to a list with room.
LEMMA AddRefines ==
  ASSUME NEW ih \in Infohash, NEW addr \in Addr, StoreInv, Store!Add(ih, addr)
  PROVE  Store!Directory!Announce(ih, addr)
<1>1. /\ Store!TypeOK /\ Store!TypeOK' /\ now' = now
      /\ <<ih, addr>> \notin DOMAIN peers /\ total_peers \in Nat
      /\ Store!Push(ih, addr, DOMAIN peers, total_peers)
  BY StoreAddStep DEF StoreInv, Store!TypeOK, Store!Add, Store!Push
<1>2. DOMAIN Store!live \cap DOMAIN peers = DOMAIN Store!live
  BY <1>1, LiveEntries
<1>3. Store!live' = [p \in DOMAIN Store!live \cup {<<ih, addr>>} |->
                 IF p = <<ih, addr>> THEN now ELSE Store!live[p]]
  <2>1. Store!live' = [p \in (DOMAIN Store!live \cap DOMAIN peers) \cup {<<ih, addr>>} |->
                   IF p = <<ih, addr>> THEN now ELSE Store!live[p]]
    BY <1>1, PushLive
  <2> QED BY <2>1, <1>2
<1>4. Cardinality(Store!Directory!of(ih)) < MaxPeers
  <2>1. IsFiniteSet(Store!list(ih)) /\ Cardinality(Store!list(ih)) < MaxPeers
    BY FS_Subset, StoreConstants DEF StoreInv, Store!Add, Store!list
  <2>2. Store!Directory!of(ih) \subseteq Store!list(ih)
    BY <1>1, LiveEntries DEF Store!Directory!of, Store!list
  <2>3. /\ Cardinality(Store!Directory!of(ih)) <= Cardinality(Store!list(ih))
        /\ Cardinality(Store!Directory!of(ih)) \in Nat /\ Cardinality(Store!list(ih)) \in Nat
    BY <2>1, <2>2, FS_Subset, FS_CardinalityType
  <2> QED BY <2>1, <2>3, StoreConstants
<1>5. Store!Directory!Cardinality(Store!Directory!of(ih)) < MaxPeers
  BY <1>4, SameCount
<1> QED BY <1>1, <1>3, <1>5 DEF Store!Directory!Announce

\* announce of a new peer to a full list. If the oldest entry has expired, no
\* member goes; if not, the whole list is live and its oldest member goes.
LEMMA ReplaceRefines ==
  ASSUME NEW ih \in Infohash, NEW addr \in Addr, StoreInv, Store!ReplaceOldest(ih, addr)
  PROVE  Store!Directory!Announce(ih, addr)
<1> DEFINE x == <<ih, addr>>
<1>1. PICK v \in Store!oldest(ih) :
        Store!Push(ih, addr, DOMAIN peers \ {v}, Store!saturating_sub(total_peers, 1))
  BY DEF Store!ReplaceOldest
<1>2. /\ Store!TypeOK /\ Store!TypeOK' /\ now' = now /\ x \notin DOMAIN peers
      /\ Store!saturating_sub(total_peers, 1) \in Nat
  BY StoreReplaceStep, <1>1
     DEF StoreInv, Store!TypeOK, Store!ReplaceOldest, Store!Push, Store!saturating_sub
<1>3. Store!live' = [p \in (DOMAIN Store!live \cap (DOMAIN peers \ {v})) \cup {x} |->
                 IF p = x THEN now ELSE Store!live[p]]
  BY <1>1, <1>2, PushLive
<1>4. DOMAIN Store!live \cap (DOMAIN peers \ {v}) = DOMAIN Store!live \ {v}
  BY <1>2, LiveEntries
<1>5. /\ v \in Store!list(ih) /\ \A q \in Store!list(ih) : peers[v] <= peers[q]
      /\ x \notin DOMAIN Store!live
  BY <1>2, LiveEntries DEF Store!oldest
<1>6. Store!Directory!Cardinality(Store!Directory!of(ih)) = Cardinality(Store!Directory!of(ih))
  BY SameCount
<1>7. CASE v \notin DOMAIN Store!live
  <2>1. Cardinality(Store!Directory!of(ih)) < MaxPeers
    BY <1>5, <1>7, ExpiredLeavesRoom
  <2>2. DOMAIN Store!live \ {v} = DOMAIN Store!live
    BY <1>7
  <2> QED BY <2>1, <2>2, <1>2, <1>3, <1>4, <1>6 DEF Store!Directory!Announce
<1>8. CASE v \in DOMAIN Store!live
  <2>1. \A q \in Store!list(ih) : q \in DOMAIN Store!live
    BY <1>2, <1>5, <1>8, LiveEntries, StoreConstants DEF Store!list, Store!TypeOK
  <2>2. Store!Directory!of(ih) = Store!list(ih)
    BY <2>1, <1>2, LiveEntries DEF Store!Directory!of, Store!list
  <2>3. IsFiniteSet(Store!list(ih))
    BY FS_Subset DEF StoreInv, Store!list
  <2>4. ~(Cardinality(Store!Directory!of(ih)) < MaxPeers)
    BY <2>2, <2>3, FS_CardinalityType, StoreConstants DEF Store!ReplaceOldest
  <2>5. v \in Store!Directory!oldest(ih)
    BY <2>1, <2>2, <1>2, <1>5, LiveEntries DEF Store!Directory!oldest
  <2> QED BY <2>4, <2>5, <1>2, <1>3, <1>4, <1>5, <1>6 DEF Store!Directory!Announce
<1> QED BY <1>7, <1>8

\* evict_expired takes away what nobody sees.
LEMMA EvictInvisible ==
  ASSUME Store!TypeOK, Store!EvictExpired
  PROVE  Store!live' = Store!live /\ now' = now
<1> DEFINE kept == {p \in DOMAIN peers : ~Store!is_expired(p)}
<1>1. peers' = [p \in kept |-> peers[p]] /\ now' = now
  BY DEF Store!EvictExpired, Store!Restrict
<1>2. {p \in DOMAIN peers' : ~Store!is_expired(p)'} = kept
  BY <1>1 DEF Store!is_expired
<1> QED BY <1>1, <1>2 DEF Store!live, Store!Restrict

\* When time passes, members leave whose time is over.
LEMMA TickRefines ==
  ASSUME Store!TypeOK, Store!Tick
  PROVE  Store!Directory!Tick
<1> DEFINE young == {p \in DOMAIN Store!live : now + 1 - Store!live[p] <= PeerTTL}
           seen == {p \in DOMAIN peers : ~Store!is_expired(p)}'
<1>1. now < MaxTime /\ now' = now + 1 /\ peers' = peers
  BY DEF Store!Tick, Store!storeVars
<1>2. seen = young
  BY <1>1, LiveEntries, StoreConstants DEF Store!TypeOK, Store!is_expired
<1>3. Store!live' = [p \in seen |-> peers[p]]
  BY <1>1 DEF Store!live, Store!Restrict
<1>4. Store!live' = [p \in young |-> Store!live[p]]
  BY <1>2, <1>3, LiveEntries
<1> QED BY <1>1, <1>4 DEF Store!Directory!Tick, Store!Directory!Restrict

\* The store implements the directory, for every lifetime and every capacity of
\* at least two: whenever it evicts, those who ask see members that leave the
\* moment they expire, and a live one is given up only as the oldest of a full
\* list of live ones.
THEOREM StoreImplementsDirectory == Store!Spec => ActsAsDirectory
<1>1. Store!Init => Store!Directory!Init
  BY DEF Store!Init, Store!Directory!Init, Store!live, Store!Restrict
<1>2. StoreInv /\ [Store!Next]_(Store!vars) => [Store!Directory!Next]_<<Store!live, now>>
  <2> SUFFICES ASSUME StoreInv, [Store!Next]_(Store!vars)
               PROVE  Store!Directory!Next \/ (Store!live' = Store!live /\ now' = now)
    OBVIOUS
  <2>1. ASSUME NEW ih \in Infohash, NEW addr \in Addr, Store!Announce(ih, addr)
        PROVE  Store!Directory!Next
    BY <2>1, RefreshRefines, AddRefines, ReplaceRefines DEF Store!Announce, Store!Directory!Next
  <2>2. CASE Store!EvictExpired
    BY <2>2, EvictInvisible DEF StoreInv
  <2>3. CASE Store!Tick
    BY <2>3, TickRefines DEF StoreInv, Store!Directory!Next
  <2>4. CASE UNCHANGED Store!vars
    BY <2>4 DEF Store!vars, Store!storeVars, Store!live, Store!is_expired
  <2> QED BY <2>1, <2>2, <2>3, <2>4 DEF Store!Next
<1> QED BY <1>1, <1>2, StoreInvariant, PTL
        DEF Store!Spec, ActsAsDirectory, Store!ActsAsDirectory, Store!Directory!Spec

\* In the crawler, whatever packets come and however seldom maintenance finds
\* time to evict, the cached counts are exact and those who ask see a directory
\* whose members leave the moment they expire (engine.rs and store.rs).
THEOREM CrawlerServesDirectory ==
  Spec => [](CountersExact /\ Store!ListsBounded) /\ ActsAsDirectory
  BY StoreInCrawler, StoreCountersExact, StoreImplementsDirectory, PTL

=============================================================================
