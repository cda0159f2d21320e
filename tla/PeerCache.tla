----------------------------- MODULE PeerCache -----------------------------
(***************************************************************************)
(* The peer cache of src/cache.rs and the threads that share it: requests  *)
(* that discover peers and add them (rest_api.rs, http_tracker.rs,         *)
(* aggregator.rs), connection feedback, and the cleanup of health_check.rs.*)
(*                                                                         *)
(* The cache is a DashMap: a lock covers one infohash (its shard), never   *)
(* the whole map. What the code does under one lock is one action; every   *)
(* walk over the map is one action per infohash, and so is every eviction. *)
(*                                                                         *)
(* The map of maps is a partial function of <<infohash, addr>>; an entry   *)
(* left empty, which only stats() and infohashes() tell from none at all,  *)
(* is not kept. Priorities are left open: where the code sorts by          *)
(* priority_score, any order may come out.                                 *)
(***************************************************************************)
EXTENDS Integers, FiniteSets, Sequences, FiniteSetsExt

CONSTANTS
  Shards,          \* the infohashes, in the order iter() visits them
  Addr,
  Task,            \* requests that may be in flight together
  max_peers,       \* bound of the whole cache
  max_per_infohash,
  Limit,           \* bound of one aggregated answer
  PeerTTL,         \* PeerInfo::is_expired (86400)
  FailLimit,       \* failures that remove a peer (5)
  MaxAttempts,     \* bound of connection_attempts
  MaxTime          \* bound of the clock

Infohash == {Shards[i] : i \in DOMAIN Shards}
Key == Infohash \X Addr

ASSUME PeerCacheAssumption ==
  /\ {max_peers, max_per_infohash, Limit, PeerTTL, MaxAttempts, MaxTime} \subseteq Nat
  /\ FailLimit \in Nat \ {0}
  /\ Shards \in Seq(Infohash) /\ IsFiniteSet(Addr)

VARIABLES
  peers,   \* <<infohash, addr>> |-> PeerInfo
  task,    \* per request: where it is and its local variables
  health,  \* the same for the health check task
  now

vars == <<peers, task, health, now>>

PeerInfo == [last_active : 0..MaxTime, connection_attempts : 0..MaxAttempts,
             connection_successes : 0..MaxAttempts]

fresh == [last_active |-> now, connection_attempts |-> 0, connection_successes |-> 0]

is_expired(p) == now - p.last_active > PeerTTL

map(f, ih) == {k \in DOMAIN f : k[1] = ih}

Keep(f, S) == [k \in S |-> f[k]]

Empty == [k \in {} |-> fresh]

unexpired(f) == {k \in DOMAIN f : ~is_expired(f[k])}

-----------------------------------------------------------------------------
(* A request: look into the cache, discover, add_peers.                    *)

idle == [pc |-> "idle"]

Init ==
  /\ peers = Empty
  /\ task = [t \in Task |-> idle]
  /\ health = idle
  /\ now = 0

\* discover_handler (past its look into the cache) and
\* trigger_backend_discovery start with nothing; the aggregator's
\* discover_peers starts with a copy of what get_peers gives it.
Request(t, ih) ==
  /\ task[t] = idle
  /\ \/ task' = [task EXCEPT ![t] = [pc |-> "discover", ih |-> ih, cached |-> Empty]]
     \/ \E S \in SUBSET (map(peers, ih) \cap unexpired(peers)) :
          /\ S # {} /\ Cardinality(S) <= Limit
          /\ S # map(peers, ih) \cap unexpired(peers) => Cardinality(S) = Limit
          /\ task' = [task EXCEPT ![t] =
                        [pc |-> "discover", ih |-> ih, cached |-> Keep(peers, S)]]
  /\ UNCHANGED <<peers, health, now>>

\* The discoverers have answered or timed out. A discovered peer loses to the
\* cached copy of the same address, and the aggregator keeps Limit of them (of
\* found alone, another found stands for what it keeps). With no peer at all
\* the aggregator may still go on to add_peers; the others never do. A peer
\* PEX knows comes with the time it was first heard of, any other is new.
Answer(t, found, seen) ==
  LET cached == task[t].cached
      all == [k \in DOMAIN cached \cup {<<task[t].ih, a>> : a \in found} |->
                IF k \in DOMAIN cached THEN cached[k]
                ELSE [fresh EXCEPT !.last_active = seen]]
  IN  /\ task[t].pc = "discover"
      /\ \/ /\ DOMAIN all = {}
            /\ task' = [task EXCEPT ![t] = idle]
         \/ \E S \in SUBSET DOMAIN all :
              /\ S # {} \/ DOMAIN all = {}
              /\ S # DOMAIN all => DOMAIN cached # {} /\ Cardinality(S) = Limit
              /\ task' = [task EXCEPT ![t] =
                            [pc |-> "add", ih |-> task[t].ih, new_peers |-> Keep(all, S)]]
      /\ UNCHANGED <<peers, health, now>>

\* Planted fault: the successes of the new record replace the old ones.
merge_overwrites(existing, peer) ==
  [existing EXCEPT !.last_active = now,
                   !.connection_attempts = Max({@, peer.connection_attempts}),
                   !.connection_successes = peer.connection_successes]

merge(existing, peer) ==
  [existing EXCEPT !.last_active = now,
                   !.connection_attempts = Max({@, peer.connection_attempts}),
                   !.connection_successes = Max({@, peer.connection_successes})]

\* The first half of add_peers, under the lock of the infohash: merge or
\* insert, drop what has expired, drop down to max_per_infohash.
AddPeers(t) ==
  LET ih == task[t].ih
      new_peers == task[t].new_peers
      merged == [k \in DOMAIN peers \cup DOMAIN new_peers |->
                   IF k \notin DOMAIN peers THEN new_peers[k]
                   ELSE IF k \in DOMAIN new_peers THEN merge(peers[k], new_peers[k])
                   ELSE peers[k]]
      live == map(merged, ih) \cap unexpired(merged)
      over == Max({Cardinality(live) - max_per_infohash, 0})
  IN  /\ task[t].pc = "add"
      /\ \E drop \in kSubset(over, live) :
           peers' = Keep(merged, (DOMAIN merged \ map(merged, ih)) \cup (live \ drop))
      /\ task' = [task EXCEPT ![t] = [pc |-> "count", at |-> 1, total |-> 0]]
      /\ UNCHANGED <<health, now>>

-----------------------------------------------------------------------------
(* evict_global_lru: count, then walk again, then evict.                   *)

\* Planted fault: a request leaves the eviction to one that is evicting already.
CountShard_defers(t) ==
  LET s == task[t]
      total == s.total + Cardinality(map(peers, Shards[s.at]))
      busy == \E u \in Task \ {t} : task[u].pc \in {"collect", "evict"}
  IN  /\ s.pc = "count"
      /\ task' = [task EXCEPT ![t] =
           IF s.at < Len(Shards) THEN [s EXCEPT !.at = @ + 1, !.total = total]
           ELSE IF total <= max_peers \/ busy THEN idle
           ELSE [pc |-> "collect", at |-> 1, to_evict |-> total - max_peers,
                 all_peers |-> [k \in {} |-> 0]]]
      /\ UNCHANGED <<peers, health, now>>

\* The sum over the map; at its end, no more than max_peers is no eviction.
CountShard(t) ==
  LET s == task[t]
      total == s.total + Cardinality(map(peers, Shards[s.at]))
  IN  /\ s.pc = "count"
      /\ task' = [task EXCEPT ![t] =
           IF s.at < Len(Shards) THEN [s EXCEPT !.at = @ + 1, !.total = total]
           ELSE IF total <= max_peers THEN idle
           ELSE [pc |-> "collect", at |-> 1, to_evict |-> total - max_peers,
                 all_peers |-> [k \in {} |-> 0]]]
      /\ UNCHANGED <<peers, health, now>>

\* The first n of the peers in ascending order of last_active, as collected.
oldest(all_peers, n) ==
  {S \in kSubset(Min({n, Cardinality(DOMAIN all_peers)}), DOMAIN all_peers) :
     \A k \in S, l \in DOMAIN all_peers \ S :
       all_peers[k] <= all_peers[l]}

CollectShard(t) ==
  LET s == task[t]
      here == map(peers, Shards[s.at])
      all_peers == [k \in DOMAIN s.all_peers \cup here |->
                      IF k \in here THEN peers[k].last_active ELSE s.all_peers[k]]
  IN  /\ s.pc = "collect"
      /\ IF s.at < Len(Shards)
         THEN task' = [task EXCEPT ![t].at = @ + 1, ![t].all_peers = all_peers]
         ELSE \E S \in oldest(all_peers, s.to_evict) :
                task' = [task EXCEPT ![t] = [pc |-> "evict", victims |-> Keep(all_peers, S)]]
      /\ UNCHANGED <<peers, health, now>>

\* Planted fault: the address is evicted from every infohash.
Evict_everywhere(t, k) ==
  /\ task[t].pc = "evict"
  /\ LET victims == task[t].victims IN
     /\ k \in DOMAIN victims
     /\ \A l \in DOMAIN victims : victims[k] <= victims[l]
     /\ task' = [task EXCEPT ![t].victims = Keep(victims, DOMAIN victims \ {k})]
  /\ peers' = Keep(peers, {l \in DOMAIN peers : l[2] # k[2]})
  /\ UNCHANGED <<health, now>>

\* One victim after the other, oldest first, each under a lock of its own.
Evict(t, k) ==
  /\ task[t].pc = "evict"
  /\ LET victims == task[t].victims IN
     /\ k \in DOMAIN victims
     /\ \A l \in DOMAIN victims : victims[k] <= victims[l]
     /\ task' = [task EXCEPT ![t].victims = Keep(victims, DOMAIN victims \ {k})]
  /\ peers' = Keep(peers, DOMAIN peers \ {k})
  /\ UNCHANGED <<health, now>>

EvictDone(t) ==
  /\ task[t].pc = "evict"
  /\ DOMAIN task[t].victims = {}
  /\ task' = [task EXCEPT ![t] = idle]
  /\ UNCHANGED <<peers, health, now>>

-----------------------------------------------------------------------------
(* peer_feedback_handler.                                                  *)

MarkConnectionSuccess(k) ==
  /\ k \in DOMAIN peers
  /\ peers[k].connection_attempts < MaxAttempts
  /\ peers' = [peers EXCEPT ![k].connection_attempts = @ + 1,
                            ![k].connection_successes = @ + 1,
                            ![k].last_active = now]
  /\ UNCHANGED <<task, health, now>>

fail(p) == [p EXCEPT !.connection_attempts = @ + 1]

failed_too_often(p) ==
  Max({p.connection_attempts - p.connection_successes, 0}) >= FailLimit

MarkConnectionFailure(k) ==
  /\ k \in DOMAIN peers
  /\ peers[k].connection_attempts < MaxAttempts
  /\ peers' = IF failed_too_often(fail(peers[k]))
              THEN Keep(peers, DOMAIN peers \ {k})
              ELSE [peers EXCEPT ![k] = fail(@)]
  /\ UNCHANGED <<task, health, now>>

\* The download engine reports how a connection went.
PeerFeedback(k, success) ==
  \/ success /\ MarkConnectionSuccess(k)
  \/ ~success /\ MarkConnectionFailure(k)

-----------------------------------------------------------------------------
(* cleanup_expired_peers of the health check. The counts it takes before   *)
(* and after are only logged.                                              *)

CleanupStart ==
  /\ health = idle
  /\ health' = [pc |-> "cleanup", at |-> 1]
  /\ UNCHANGED <<peers, task, now>>

CleanupShard ==
  /\ health.pc = "cleanup"
  /\ peers' = Keep(peers, (DOMAIN peers \ map(peers, Shards[health.at])) \cup unexpired(peers))
  /\ health' = IF health.at < Len(Shards) THEN [health EXCEPT !.at = @ + 1] ELSE idle
  /\ UNCHANGED <<task, now>>

Tick ==
  /\ now < MaxTime
  /\ now' = now + 1
  /\ UNCHANGED <<peers, task, health>>

Next ==
  \/ \E t \in Task :
       \/ \E ih \in Infohash : Request(t, ih)
       \/ \E found \in SUBSET Addr, seen \in 0..now : Answer(t, found, seen)
       \/ AddPeers(t) \/ CountShard(t) \/ CollectShard(t)
       \/ \E k \in Key : Evict(t, k)
       \/ EvictDone(t)
  \/ \E k \in Key, success \in BOOLEAN : PeerFeedback(k, success)
  \/ CleanupStart \/ CleanupShard
  \/ Tick

Spec == Init /\ [][Next]_vars

-----------------------------------------------------------------------------
in_add_peers(t) == task[t].pc \in {"count", "collect", "evict"}

\* The bound of the whole cache holds whenever no add_peers is under way:
\* concurrent calls count and evict on stale walks of the map, but the last
\* one to add always evicts enough. While calls are under way each infohash
\* still keeps to its own bound.
BoundedAtRest ==
  /\ (\A t \in Task : ~in_add_peers(t)) => Cardinality(DOMAIN peers) <= max_peers
  /\ \A ih \in Infohash : Cardinality(map(peers, ih)) <= max_per_infohash

\* No peer stays cached with FailLimit failures, not even when an aggregator
\* merges the counts of a copy it took before the feedback came: merging the
\* attempts and the successes apart never adds up to more failures than the
\* worse of the two records had, and never to more successes than attempts.
FailureBudget ==
  \A k \in DOMAIN peers :
    LET p == peers[k] IN
    /\ p.connection_successes <= p.connection_attempts
    /\ p.connection_attempts - p.connection_successes < FailLimit

\* A peer leaves the cache only when expired, failed, over a bound or evicted:
\* a step that drops a live peer is an add_peers that filled its infohash,
\* an eviction, or the failure that used up its budget.
LiveDropsExplained ==
  [][\A k \in DOMAIN peers :
       k \notin DOMAIN peers' /\ ~is_expired(peers[k]) =>
         \/ \E t \in Task : task[t].pc = "evict" /\ k \in DOMAIN task[t].victims
         \/ Cardinality(map(peers, k[1])') = max_per_infohash
         \/ failed_too_often(fail(peers[k]))]_vars

=============================================================================
