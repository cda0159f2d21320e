-------------------------- MODULE PeerCacheProofs --------------------------
(* Proofs about PeerCache, for any number of concurrent requests, infohashes *)
(* and addresses and every bound of the cache.                               *)
EXTENDS PeerCache, FiniteSetTheorems, TLAPS

-----------------------------------------------------------------------------
(* The inductive invariant.                                                *)

WithinBudget(p) ==
  /\ p \in PeerInfo
  /\ p.connection_successes <= p.connection_attempts
  /\ p.connection_attempts - p.connection_successes < FailLimit

\* Peers as the cache keeps them, the copies requests carry included.
Records(f) == DOMAIN f \subseteq Key /\ \A k \in DOMAIN f : WithinBudget(f[k])

Within(f, ih) == \A k \in DOMAIN f : k[1] = ih

\* Where a request may be, with its local variables.
Stage(s) ==
  \/ s = idle
  \/ /\ s.pc = "discover" /\ s = [pc |-> "discover", ih |-> s.ih, cached |-> s.cached]
     /\ s.ih \in Infohash /\ Records(s.cached) /\ Within(s.cached, s.ih)
  \/ /\ s.pc = "add" /\ s = [pc |-> "add", ih |-> s.ih, new_peers |-> s.new_peers]
     /\ s.ih \in Infohash /\ Records(s.new_peers) /\ Within(s.new_peers, s.ih)
  \/ /\ s.pc = "count" /\ s = [pc |-> "count", at |-> s.at, total |-> s.total]
     /\ s.at \in DOMAIN Shards /\ s.total \in Nat
  \/ /\ s.pc = "collect" /\ s = [pc |-> "collect", at |-> s.at, to_evict |-> s.to_evict,
                                 all_peers |-> s.all_peers]
     /\ s.at \in DOMAIN Shards /\ s.to_evict \in Nat /\ DOMAIN s.all_peers \subseteq Key
  \/ /\ s.pc = "evict" /\ s = [pc |-> "evict", victims |-> s.victims]
     /\ DOMAIN s.victims \subseteq Key

\* The cached peers of the infohashes a walk has behind it.
behind(at) == {k \in DOMAIN peers : \E i \in 1..(at - 1) : k[1] = Shards[i]}

\* A request that brings the cache back below its bound if nobody adds to it
\* meanwhile: its count covers what it has walked over and is still there, its
\* list too, and what is left besides its victims fits.
Restores(s) ==
  \/ s.pc = "count" /\ Cardinality(behind(s.at)) <= s.total
  \/ /\ s.pc = "collect" /\ behind(s.at) \subseteq DOMAIN s.all_peers
     /\ Cardinality(DOMAIN s.all_peers \cup DOMAIN peers) <= s.to_evict + max_peers
  \/ s.pc = "evict" /\ Cardinality(DOMAIN peers \ DOMAIN s.victims) <= max_peers

\* The bound of each infohash.
InfohashesBounded == \A ih \in Infohash : Cardinality(map(peers, ih)) <= max_per_infohash

\* The bound of the whole cache holds or a request is about to restore it.
BoundedOrRestored ==
  Cardinality(DOMAIN peers) <= max_peers \/ \E t \in Task : Restores(task[t])

IInv ==
  /\ now \in 0..MaxTime
  /\ Records(peers)
  /\ DOMAIN task = Task /\ \A t \in Task : Stage(task[t])
  /\ InfohashesBounded
  /\ BoundedOrRestored

-----------------------------------------------------------------------------
(* Sets of peers.                                                          *)

\* A sequence of infohashes and finitely many addresses make finitely many keys.
LEMMA KeysFinite == IsFiniteSet(Key)
<1>1. /\ Len(Shards) \in Nat /\ DOMAIN Shards = 1..Len(Shards)
      /\ Shards \in Surjection(DOMAIN Shards, Infohash)
  <2>1. Shards \in Seq(Infohash)
    BY PeerCacheAssumption
  <2>2. Shards \in [DOMAIN Shards -> Infohash]
    BY <2>1
  <2> QED
    BY <2>1, <2>2 DEF Surjection, Infohash
<1>2. IsFiniteSet(DOMAIN Shards)
  BY <1>1, FS_Interval
<1>3. IsFiniteSet(Infohash)
  BY <1>1, <1>2, FS_Surjection
<1> QED
  BY <1>3, FS_Product, PeerCacheAssumption DEF Key

\* Sets of keys can be counted, and a part counts no more than the whole.
LEMMA KeyCounts ==
  ASSUME NEW S \in SUBSET Key
  PROVE  /\ IsFiniteSet(S) /\ Cardinality(S) \in Nat
         /\ \A T \in SUBSET S : Cardinality(T) \in Nat /\ Cardinality(T) <= Cardinality(S)
<1>1. IsFiniteSet(S)
  BY KeysFinite, FS_Subset
<1>2. \A T \in SUBSET S : IsFiniteSet(T) /\ Cardinality(T) <= Cardinality(S)
  BY <1>1, FS_Subset
<1> QED
  BY <1>1, <1>2, FS_CardinalityType

\* Taking out a part takes its number off.
LEMMA KeysWithout ==
  ASSUME NEW S \in SUBSET Key, NEW T \in SUBSET S
  PROVE  Cardinality(S \ T) = Cardinality(S) - Cardinality(T)
<1>1. S \cap T = T
  OBVIOUS
<1>2. IsFiniteSet(S) /\ IsFiniteSet(T)
  BY KeyCounts
<1> QED
  BY <1>1, <1>2, FS_Difference

\* The larger and the smaller of two numbers.
LEMMA MaxMin ==
  ASSUME NEW x \in Int, NEW y \in Int
  PROVE  /\ Max({x, y}) = IF x >= y THEN x ELSE y
         /\ Min({x, y}) = IF x <= y THEN x ELSE y
BY DEF Max, Min

-----------------------------------------------------------------------------
(* Steps that add nothing to the cache.                                    *)

\* A request that restores the bound still does when others take peers out.
LEMMA RestoresStays ==
  ASSUME NEW s, Stage(s), Restores(s), Records(peers), DOMAIN peers' \subseteq DOMAIN peers
  PROVE  Restores(s)'
<1>1. DOMAIN peers \subseteq Key
  BY DEF Records
<1>2. CASE s.pc = "count"
  <2>1. s.total \in Nat /\ Cardinality(behind(s.at)) <= s.total
    BY <1>2 DEF Stage, Restores, idle
  <2>2. behind(s.at)' \subseteq behind(s.at) /\ behind(s.at) \subseteq Key
    BY <1>1 DEF behind
  <2>3. Cardinality(behind(s.at)') <= s.total
    BY <2>1, <2>2, KeyCounts
  <2> QED
    BY <1>2, <2>3 DEF Restores
<1>3. CASE s.pc = "collect"
  <2> DEFINE known == DOMAIN s.all_peers \cup DOMAIN peers
  <2>1. /\ s.to_evict \in Nat /\ DOMAIN s.all_peers \subseteq Key
        /\ behind(s.at) \subseteq DOMAIN s.all_peers
        /\ Cardinality(known) <= s.to_evict + max_peers
    BY <1>3 DEF Stage, Restores, idle
  <2>2. known' \subseteq known /\ known \subseteq Key
    BY <1>1, <2>1
  <2>3. Cardinality(known') <= s.to_evict + max_peers
    <3>1. Cardinality(known') \in Nat /\ Cardinality(known) \in Nat
          /\ Cardinality(known') <= Cardinality(known)
      BY <2>2, KeyCounts
    <3> HIDE DEF known
    <3> QED
      BY <2>1, <3>1, PeerCacheAssumption
  <2>4. behind(s.at)' \subseteq DOMAIN s.all_peers
    BY <2>1 DEF behind
  <2> QED
    BY <1>3, <2>3, <2>4 DEF Restores
<1>4. CASE s.pc = "evict"
  <2> DEFINE rest == DOMAIN peers \ DOMAIN s.victims
  <2>1. Cardinality(rest) <= max_peers
    BY <1>4 DEF Restores
  <2>2. rest' \subseteq rest /\ rest \subseteq Key
    BY <1>1
  <2>3. Cardinality(rest') <= max_peers
    <3>1. Cardinality(rest') \in Nat /\ Cardinality(rest) \in Nat
          /\ Cardinality(rest') <= Cardinality(rest)
      BY <2>2, KeyCounts
    <3> HIDE DEF rest
    <3> QED
      BY <2>1, <3>1, PeerCacheAssumption
  <2> QED
    BY <1>4, <2>3 DEF Restores
<1> QED
  BY <1>2, <1>3, <1>4 DEF Restores

\* Taking peers out keeps every bound, whatever request t does with its own
\* variables, as long as it does not give up on restoring the bound.
LEMMA ShrinkKeeps ==
  ASSUME IInv, DOMAIN peers' \subseteq DOMAIN peers, Records(peers)', now' \in 0..MaxTime,
         DOMAIN task' = Task, NEW t \in Task, Stage(task'[t]),
         \A u \in Task \ {t} : task'[u] = task[u],
         Restores(task[t]) => Restores(task[t])' \/ Cardinality(DOMAIN peers') <= max_peers
  PROVE  IInv'
<1>1. DOMAIN peers \subseteq Key
  BY DEF IInv, Records
<1>2. InfohashesBounded'
  <2> SUFFICES ASSUME NEW ih \in Infohash
               PROVE  Cardinality(map(peers, ih)') <= max_per_infohash
    BY DEF InfohashesBounded
  <2>1. map(peers, ih)' \subseteq map(peers, ih) /\ map(peers, ih) \subseteq Key
    BY <1>1 DEF map
  <2>2. Cardinality(map(peers, ih)) <= max_per_infohash
    BY DEF IInv, InfohashesBounded
  <2> QED
    BY <2>1, <2>2, KeyCounts, PeerCacheAssumption
<1>3. BoundedOrRestored'
  <2>1. CASE Cardinality(DOMAIN peers) <= max_peers
    <3>1. Cardinality(DOMAIN peers') <= max_peers
      BY <1>1, <2>1, KeyCounts, PeerCacheAssumption
    <3> QED
      BY <3>1 DEF BoundedOrRestored
  <2>2. ASSUME NEW u \in Task \ {t}, Restores(task[u]) PROVE BoundedOrRestored'
    <3>1. PICK s : s = task[u] /\ s = task'[u]
      OBVIOUS
    <3>2. Stage(s) /\ Restores(s)
      BY <2>2, <3>1 DEF IInv
    <3>3. Restores(s)'
      BY <3>2, RestoresStays DEF IInv
    <3>4. Restores(task[u])'
      BY <3>1, <3>3 DEF Restores, behind
    <3> QED
      BY <3>4 DEF BoundedOrRestored
  <2>3. CASE Restores(task[t])
    BY <2>3 DEF BoundedOrRestored
  <2> QED
    BY <2>1, <2>2, <2>3 DEF IInv, BoundedOrRestored
<1>4. \A u \in Task : Stage(task'[u])
  BY DEF IInv
<1> QED
  BY <1>2, <1>3, <1>4 DEF IInv, Stage

-----------------------------------------------------------------------------
(* A request until it adds its peers.                                      *)

\* What request t has when only it moves.
LEMMA OnlyTaskMoves ==
  ASSUME IInv, NEW t \in Task, NEW q, task' = [task EXCEPT ![t] = q]
  PROVE  DOMAIN task' = Task /\ task'[t] = q /\ \A u \in Task \ {t} : task'[u] = task[u]
BY DEF IInv

\* A peer heard of for the first time has no failures.
LEMMA FreshWithinBudget ==
  ASSUME IInv, NEW seen \in 0..now
  PROVE  WithinBudget([fresh EXCEPT !.last_active = seen])
BY PeerCacheAssumption DEF IInv, WithinBudget, PeerInfo, fresh

\* A request starts with a copy of cached peers, or with none.
LEMMA RequestKeeps ==
  ASSUME IInv, NEW t \in Task, NEW ih \in Infohash, Request(t, ih)
  PROVE  IInv'
<1>1. PICK f : /\ task' = [task EXCEPT ![t] = [pc |-> "discover", ih |-> ih, cached |-> f]]
               /\ Records(f) /\ Within(f, ih)
  <2>1. Records(Empty) /\ Within(Empty, ih)
    BY DEF Empty, Records, Within
  <2>2. ASSUME NEW S \in SUBSET (map(peers, ih) \cap unexpired(peers))
        PROVE  Records(Keep(peers, S)) /\ Within(Keep(peers, S), ih)
    <3>1. /\ DOMAIN Keep(peers, S) = S /\ S \subseteq DOMAIN peers
          /\ \A k \in S : Keep(peers, S)[k] = peers[k] /\ k[1] = ih
      BY DEF Keep, map
    <3> QED
      BY <3>1 DEF IInv, Records, Within
  <2> QED
    BY <2>1, <2>2 DEF Request
<1> DEFINE q == [pc |-> "discover", ih |-> ih, cached |-> f]
<1>2. Stage(q)
  BY <1>1 DEF Stage
<1>3. ~Restores(task[t])
  BY DEF Request, idle, Restores
<1>4. UNCHANGED <<peers, now>>
  BY DEF Request
<1> HIDE DEF q
<1> QED
  BY <1>1, <1>2, <1>3, <1>4, OnlyTaskMoves, ShrinkKeeps DEF IInv, Records, q

\* What the discoverers answer, joined with the copy, is within the budget:
\* the copy was taken from the cache, and the rest is new.
LEMMA AnswerKeeps ==
  ASSUME IInv, NEW t \in Task, NEW found \in SUBSET Addr, NEW seen \in 0..now,
         Answer(t, found, seen)
  PROVE  IInv'
<1> DEFINE ih == task[t].ih
           cached == task[t].cached
           all == [k \in DOMAIN cached \cup {<<ih, a>> : a \in found} |->
                     IF k \in DOMAIN cached THEN cached[k]
                     ELSE [fresh EXCEPT !.last_active = seen]]
<1>1. task[t].pc = "discover" /\ Stage(task[t])
  BY DEF Answer, IInv
<1>2. ih \in Infohash /\ Records(cached) /\ Within(cached, ih) /\ ~Restores(task[t])
  BY <1>1 DEF Stage, Restores, idle
<1>3. Records(all) /\ Within(all, ih)
  <2>1. WithinBudget([fresh EXCEPT !.last_active = seen])
    BY FreshWithinBudget
  <2> HIDE DEF ih, cached
  <2>2. \A a \in found : <<ih, a>> \in Key /\ <<ih, a>>[1] = ih
    BY <1>2 DEF Key
  <2> QED
    BY <1>2, <2>1, <2>2 DEF Records, Within
<1>4. UNCHANGED <<peers, now>>
  BY DEF Answer
<1>5. ASSUME NEW q, task' = [task EXCEPT ![t] = q], Stage(q) PROVE IInv'
  BY <1>2, <1>4, <1>5, OnlyTaskMoves, ShrinkKeeps DEF IInv, Records
<1>6. CASE task' = [task EXCEPT ![t] = idle]
  <2>1. Stage(idle)
    BY DEF Stage
  <2> QED
    BY <1>5, <1>6, <2>1
<1>7. ASSUME NEW S \in SUBSET DOMAIN all,
             task' = [task EXCEPT ![t] = [pc |-> "add", ih |-> ih, new_peers |-> Keep(all, S)]]
      PROVE  IInv'
  <2> HIDE DEF all, ih
  <2>1. Records(Keep(all, S)) /\ Within(Keep(all, S), ih)
    <3>1. /\ DOMAIN Keep(all, S) = S
          /\ \A k \in S : Keep(all, S)[k] = all[k]
      BY DEF Keep
    <3> QED
      BY <1>3, <3>1 DEF Records, Within
  <2> DEFINE q == [pc |-> "add", ih |-> ih, new_peers |-> Keep(all, S)]
  <2>2. Stage(q)
    BY <1>2, <2>1 DEF Stage
  <2> QED
    BY <1>5, <1>7, <2>2
<1> QED
  BY <1>6, <1>7 DEF Answer

-----------------------------------------------------------------------------
(* add_peers.                                                              *)

\* Merging two records adds up to no more failures than the worse one had.
LEMMA MergeWithinBudget ==
  ASSUME IInv, NEW e, NEW p, WithinBudget(e), WithinBudget(p)
  PROVE  WithinBudget(merge(e, p)) /\ merge(e, p).last_active = now
<1> DEFINE a == IF e.connection_attempts >= p.connection_attempts
                THEN e.connection_attempts ELSE p.connection_attempts
           b == IF e.connection_successes >= p.connection_successes
                THEN e.connection_successes ELSE p.connection_successes
<1>1. e \in PeerInfo /\ p \in PeerInfo /\ now \in 0..MaxTime /\ FailLimit \in Nat
  BY PeerCacheAssumption DEF WithinBudget, IInv
<1>0. \A r \in {e, p} :
        /\ r.connection_attempts \in 0..MaxAttempts /\ r.connection_successes \in 0..MaxAttempts
        /\ r.connection_attempts \in Int /\ r.connection_successes \in Int
        /\ r.connection_successes <= r.connection_attempts
        /\ r.connection_attempts - r.connection_successes < FailLimit
  BY <1>1 DEF PeerInfo, WithinBudget
<1>2. /\ Max({e.connection_attempts, p.connection_attempts}) = a
      /\ Max({e.connection_successes, p.connection_successes}) = b
  <2> HIDE DEF a, b
  <2>1. \A x, y \in Int : Max({x, y}) = IF x >= y THEN x ELSE y
    BY MaxMin
  <2> QED
    BY <1>0, <2>1 DEF a, b
<1>3. a \in 0..MaxAttempts /\ b \in 0..MaxAttempts /\ b <= a /\ a - b < FailLimit
  BY <1>0, <1>1
<1> HIDE DEF a, b
<1> DEFINE x == [e EXCEPT !.last_active = now]
           y == [x EXCEPT !.connection_attempts = a]
           z == [y EXCEPT !.connection_successes = b]
<1>4. merge(e, p) = z
  BY <1>2 DEF merge
<1>5. x \in PeerInfo /\ x.last_active = now
  BY <1>1 DEF PeerInfo
<1> HIDE DEF x
<1>6. y \in PeerInfo /\ y.last_active = now /\ y.connection_attempts = a
  BY <1>3, <1>5 DEF PeerInfo
<1> HIDE DEF y
<1>7. /\ z \in PeerInfo /\ z.last_active = now
      /\ z.connection_attempts = a /\ z.connection_successes = b
  BY <1>3, <1>6 DEF PeerInfo
<1> HIDE DEF z
<1> QED
  BY <1>3, <1>4, <1>7 DEF WithinBudget

\* What add_peers does: the peers of the infohash are those that are alive
\* after the merge but for as many as are over its bound, the other infohashes
\* stay as they are, and the request goes on to count.
LEMMA AddPeersEffect ==
  ASSUME IInv, NEW t \in Task, AddPeers(t)
  PROVE  \E ih \in Infohash, live \in SUBSET Key : \E drop \in SUBSET live :
           /\ Records(peers')
           /\ map(peers', ih) = live \ drop
           /\ \A j \in Infohash \ {ih} : map(peers', j) = map(peers, j)
           /\ \A k \in DOMAIN peers : k[1] = ih /\ ~is_expired(peers[k]) => k \in live
           /\ Cardinality(drop) = IF Cardinality(live) >= max_per_infohash
                                  THEN Cardinality(live) - max_per_infohash ELSE 0
           /\ task' = [task EXCEPT ![t] = [pc |-> "count", at |-> 1, total |-> 0]]
           /\ 1 \in DOMAIN Shards
<1>0. PICK ih : ih = task[t].ih
  OBVIOUS
<1> DEFINE new_peers == task[t].new_peers
           merged == [k \in DOMAIN peers \cup DOMAIN new_peers |->
                        IF k \notin DOMAIN peers THEN new_peers[k]
                        ELSE IF k \in DOMAIN new_peers THEN merge(peers[k], new_peers[k])
                        ELSE peers[k]]
           live == map(merged, ih) \cap unexpired(merged)
           over == Max({Cardinality(live) - max_per_infohash, 0})
           left(drop) == (DOMAIN merged \ map(merged, ih)) \cup (live \ drop)
<1>1. Stage(task[t]) /\ task[t].pc = "add" /\ Records(peers)
  BY DEF AddPeers, IInv
<1>2. ih \in Infohash /\ Records(new_peers) /\ Within(new_peers, ih)
  BY <1>0, <1>1 DEF Stage, idle
<1>3. PICK drop \in kSubset(over, live) : peers' = Keep(merged, left(drop))
  BY <1>0 DEF AddPeers
<1>4. task' = [task EXCEPT ![t] = [pc |-> "count", at |-> 1, total |-> 0]]
  BY DEF AddPeers
<1> HIDE DEF new_peers
<1>5. DOMAIN merged = DOMAIN peers \cup DOMAIN new_peers
  OBVIOUS
<1>6. Records(merged)
  BY <1>1, <1>2, MergeWithinBudget DEF Records
<1>7. \A k \in DOMAIN peers : ~is_expired(peers[k]) => ~is_expired(merged[k])
  <2> SUFFICES ASSUME NEW k \in DOMAIN peers, ~is_expired(peers[k])
               PROVE  ~is_expired(merged[k])
    OBVIOUS
  <2>1. merged[k] = peers[k] \/ merged[k].last_active = now
    BY <1>1, <1>2, MergeWithinBudget DEF Records
  <2> HIDE DEF merged
  <2> QED
    BY <2>1, PeerCacheAssumption DEF is_expired, IInv
<1> HIDE DEF merged
<1>8. live \in SUBSET Key /\ map(merged, ih) \subseteq DOMAIN merged
  BY <1>6 DEF Records, map
<1>9. drop \in SUBSET live /\ Cardinality(drop) = over
  BY <1>3 DEF kSubset
<1>10. over = IF Cardinality(live) >= max_per_infohash
              THEN Cardinality(live) - max_per_infohash ELSE 0
  <2>1. Cardinality(live) \in Nat
    BY <1>8, KeyCounts
  <2> HIDE DEF live
  <2> QED
    BY <2>1, MaxMin, PeerCacheAssumption
<1> HIDE DEF over
<1>11. /\ DOMAIN peers' = left(drop) /\ left(drop) \subseteq DOMAIN merged
       /\ \A k \in left(drop) : peers'[k] = merged[k]
  BY <1>3, <1>8 DEF Keep
<1>12. Records(peers')
  BY <1>6, <1>11 DEF Records
<1>13. map(peers', ih) = live \ drop
  BY <1>11 DEF map
<1>14. \A j \in Infohash \ {ih} : map(peers', j) = map(peers, j)
  BY <1>2, <1>5, <1>11 DEF map, Within
<1>15. \A k \in DOMAIN peers : k[1] = ih /\ ~is_expired(peers[k]) => k \in live
  BY <1>5, <1>7 DEF map, unexpired
<1>16. 1 \in DOMAIN Shards
  BY <1>2, PeerCacheAssumption DEF Infohash
<1> HIDE DEF live
<1>17. live \in SUBSET Key
  BY <1>8
<1> USE <1>2, <1>9, <1>17
<1> WITNESS ih \in Infohash, live \in SUBSET Key
<1> WITNESS drop \in SUBSET live
<1> QED
  BY <1>4, <1>9, <1>10, <1>12, <1>13, <1>14, <1>15, <1>16

\* After add_peers the infohash is within its bound, and the request that
\* added is the one that restores the bound of the cache: it has counted
\* nothing yet.
LEMMA AddPeersKeeps ==
  ASSUME IInv, NEW t \in Task, AddPeers(t)
  PROVE  IInv'
<1>1. PICK ih \in Infohash, live \in SUBSET Key : \E drop \in SUBSET live :
           /\ Records(peers')
           /\ map(peers', ih) = live \ drop
           /\ \A j \in Infohash \ {ih} : map(peers', j) = map(peers, j)
           /\ Cardinality(drop) = IF Cardinality(live) >= max_per_infohash
                                  THEN Cardinality(live) - max_per_infohash ELSE 0
           /\ task' = [task EXCEPT ![t] = [pc |-> "count", at |-> 1, total |-> 0]]
           /\ 1 \in DOMAIN Shards
  BY AddPeersEffect
<1>2. PICK drop \in SUBSET live :
           /\ map(peers', ih) = live \ drop
           /\ Cardinality(drop) = IF Cardinality(live) >= max_per_infohash
                                  THEN Cardinality(live) - max_per_infohash ELSE 0
  BY <1>1
<1>3. Cardinality(map(peers', ih)) <= max_per_infohash
  <2>1. Cardinality(live \ drop) = Cardinality(live) - Cardinality(drop)
    BY KeysWithout
  <2>2. Cardinality(live) \in Nat
    BY KeyCounts
  <2> QED
    BY <1>2, <2>1, <2>2, PeerCacheAssumption
<1>4. InfohashesBounded'
  <2>1. \A j \in Infohash : Cardinality(map(peers', j)) <= max_per_infohash
    BY <1>1, <1>3 DEF IInv, InfohashesBounded
  <2> QED
    BY <2>1 DEF InfohashesBounded
<1> DEFINE q == [pc |-> "count", at |-> 1, total |-> 0]
<1>5. DOMAIN task' = Task /\ task'[t] = q /\ \A u \in Task \ {t} : task'[u] = task[u]
  BY <1>1, OnlyTaskMoves
<1>6. Stage(q)
  BY <1>1 DEF Stage
<1>7. BoundedOrRestored'
  <2>1. behind(1)' = {} /\ Cardinality({}) = 0
    BY FS_EmptySet DEF behind
  <2>2. Restores(q)'
    BY <2>1 DEF Restores
  <2>3. Restores(task[t])'
    BY <1>5, <2>2 DEF Restores, behind
  <2> QED
    BY <2>3 DEF BoundedOrRestored
<1> HIDE DEF q
<1>8. now' = now
  BY DEF AddPeers
<1> QED
  BY <1>1, <1>4, <1>5, <1>6, <1>7, <1>8 DEF IInv, Stage

-----------------------------------------------------------------------------
(* evict_global_lru.                                                       *)

\* The three stages of it, and when a request in them restores the bound.
LEMMA CountStage ==
  ASSUME NEW n \in DOMAIN Shards, NEW m \in Nat, NEW q, q = [pc |-> "count", at |-> n, total |-> m]
  PROVE  Stage(q) /\ (Restores(q) <=> Cardinality(behind(n)) <= m)
<1>1. q.pc = "count" /\ q.at = n /\ q.total = m
  OBVIOUS
<1> QED
  BY <1>1 DEF Stage, Restores

LEMMA CountRecord ==
  ASSUME NEW n, NEW m, NEW q \in [pc : {"count"}, at : {n}, total : {m}]
  PROVE  q = [pc |-> "count", at |-> n, total |-> m]
OBVIOUS

LEMMA CollectStage ==
  ASSUME NEW n \in DOMAIN Shards, NEW m \in Nat, NEW f, DOMAIN f \subseteq Key,
         NEW q, q = [pc |-> "collect", at |-> n, to_evict |-> m, all_peers |-> f]
  PROVE  /\ Stage(q)
         /\ Restores(q) <=> /\ behind(n) \subseteq DOMAIN f
                            /\ Cardinality(DOMAIN f \cup DOMAIN peers) <= m + max_peers
<1>1. q.pc = "collect" /\ q.at = n /\ q.to_evict = m /\ q.all_peers = f
  OBVIOUS
<1> QED
  BY <1>1 DEF Stage, Restores

LEMMA EvictStage ==
  ASSUME NEW f, DOMAIN f \subseteq Key, NEW q, q = [pc |-> "evict", victims |-> f]
  PROVE  Stage(q) /\ (Restores(q) <=> Cardinality(DOMAIN peers \ DOMAIN f) <= max_peers)
<1>1. q.pc = "evict" /\ q.victims = f
  OBVIOUS
<1> QED
  BY <1>1 DEF Stage, Restores

\* Counting one infohash more.
LEMMA BehindGrows ==
  ASSUME Records(peers), NEW n \in DOMAIN Shards
  PROVE  /\ behind(n + 1) = behind(n) \cup map(peers, Shards[n])
         /\ behind(n + 1) \subseteq DOMAIN peers
         /\ n = Len(Shards) => behind(n + 1) = DOMAIN peers
<1>1. Len(Shards) \in Nat /\ DOMAIN Shards = 1..Len(Shards) /\ n \in Nat \ {0}
  BY PeerCacheAssumption
<1>2. \A i : i \in 1..(n + 1 - 1) <=> i \in 1..(n - 1) \/ i = n
  BY <1>1
<1>3. behind(n + 1) = behind(n) \cup map(peers, Shards[n])
  BY <1>2 DEF behind, map
<1>4. ASSUME n = Len(Shards), NEW k \in DOMAIN peers PROVE k \in behind(n + 1)
  <2>1. \E i \in DOMAIN Shards : k[1] = Shards[i]
    BY DEF Records, Key, Infohash
  <2> QED
    BY <1>1, <1>4, <2>1 DEF behind
<1> QED
  BY <1>3, <1>4 DEF behind

\* A count that covers what is behind it covers one infohash more.
LEMMA CountShardKeeps ==
  ASSUME IInv, NEW t \in Task, CountShard(t)
  PROVE  IInv'
<1> DEFINE s == task[t]
           here == map(peers, Shards[s.at])
           total == s.total + Cardinality(here)
           q == IF s.at < Len(Shards) THEN [s EXCEPT !.at = @ + 1, !.total = total]
                ELSE IF total <= max_peers THEN idle
                ELSE [pc |-> "collect", at |-> 1, to_evict |-> total - max_peers,
                      all_peers |-> [k \in {} |-> 0]]
<1>1. /\ s.pc = "count" /\ task' = [task EXCEPT ![t] = q] /\ UNCHANGED <<peers, now>>
      /\ Stage(s) /\ Records(peers) /\ DOMAIN peers \subseteq Key
  BY DEF CountShard, IInv, Records
<1>2. /\ s = [pc |-> "count", at |-> s.at, total |-> s.total]
      /\ s.at \in DOMAIN Shards /\ s.total \in Nat
  BY <1>1 DEF Stage, idle
<1>3. Len(Shards) \in Nat /\ DOMAIN Shards = 1..Len(Shards) /\ max_peers \in Nat
  BY PeerCacheAssumption
<1>4. total \in Nat
  <2>1. here \subseteq Key
    BY <1>1 DEF map
  <2> QED
    BY <1>2, <2>1, KeyCounts
<1>5. Restores(s) => Cardinality(behind(s.at + 1)) <= total
  <2> SUFFICES ASSUME Restores(s) PROVE Cardinality(behind(s.at + 1)) <= total
    OBVIOUS
  <2>1. Cardinality(behind(s.at)) <= s.total
    BY <1>1 DEF Restores
  <2>2. behind(s.at + 1) = behind(s.at) \cup here /\ behind(s.at + 1) \subseteq DOMAIN peers
    BY <1>1, <1>2, BehindGrows
  <2>3. /\ IsFiniteSet(behind(s.at)) /\ IsFiniteSet(here)
        /\ Cardinality(behind(s.at)) \in Nat /\ Cardinality(here) \in Nat
        /\ Cardinality(behind(s.at) \cap here) \in Nat
    BY <1>1, <2>2, KeyCounts
  <2>4. Cardinality(behind(s.at + 1))
          = Cardinality(behind(s.at)) + Cardinality(here) - Cardinality(behind(s.at) \cap here)
    BY <2>2, <2>3, FS_Union
  <2> QED
    BY <1>2, <2>1, <2>3, <2>4
<1> HIDE DEF total, here
<1>6. Stage(q) /\ (Restores(s) => Restores(q) \/ Cardinality(DOMAIN peers) <= max_peers)
  <2>1. CASE s.at < Len(Shards)
    <3>1. q = [pc |-> "count", at |-> s.at + 1, total |-> total] /\ s.at + 1 \in DOMAIN Shards
      <4>1. s.at + 1 \in DOMAIN Shards
        BY <1>2, <1>3, <2>1
      <4>2. PICK n : n = s.at + 1
        OBVIOUS
      <4>3. q = [s EXCEPT !.at = n, !.total = total]
        BY <2>1, <4>2
      <4> HIDE DEF q, s
      <4>4. q \in [pc : {"count"}, at : {n}, total : {total}]
        <5>1. PICK n0, m0 : s = [pc |-> "count", at |-> n0, total |-> m0]
          BY <1>2, Zenon
        <5> QED
          BY <4>3, <5>1
      <4>5. q = [pc |-> "count", at |-> n, total |-> total]
        BY <4>4, CountRecord, Zenon
      <4> QED
        BY <4>1, <4>2, <4>5
    <3> QED
      BY <1>4, <1>5, <3>1, CountStage
  <2>2. CASE ~(s.at < Len(Shards))
    <3>1. s.at = Len(Shards) /\ 1 \in DOMAIN Shards
      BY <1>2, <1>3, <2>2
    <3>2. behind(s.at + 1) = DOMAIN peers
      BY <1>1, <1>2, <3>1, BehindGrows
    <3>3. CASE total <= max_peers
      <4>1. q = idle
        BY <2>2, <3>3
      <4>2. Cardinality(DOMAIN peers) \in Nat
        BY <1>1, KeyCounts
      <4> QED
        BY <1>3, <1>4, <1>5, <3>2, <3>3, <4>1, <4>2 DEF Stage
    <3>4. CASE ~(total <= max_peers)
      <4>1. q = [pc |-> "collect", at |-> 1, to_evict |-> total - max_peers,
                 all_peers |-> [k \in {} |-> 0]]
        BY <2>2, <3>4
      <4>2. total - max_peers \in Nat /\ total - max_peers + max_peers = total
        BY <1>3, <1>4, <3>4
      <4>3. behind(1) = {} /\ DOMAIN [k \in {} |-> 0] \cup DOMAIN peers = DOMAIN peers
        BY DEF behind
      <4> QED
        BY <1>5, <3>1, <3>2, <4>1, <4>2, <4>3, CollectStage
    <3> QED
      BY <3>3, <3>4
  <2> QED
    BY <2>1, <2>2
<1> HIDE DEF q
<1>7. DOMAIN task' = Task /\ task'[t] = q /\ \A u \in Task \ {t} : task'[u] = task[u]
  BY <1>1, OnlyTaskMoves
<1>8. Restores(task[t]) => Restores(task[t])' \/ Cardinality(DOMAIN peers') <= max_peers
  BY <1>1, <1>6, <1>7 DEF Restores, behind
<1> QED
  BY <1>1, <1>6, <1>7, <1>8, ShrinkKeeps DEF IInv, Records

LEMMA CollectRecord ==
  ASSUME NEW n, NEW m, NEW f,
         NEW q \in [pc : {"collect"}, at : {n}, to_evict : {m}, all_peers : {f}]
  PROVE  q = [pc |-> "collect", at |-> n, to_evict |-> m, all_peers |-> f]
OBVIOUS

\* The list takes in every peer that is still there; at its end, what is not
\* among the victims is no more than the bound, since the count it is measured
\* by covered the whole list.
LEMMA CollectShardKeeps ==
  ASSUME IInv, NEW t \in Task, CollectShard(t)
  PROVE  IInv'
<1> DEFINE s == task[t]
           here == map(peers, Shards[s.at])
           f == [k \in DOMAIN s.all_peers \cup here |->
                   IF k \in here THEN peers[k].last_active ELSE s.all_peers[k]]
<1>1. /\ s.pc = "collect" /\ UNCHANGED <<peers, now>>
      /\ Stage(s) /\ Records(peers) /\ DOMAIN peers \subseteq Key
  BY DEF CollectShard, IInv, Records
<1>2. /\ s = [pc |-> "collect", at |-> s.at, to_evict |-> s.to_evict, all_peers |-> s.all_peers]
      /\ s.at \in DOMAIN Shards /\ s.to_evict \in Nat /\ DOMAIN s.all_peers \subseteq Key
  BY <1>1 DEF Stage, idle
<1>3. Len(Shards) \in Nat /\ DOMAIN Shards = 1..Len(Shards) /\ max_peers \in Nat
  BY PeerCacheAssumption
<1>4. /\ DOMAIN f = DOMAIN s.all_peers \cup here /\ here \subseteq DOMAIN peers
      /\ DOMAIN f \subseteq Key
  BY <1>1, <1>2 DEF map
<1>5. Restores(s) =>
        /\ behind(s.at + 1) \subseteq DOMAIN f
        /\ Cardinality(DOMAIN f \cup DOMAIN peers) <= s.to_evict + max_peers
  <2> SUFFICES ASSUME Restores(s)
               PROVE  /\ behind(s.at + 1) \subseteq DOMAIN f
                      /\ Cardinality(DOMAIN f \cup DOMAIN peers) <= s.to_evict + max_peers
    OBVIOUS
  <2>1. /\ behind(s.at) \subseteq DOMAIN s.all_peers
        /\ Cardinality(DOMAIN s.all_peers \cup DOMAIN peers) <= s.to_evict + max_peers
    BY <1>1 DEF Restores
  <2>2. behind(s.at + 1) = behind(s.at) \cup here
    BY <1>1, <1>2, BehindGrows
  <2>3. DOMAIN f \cup DOMAIN peers = DOMAIN s.all_peers \cup DOMAIN peers
    BY <1>4
  <2> HIDE DEF f, here
  <2> QED
    BY <1>4, <2>1, <2>2, <2>3
<1>6. ASSUME NEW q, task' = [task EXCEPT ![t] = q], Stage(q),
             Restores(s) => Restores(q) \/ Cardinality(DOMAIN peers) <= max_peers
      PROVE  IInv'
  <2>1. DOMAIN task' = Task /\ task'[t] = q /\ \A u \in Task \ {t} : task'[u] = task[u]
    BY <1>6, OnlyTaskMoves
  <2>2. Restores(task[t]) => Restores(task[t])' \/ Cardinality(DOMAIN peers') <= max_peers
    BY <1>1, <1>6, <2>1 DEF Restores, behind
  <2> QED
    BY <1>1, <1>6, <2>1, <2>2, ShrinkKeeps DEF IInv, Records
<1>7. CASE s.at < Len(Shards)
  <2>1. PICK n : n = s.at + 1
    OBVIOUS
  <2> DEFINE q == [s EXCEPT !.at = n, !.all_peers = f]
  <2>2. n \in DOMAIN Shards
    BY <1>2, <1>3, <1>7, <2>1
  <2>3. task' = [task EXCEPT ![t] = q]
    <3>1. task' = [task EXCEPT ![t].at = @ + 1, ![t].all_peers = f]
      BY <1>7 DEF CollectShard
    <3> HIDE DEF f
    <3> QED
      BY <2>1, <3>1 DEF IInv
  <2> HIDE DEF f, here
  <2>4. q \in [pc : {"collect"}, at : {n}, to_evict : {s.to_evict}, all_peers : {f}]
    <3> HIDE DEF s
    <3>1. PICK n0, m0, f0 : /\ s = [pc |-> "collect", at |-> n0, to_evict |-> m0, all_peers |-> f0]
                            /\ s.to_evict = m0
      BY <1>2, Zenon
    <3> QED
      BY <3>1
  <2> HIDE DEF q
  <2>5. q = [pc |-> "collect", at |-> n, to_evict |-> s.to_evict, all_peers |-> f]
    BY <2>4, CollectRecord, Zenon
  <2>6. Stage(q) /\ (Restores(s) => Restores(q))
    BY <1>2, <1>4, <1>5, <2>1, <2>2, <2>5, CollectStage
  <2> QED
    BY <1>6, <2>3, <2>6
<1>8. CASE ~(s.at < Len(Shards))
  <2>1. PICK S \in oldest(f, s.to_evict) :
          task' = [task EXCEPT ![t] = [pc |-> "evict", victims |-> Keep(f, S)]]
    BY <1>8 DEF CollectShard
  <2> HIDE DEF f, here
  <2>2. /\ S \in SUBSET DOMAIN f
        /\ Cardinality(S) = Min({s.to_evict, Cardinality(DOMAIN f)})
    BY DEF oldest, kSubset
  <2>3. s.at = Len(Shards)
    BY <1>2, <1>3, <1>8
  <2>4. Restores(s) => Cardinality(DOMAIN peers \ S) <= max_peers
    <3> SUFFICES ASSUME Restores(s) PROVE Cardinality(DOMAIN peers \ S) <= max_peers
      OBVIOUS
    <3>1. DOMAIN peers \subseteq DOMAIN f
      BY <1>1, <1>2, <1>5, <2>3, BehindGrows
    <3>2. Cardinality(DOMAIN f) <= s.to_evict + max_peers
      <4>1. DOMAIN f \cup DOMAIN peers = DOMAIN f
        BY <3>1
      <4> QED
        BY <1>5, <4>1
    <3>3. Cardinality(DOMAIN f \ S) = Cardinality(DOMAIN f) - Cardinality(S)
      BY <1>4, <2>2, KeysWithout
    <3>4. Cardinality(DOMAIN f) \in Nat
      BY <1>4, KeyCounts
    <3>5. Cardinality(S) = IF s.to_evict <= Cardinality(DOMAIN f)
                           THEN s.to_evict ELSE Cardinality(DOMAIN f)
      <4>1. PICK a \in Int, b \in Int : a = s.to_evict /\ b = Cardinality(DOMAIN f)
        BY <1>2, <3>4
      <4>2. Min({a, b}) = IF a <= b THEN a ELSE b
        BY MaxMin
      <4> QED
        BY <2>2, <4>1, <4>2
    <3>6. Cardinality(DOMAIN f \ S) <= max_peers
      BY <1>2, <1>3, <3>2, <3>3, <3>4, <3>5
    <3>7. DOMAIN peers \ S \subseteq DOMAIN f \ S /\ DOMAIN f \ S \subseteq Key
      BY <1>4, <3>1
    <3> QED
      BY <1>3, <3>6, <3>7, KeyCounts
  <2>5. DOMAIN Keep(f, S) = S /\ S \subseteq Key
    BY <1>4, <2>2 DEF Keep
  <2> DEFINE q == [pc |-> "evict", victims |-> Keep(f, S)]
  <2>6. Stage(q) /\ (Restores(s) => Restores(q))
    BY <2>4, <2>5, EvictStage
  <2> HIDE DEF q
  <2> QED
    BY <1>6, <2>1, <2>6 DEF q
<1> QED
  BY <1>7, <1>8

\* A victim leaves the cache and the list of those still to go.
LEMMA EvictKeeps ==
  ASSUME IInv, NEW t \in Task, NEW k \in Key, Evict(t, k)
  PROVE  IInv'
<1> DEFINE s == task[t]
           f == Keep(s.victims, DOMAIN s.victims \ {k})
           q == [pc |-> "evict", victims |-> f]
<1>1. s.pc = "evict" /\ Stage(s) /\ Records(peers) /\ now' = now
  BY DEF Evict, IInv
<1>2. s = [pc |-> "evict", victims |-> s.victims] /\ DOMAIN s.victims \subseteq Key
  BY <1>1 DEF Stage, idle
<1>3. DOMAIN peers' = DOMAIN peers \ {k} /\ Records(peers') /\ DOMAIN peers \subseteq Key
  <2>1. /\ DOMAIN peers' = DOMAIN peers \ {k}
        /\ \A l \in DOMAIN peers \ {k} : peers'[l] = peers[l]
    BY DEF Evict, Keep
  <2> QED
    BY <1>1, <2>1 DEF Records
<1>4. DOMAIN f = DOMAIN s.victims \ {k} /\ DOMAIN f \subseteq Key
  BY <1>2 DEF Keep
<1>5. task' = [task EXCEPT ![t] = q]
  <2>1. task' = [task EXCEPT ![t] = [s EXCEPT !.victims = f]]
    BY DEF Evict, IInv
  <2> HIDE DEF f
  <2>2. [s EXCEPT !.victims = f] = q
    <3> HIDE DEF s
    <3>1. PICK v : s = [pc |-> "evict", victims |-> v]
      BY <1>2, Zenon
    <3> QED
      BY <3>1
  <2> QED
    BY <2>1, <2>2
<1> HIDE DEF f
<1>6. Stage(q)
  BY <1>4, EvictStage
<1>7. DOMAIN task' = Task /\ task'[t] = q /\ \A u \in Task \ {t} : task'[u] = task[u]
  BY <1>5, OnlyTaskMoves
<1>8. Restores(s) => Restores(task[t])'
  <2> SUFFICES ASSUME Restores(s) PROVE Restores(task[t])'
    OBVIOUS
  <2>1. Cardinality(DOMAIN peers \ DOMAIN s.victims) <= max_peers
    BY <1>1 DEF Restores
  <2>2. DOMAIN peers' \ DOMAIN f \subseteq DOMAIN peers \ DOMAIN s.victims
    BY <1>3, <1>4
  <2>3. DOMAIN peers \ DOMAIN s.victims \subseteq Key
    BY <1>3
  <2>4. Cardinality(DOMAIN peers' \ DOMAIN f) <= max_peers
    BY <2>1, <2>2, <2>3, KeyCounts, PeerCacheAssumption
  <2>5. task'[t].pc = "evict" /\ task'[t].victims = f
    BY <1>7
  <2> QED
    BY <2>4, <2>5 DEF Restores
<1> QED
  BY <1>1, <1>3, <1>6, <1>7, <1>8, ShrinkKeeps DEF IInv, Records

\* Without victims left, the cache is within its bound.
LEMMA EvictDoneKeeps ==
  ASSUME IInv, NEW t \in Task, EvictDone(t)
  PROVE  IInv'
<1>1. /\ task[t].pc = "evict" /\ DOMAIN task[t].victims = {}
      /\ task' = [task EXCEPT ![t] = idle] /\ UNCHANGED <<peers, now>>
  BY DEF EvictDone
<1>2. DOMAIN task' = Task /\ task'[t] = idle /\ \A u \in Task \ {t} : task'[u] = task[u]
  BY <1>1, OnlyTaskMoves
<1>3. Stage(idle)
  BY DEF Stage
<1>4. Restores(task[t]) => Cardinality(DOMAIN peers') <= max_peers
  <2>1. DOMAIN peers \ DOMAIN task[t].victims = DOMAIN peers
    BY <1>1
  <2> QED
    BY <1>1, <2>1 DEF Restores
<1> QED
  BY <1>1, <1>2, <1>3, <1>4, ShrinkKeeps DEF IInv, Records

-----------------------------------------------------------------------------
(* Feedback, cleanup and time.                                             *)

\* A step that leaves the requests alone and adds no peer.
LEMMA OthersKeep ==
  ASSUME IInv, DOMAIN peers' \subseteq DOMAIN peers, Records(peers'), now' \in 0..MaxTime,
         UNCHANGED task
  PROVE  IInv'
<1>1. CASE Task = {}
  <2>1. InfohashesBounded' /\ Cardinality(DOMAIN peers') <= max_peers
    <3>1. DOMAIN peers \subseteq Key /\ Cardinality(DOMAIN peers) <= max_peers
      BY <1>1 DEF IInv, Records, BoundedOrRestored
    <3>2. Cardinality(DOMAIN peers') <= max_peers
      BY <3>1, KeyCounts, PeerCacheAssumption
    <3>3. ASSUME NEW ih \in Infohash PROVE Cardinality(map(peers', ih)) <= max_per_infohash
      <4>1. map(peers', ih) \subseteq map(peers, ih) /\ map(peers, ih) \subseteq Key
        BY <3>1 DEF map
      <4>2. Cardinality(map(peers, ih)) <= max_per_infohash
        BY DEF IInv, InfohashesBounded
      <4> QED
        BY <4>1, <4>2, KeyCounts, PeerCacheAssumption
    <3> QED
      BY <3>2, <3>3 DEF InfohashesBounded
  <2> QED
    BY <1>1, <2>1 DEF IInv, BoundedOrRestored
<1>2. ASSUME NEW t \in Task PROVE IInv'
  <2>1. PICK s : s = task[t] /\ s = task'[t]
    OBVIOUS
  <2>2. Stage(s)
    BY <2>1 DEF IInv
  <2>3. Restores(s) => Restores(s)'
    BY <2>2, RestoresStays DEF IInv
  <2>4. Restores(task[t]) => Restores(task[t])'
    BY <2>1, <2>3 DEF Restores, behind
  <2>5. DOMAIN task' = Task /\ \A u \in Task \ {t} : task'[u] = task[u]
    BY DEF IInv
  <2> QED
    BY <2>1, <2>2, <2>4, <2>5, ShrinkKeeps DEF Records
<1> QED
  BY <1>1, <1>2

\* Keeping some of the peers as they are keeps everything.
LEMMA KeepKeeps ==
  ASSUME IInv, NEW S \in SUBSET DOMAIN peers, peers' = Keep(peers, S),
         now' \in 0..MaxTime, UNCHANGED task
  PROVE  IInv'
<1>1. DOMAIN peers' = S /\ \A k \in S : peers'[k] = peers[k]
  BY DEF Keep
<1> QED
  BY <1>1, OthersKeep DEF IInv, Records

\* A success adds an attempt and a success; a failure that would use up the
\* budget removes the peer.
LEMMA PeerFeedbackKeeps ==
  ASSUME IInv, NEW k \in Key, NEW success \in BOOLEAN, PeerFeedback(k, success)
  PROVE  IInv'
<1> DEFINE p == peers[k]
<1>1. /\ k \in DOMAIN peers /\ p.connection_attempts < MaxAttempts /\ UNCHANGED <<task, now>>
      /\ now \in 0..MaxTime
  BY DEF PeerFeedback, MarkConnectionSuccess, MarkConnectionFailure, IInv
<1>2. p \in PeerInfo /\ WithinBudget(p)
  BY <1>1 DEF IInv, Records, WithinBudget
<1>3. ASSUME NEW q, peers' = [peers EXCEPT ![k] = q], WithinBudget(q) PROVE IInv'
  <2>1. /\ DOMAIN peers' = DOMAIN peers /\ peers'[k] = q
        /\ \A l \in DOMAIN peers \ {k} : peers'[l] = peers[l]
    BY <1>1, <1>3
  <2>2. Records(peers')
    BY <1>3, <2>1 DEF IInv, Records
  <2> QED
    BY <1>1, <2>1, <2>2, OthersKeep
<1>4. /\ p.connection_attempts \in Nat /\ p.connection_successes \in Nat
      /\ p.connection_successes <= p.connection_attempts
      /\ p.connection_attempts - p.connection_successes < FailLimit
      /\ FailLimit \in Nat /\ MaxAttempts \in Nat
  BY <1>2, PeerCacheAssumption DEF WithinBudget, PeerInfo
<1>5. /\ p.connection_attempts + 1 \in 0..MaxAttempts
      /\ p.connection_successes + 1 \in 0..MaxAttempts
  BY <1>1, <1>4
<1>6. CASE MarkConnectionSuccess(k)
  <2> DEFINE a == [p EXCEPT !.connection_attempts = p.connection_attempts + 1]
             b == [a EXCEPT !.connection_successes = p.connection_successes + 1]
             c == [b EXCEPT !.last_active = now]
  <2>1. peers' = [peers EXCEPT ![k] = c]
    BY <1>1, <1>6 DEF MarkConnectionSuccess
  <2>2. /\ a \in PeerInfo /\ a.connection_attempts = p.connection_attempts + 1
    BY <1>2, <1>5 DEF PeerInfo
  <2> HIDE DEF a
  <2>3. /\ b \in PeerInfo /\ b.connection_attempts = p.connection_attempts + 1
        /\ b.connection_successes = p.connection_successes + 1
    BY <1>5, <2>2 DEF PeerInfo
  <2> HIDE DEF b
  <2>4. /\ c \in PeerInfo /\ c.connection_attempts = p.connection_attempts + 1
        /\ c.connection_successes = p.connection_successes + 1
    BY <1>1, <2>3 DEF PeerInfo
  <2> HIDE DEF c
  <2>5. /\ c.connection_successes <= c.connection_attempts
        /\ c.connection_attempts - c.connection_successes < FailLimit
    BY <1>4, <2>4
  <2>6. WithinBudget(c)
    BY <2>4, <2>5 DEF WithinBudget
  <2> QED
    BY <1>3, <2>1, <2>6
<1>7. CASE MarkConnectionFailure(k)
  <2> DEFINE q == fail(p)
  <2>1. q \in PeerInfo /\ q.connection_attempts = p.connection_attempts + 1
        /\ q.connection_successes = p.connection_successes
    BY <1>2, <1>5 DEF fail, PeerInfo
  <2>2. CASE failed_too_often(q)
    BY <1>1, <1>7, <2>2, KeepKeeps DEF MarkConnectionFailure
  <2>3. CASE ~failed_too_often(q)
    <3>1. peers' = [peers EXCEPT ![k] = q]
      BY <1>7, <2>3 DEF MarkConnectionFailure
    <3> HIDE DEF q
    <3>2. q.connection_attempts - q.connection_successes \in Int
      BY <1>4, <2>1
    <3>3. q.connection_attempts - q.connection_successes < FailLimit
      BY <1>4, <2>3, <3>2, MaxMin DEF failed_too_often
    <3>4. q.connection_successes <= q.connection_attempts
      BY <1>4, <2>1
    <3> QED
      BY <1>3, <2>1, <3>1, <3>3, <3>4 DEF WithinBudget
  <2> QED
    BY <2>2, <2>3
<1> QED
  BY <1>6, <1>7 DEF PeerFeedback

\* It holds at the start.
LEMMA IInvInit == Init => IInv
<1> SUFFICES ASSUME Init PROVE IInv
  OBVIOUS
<1>1. DOMAIN peers = {} /\ now = 0 /\ DOMAIN task = Task /\ \A t \in Task : task[t] = idle
  BY DEF Init, Empty
<1>2. Cardinality({}) = 0 /\ \A ih \in Infohash : map(peers, ih) = {}
  BY <1>1, FS_EmptySet DEF map
<1>3. InfohashesBounded /\ BoundedOrRestored
  <2>1. 0 <= max_per_infohash /\ 0 <= max_peers
    BY PeerCacheAssumption
  <2>2. Cardinality(DOMAIN peers) = 0 /\ \A ih \in Infohash : Cardinality(map(peers, ih)) = 0
    BY <1>1, <1>2
  <2> QED
    BY <2>1, <2>2 DEF InfohashesBounded, BoundedOrRestored
<1> QED
  BY <1>1, <1>3, PeerCacheAssumption DEF IInv, Records, Stage

\* Every step keeps it.
LEMMA IInvNext == IInv /\ [Next]_vars => IInv'
<1> SUFFICES ASSUME IInv, [Next]_vars PROVE IInv'
  OBVIOUS
<1>1. now \in 0..MaxTime /\ Records(peers)
  BY DEF IInv
<1>2. CASE UNCHANGED vars
  BY <1>1, <1>2, OthersKeep DEF vars
<1>3. ASSUME NEW t \in Task, NEW ih \in Infohash, Request(t, ih) PROVE IInv'
  BY <1>3, RequestKeeps
<1>4. ASSUME NEW t \in Task, NEW found \in SUBSET Addr, NEW seen \in 0..now,
             Answer(t, found, seen)
      PROVE  IInv'
  BY <1>4, AnswerKeeps
<1>5. ASSUME NEW t \in Task, AddPeers(t) \/ CountShard(t) \/ CollectShard(t) \/ EvictDone(t)
      PROVE  IInv'
  BY <1>5, AddPeersKeeps, CountShardKeeps, CollectShardKeeps, EvictDoneKeeps
<1>6. ASSUME NEW t \in Task, NEW k \in Key, Evict(t, k) PROVE IInv'
  BY <1>6, EvictKeeps
<1>7. ASSUME NEW k \in Key, NEW success \in BOOLEAN, PeerFeedback(k, success) PROVE IInv'
  BY <1>7, PeerFeedbackKeeps
<1>8. CASE CleanupStart
  BY <1>1, <1>8, OthersKeep DEF CleanupStart
<1>9. CASE CleanupShard
  <2>1. (DOMAIN peers \ map(peers, Shards[health.at])) \cup unexpired(peers) \in SUBSET DOMAIN peers
    BY DEF unexpired
  <2> QED
    BY <1>1, <1>9, <2>1, KeepKeeps DEF CleanupShard
<1>10. CASE Tick
  BY <1>1, <1>10, OthersKeep, PeerCacheAssumption DEF Tick
<1> QED
  BY <1>2, <1>3, <1>4, <1>5, <1>6, <1>7, <1>8, <1>9, <1>10 DEF Next

-----------------------------------------------------------------------------
(* The theorems.                                                           *)

\* Whenever no add_peers is under way the cache is within max_peers, and each
\* infohash is within its own bound at all times, for any number of requests
\* that add, count and evict at the same time (add_peers and evict_global_lru
\* in cache.rs).
THEOREM CacheBounded == Spec => []BoundedAtRest
<1>1. IInv => BoundedAtRest
  BY DEF IInv, InfohashesBounded, BoundedOrRestored, Restores, BoundedAtRest, in_add_peers
<1> QED
  BY <1>1, IInvInit, IInvNext, PTL DEF Spec

\* No peer stays cached with FailLimit failures, whatever copies requests merge
\* back (mark_connection_failure and PeerInfo::merge).
THEOREM FailuresBounded == Spec => []FailureBudget
<1>1. IInv => FailureBudget
  BY DEF IInv, Records, WithinBudget, FailureBudget
<1> QED
  BY <1>1, IInvInit, IInvNext, PTL DEF Spec

\* A live peer leaves the cache by an eviction that chose it, an add_peers that
\* filled its infohash, or the failure that used up its budget, and in no
\* other way.
THEOREM LiveStay == Spec => LiveDropsExplained
<1> DEFINE Explained ==
      \A k \in DOMAIN peers :
        k \notin DOMAIN peers' /\ ~is_expired(peers[k]) =>
          \/ \E t \in Task : task[t].pc = "evict" /\ k \in DOMAIN task[t].victims
          \/ Cardinality(map(peers, k[1])') = max_per_infohash
          \/ failed_too_often(fail(peers[k]))
<1>1. IInv /\ [Next]_vars => [Explained]_vars
  <2> SUFFICES ASSUME IInv, Next PROVE Explained
    OBVIOUS
  <2>1. ASSUME DOMAIN peers \subseteq DOMAIN peers' PROVE Explained
    BY <2>1
  <2>2. ASSUME NEW t \in Task, AddPeers(t) PROVE Explained
    <3>1. PICK ih \in Infohash, live \in SUBSET Key : \E drop \in SUBSET live :
             /\ map(peers', ih) = live \ drop
             /\ \A j \in Infohash \ {ih} : map(peers', j) = map(peers, j)
             /\ \A k \in DOMAIN peers : k[1] = ih /\ ~is_expired(peers[k]) => k \in live
             /\ Cardinality(drop) = IF Cardinality(live) >= max_per_infohash
                                    THEN Cardinality(live) - max_per_infohash ELSE 0
      BY <2>2, AddPeersEffect
    <3>2. PICK drop \in SUBSET live :
             /\ map(peers', ih) = live \ drop
             /\ \A j \in Infohash \ {ih} : map(peers', j) = map(peers, j)
             /\ \A k \in DOMAIN peers : k[1] = ih /\ ~is_expired(peers[k]) => k \in live
             /\ Cardinality(drop) = IF Cardinality(live) >= max_per_infohash
                                    THEN Cardinality(live) - max_per_infohash ELSE 0
      BY <3>1
    <3> SUFFICES ASSUME NEW k \in DOMAIN peers, k \notin DOMAIN peers', ~is_expired(peers[k])
                 PROVE  Cardinality(map(peers', k[1])) = max_per_infohash
      BY DEF map
    <3>3. k[1] \in Infohash
      BY DEF IInv, Records, Key
    <3>4. k[1] = ih
      BY <3>2, <3>3 DEF map
    <3>5. k \in drop
      BY <3>2, <3>4 DEF map
    <3>6. Cardinality(drop) \in Nat /\ Cardinality(drop) # 0
      <4>1. IsFiniteSet(drop) /\ drop # {}
        BY <3>5, KeyCounts
      <4> QED
        BY <4>1, FS_EmptySet, FS_CardinalityType
    <3>7. Cardinality(live \ drop) = Cardinality(live) - Cardinality(drop) /\ Cardinality(live) \in Nat
      BY KeysWithout, KeyCounts
    <3>8. Cardinality(live \ drop) = max_per_infohash
      BY <3>2, <3>6, <3>7, PeerCacheAssumption
    <3> QED
      BY <3>2, <3>4, <3>8
  <2>3. ASSUME NEW t \in Task, NEW k \in Key, Evict(t, k) PROVE Explained
    <3>1. DOMAIN peers' = DOMAIN peers \ {k} /\ task[t].pc = "evict" /\ k \in DOMAIN task[t].victims
      BY <2>3 DEF Evict, Keep
    <3> QED
      BY <3>1
  <2>4. ASSUME NEW k \in Key, NEW success \in BOOLEAN, PeerFeedback(k, success) PROVE Explained
    <3>1. CASE MarkConnectionSuccess(k)
      <4>1. DOMAIN peers' = DOMAIN peers
        BY <3>1 DEF MarkConnectionSuccess
      <4> QED
        BY <2>1, <4>1
    <3>2. CASE MarkConnectionFailure(k) /\ failed_too_often(fail(peers[k]))
      <4>1. DOMAIN peers' = DOMAIN peers \ {k}
        BY <3>2 DEF MarkConnectionFailure, Keep
      <4> QED
        BY <3>2, <4>1
    <3>3. CASE MarkConnectionFailure(k) /\ ~failed_too_often(fail(peers[k]))
      <4>1. DOMAIN peers' = DOMAIN peers
        BY <3>3 DEF MarkConnectionFailure
      <4> QED
        BY <2>1, <4>1
    <3> QED
      BY <2>4, <3>1, <3>2, <3>3 DEF PeerFeedback
  <2>5. CASE CleanupShard
    <3>1. unexpired(peers) \subseteq DOMAIN peers'
      BY <2>5 DEF CleanupShard, Keep
    <3> QED
      BY <3>1 DEF unexpired
  <2> QED
    BY <2>1, <2>2, <2>3, <2>4, <2>5
       DEF Next, Request, Answer, CountShard, CollectShard, EvictDone, CleanupStart, Tick
<1> QED
  BY <1>1, IInvInit, IInvNext, PTL DEF Spec, LiveDropsExplained

=============================================================================
