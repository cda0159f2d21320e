--------------------------- MODULE ServicesProofs ---------------------------
(***************************************************************************)
(* Theorems about the services beside discovery, for every value of their  *)
(* constants. A step of the composition is a step of one service and       *)
(* leaves the variables of the others alone (ServicesStep), so that each   *)
(* theorem rests on an invariant of one service.                           *)
(***************************************************************************)
EXTENDS Services, FiniteSetTheorems, SequenceTheorems, WellFoundedInduction, TLAPS

-----------------------------------------------------------------------------
(* The parts.                                                              *)

\* Every step of the composition is, for each service, a step of that service
\* or one that leaves it alone.
LEMMA ServicesStep ==
  ASSUME [ServicesNext]_servicesVars
  PROVE  /\ [Next]_vars
         /\ [Mapping!Next]_mappingVars
         /\ [Resolver!Next]_resolverVars
         /\ [Disk!Next]_diskVars
         /\ [Filter!Next]_filterVars
         /\ [Api!Next]_apiVars
<1>1. CASE UNCHANGED servicesVars
  BY <1>1 DEF servicesVars
<1>2. CASE part = "crawler" /\ Next /\ Still("crawler")
  BY <1>2 DEF Still
<1>3. CASE part = "mapping" /\ Mapping!Next /\ Still("mapping")
  BY <1>3 DEF Still
<1>4. CASE part = "mode" /\ Mode!Next /\ Still("mode")
  BY <1>4 DEF Still
<1>5. CASE part = "resolver" /\ Resolver!Next /\ Still("resolver")
  BY <1>5 DEF Still
<1>6. CASE part = "disk" /\ Disk!Next /\ Still("disk")
  BY <1>6 DEF Still
<1>7. CASE part = "filter" /\ Filter!Next /\ Still("filter")
  BY <1>7 DEF Still
<1>8. CASE part = "api" /\ Api!Next /\ Still("api")
  BY <1>8 DEF Still
<1> QED
  BY <1>1, <1>2, <1>3, <1>4, <1>5, <1>6, <1>7, <1>8 DEF ServicesNext

-----------------------------------------------------------------------------
(* Persistence.                                                            *)

OnePerId(nodes) == \A m, n \in nodes : m.id = n.id => m = n

DiskState == [nodes : SUBSET Node, peers : SUBSET (PeerV4 \cup PeerV6)]

\* The file is the last one saved, the temporary file of a rename is complete,
\* and what is saved after a restart, before anything changes, is what was
\* restored.
DiskInv ==
  /\ Disk!loaded = saved
  /\ table \in SUBSET Node /\ store \in SUBSET (PeerV4 \cup PeerV6)
  /\ saved \in DiskState
  /\ saver \in {Disk!no_save} \cup [pc : {"write", "fill", "rename"}, state : DiskState]
  /\ OnePerId(saved.nodes)
  /\ saver.pc = "rename" => tmp = Disk!Whole(saver.state)
  /\ saver.pc # "none" => OnePerId(saver.state.nodes)
  /\ up = "restored" /\ saver.pc # "none" =>
       saver.state.nodes = table /\ saver.state.peers = store
  /\ up = "down" => saver.pc = "none"
  /\ RestoredIsLastSaved

\* It holds at the start.
LEMMA DiskInvInit == ServicesInit => DiskInv
BY DEF ServicesInit, DiskInv, Disk!Init, Disk!loaded, Disk!Nothing, Disk!empty, Disk!no_save,
       DiskState, OnePerId, RestoredIsLastSaved, Disk!RestoredIsLastSaved

\* One entry per id: what by_id picks from a set that has that already.
LEMMA ByIdWhole ==
  ASSUME NEW T, NEW S \in Disk!by_id(T)
  PROVE  OnePerId(S) /\ S \subseteq T /\ (OnePerId(T) => S = T)
<1>1. OnePerId(S) /\ S \subseteq T
  BY DEF Disk!by_id, OnePerId
<1>2. ASSUME OnePerId(T), NEW n \in T PROVE n \in S
  <2>1. n.id \in {m.id : m \in S}
    BY DEF Disk!by_id
  <2>2. PICK m \in S : m.id = n.id
    BY <2>1
  <2> QED
    BY <1>1, <1>2, <2>2 DEF OnePerId
<1> QED
  BY <1>1, <1>2

\* Every step of Persistence keeps it.
LEMMA DiskInvNext == DiskInv /\ [Disk!Next]_diskVars => DiskInv'
<1> SUFFICES ASSUME DiskInv, [Disk!Next]_diskVars PROVE DiskInv'
  OBVIOUS
<1> USE DEF DiskInv, RestoredIsLastSaved, Disk!RestoredIsLastSaved, Disk!loaded, Disk!no_save,
            DiskState
<1>1. CASE UNCHANGED diskVars
  BY <1>1 DEF diskVars, OnePerId, Disk!Whole
<1>2. ASSUME NEW T \in SUBSET Node, NEW S \in SUBSET (PeerV4 \cup PeerV6), Disk!Change(T, S)
      PROVE  DiskInv'
  BY <1>2 DEF Disk!Change, OnePerId, Disk!Whole
<1>3. CASE Disk!Save
  <2>1. PICK nodes \in Disk!by_id(table) :
          saver' = [pc |-> "write", state |-> [nodes |-> nodes, peers |-> store]]
    BY <1>3 DEF Disk!Save
  <2>2. OnePerId(nodes) /\ nodes \subseteq table /\ (OnePerId(table) => nodes = table)
    BY ByIdWhole
  <2>3. up = "restored" => nodes = table
    BY <2>2 DEF OnePerId
  <2> QED
    BY <1>3, <2>1, <2>2, <2>3 DEF Disk!Save, OnePerId
<1>4. CASE Disk!Write
  BY <1>4 DEF Disk!Write, OnePerId
<1>5. CASE Disk!Fill
  BY <1>5 DEF Disk!Fill, OnePerId, Disk!Whole
<1>6. CASE Disk!Rename
  BY <1>6 DEF Disk!Rename, OnePerId, Disk!Whole
<1>7. CASE Disk!SaveFails
  BY <1>7 DEF Disk!SaveFails, OnePerId
<1>8. CASE Disk!Crash
  BY <1>8 DEF Disk!Crash, OnePerId
<1>9. CASE Disk!Restart
  BY <1>9 DEF Disk!Restart, OnePerId
<1>10. CASE Disk!Tick
  BY <1>10 DEF Disk!Tick, OnePerId, Disk!Whole
<1> QED
  BY <1>1, <1>2, <1>3, <1>4, <1>5, <1>6, <1>7, <1>8, <1>9, <1>10 DEF Disk!Next

\* Whenever the process crashes, also in the middle of a save, or a step of a
\* save fails, a restart restores the last state that was saved as a whole
\* (save, load and restore in persistence.rs).
THEOREM RestartFindsLastSave == ServicesSpec => []RestoredIsLastSaved
<1>1. DiskInv /\ [ServicesNext]_servicesVars => DiskInv'
  BY DiskInvNext, ServicesStep
<1>2. DiskInv => RestoredIsLastSaved
  BY DEF DiskInv
<1> QED
  BY <1>1, <1>2, DiskInvInit, PTL DEF ServicesSpec

-----------------------------------------------------------------------------
(* CrawlerLifecycle, with one caller: with two, the signal that one of     *)
(* them is late to send may end the loop that the other has just started.  *)

\* While a caller is about to signal, the crawler is not running: the signal
\* ends no loop the flag speaks of.
LifecycleInv ==
  /\ \E n \in Nat : Loop = 1..n
  /\ pc \in [Caller -> {"idle", "starting", "stopping"}]
  /\ \A c \in Caller : pc[c] = "stopping" => ~running
  /\ RunningHasLoop

\* It holds at the start.
LEMMA LifecycleInvInit == ServicesInit => LifecycleInv
<1> SUFFICES ASSUME Init PROVE LifecycleInv
  BY DEF ServicesInit
<1>1. Loop = 1..0
  BY DEF Init, Loop
<1> QED
  BY <1>1 DEF LifecycleInv, Init, RunningHasLoop

\* Every step of one caller or of a loop keeps it.
LEMMA LifecycleInvNext ==
  ASSUME \A c, d \in Caller : c = d, LifecycleInv, [Next]_vars
  PROVE  LifecycleInv'
<1> PICK n \in Nat : Loop = 1..n
  BY DEF LifecycleInv
<1> Cardinality(Loop) = n
  BY FS_Interval
<1>1. CASE UNCHANGED vars
  BY <1>1 DEF vars, LifecycleInv, RunningHasLoop, Loop, alive
<1>2. ASSUME NEW c \in Caller, StartSet(c) PROVE LifecycleInv'
  BY <1>2 DEF StartSet, LifecycleInv, RunningHasLoop, Loop
<1>3. ASSUME NEW c \in Caller, StartSpawn(c) PROVE LifecycleInv'
  <2>1. Loop' = 1..(n + 1)
    BY <1>3 DEF StartSpawn, Loop
  <2>2. n + 1 \in Loop' /\ alive(n + 1)'
    BY <1>3, <2>1 DEF StartSpawn, Loop, alive
  <2> QED
    BY <1>3, <2>1, <2>2 DEF StartSpawn, LifecycleInv, RunningHasLoop
<1>4. ASSUME NEW c \in Caller, StopReset(c) PROVE LifecycleInv'
  BY <1>4 DEF StopReset, LifecycleInv, RunningHasLoop, Loop
<1>5. ASSUME NEW c \in Caller, StopNotify(c) PROVE LifecycleInv'
  BY <1>5 DEF StopNotify, LifecycleInv, RunningHasLoop, Loop
<1>6. ASSUME NEW l \in Loop, NEW from, NEW to,
             Step(l, from, to), ~running' \/ running' = running,
             ~running' \/ alive(l)' \/ ~alive(l)
      PROVE  LifecycleInv'
  <2>1. Loop' = Loop /\ pc' = pc /\ \A k \in Loop : k # l => loop'[k] = loop[k]
    BY <1>6 DEF Step, Loop
  <2>2. running' => running
    BY <1>6
  <2>3. RunningHasLoop'
    BY <1>6, <2>1, <2>2 DEF LifecycleInv, RunningHasLoop, alive
  <2> QED
    BY <2>1, <2>2, <2>3 DEF LifecycleInv
<1>7. ASSUME NEW l \in Loop, LoopProgress(l) \/ Work(l) PROVE LifecycleInv'
  <2>1. CASE Bound(l)
    BY <1>6, <2>1 DEF Bound, Step, alive, Loop
  <2>2. CASE BindFailed(l)
    BY <1>6, <2>2 DEF BindFailed
  <2>3. CASE Wait(l)
    BY <1>6, <2>3 DEF Wait, Step, alive, Loop
  <2>4. CASE Work(l)
    BY <1>6, <2>4 DEF Work, Step, alive, Loop
  <2>5. CASE End(l)
    BY <1>6, <2>5 DEF End, Step, alive, Loop
  <2> QED
    BY <1>7, <2>1, <2>2, <2>3, <2>4, <2>5 DEF LoopProgress
<1> QED
  BY <1>1, <1>2, <1>3, <1>4, <1>5, <1>7 DEF Next

\* A crawler that says it is running has a loop that no signal has reached, or
\* is about to get one, however its one caller starts and stops it, whatever
\* signals are lost and binds fail (start, stop and crawl_loop in engine.rs).
THEOREM RunningMeansLoop ==
  ASSUME \A c, d \in Caller : c = d
  PROVE  ServicesSpec => []RunningHasLoop
<1>1. LifecycleInv /\ [ServicesNext]_servicesVars => LifecycleInv'
  BY LifecycleInvNext, ServicesStep
<1>2. LifecycleInv => RunningHasLoop
  BY DEF LifecycleInv
<1> QED
  BY <1>1, <1>2, LifecycleInvInit, PTL DEF ServicesSpec

-----------------------------------------------------------------------------
(* ServiceResolver.                                                        *)

\* No entry was older than a query when it was cached, and no query under way
\* has waited longer than its timeout.
ResolverInv ==
  /\ resolverNow \in Nat
  /\ \A d, e \in cached : d = e
  /\ \A e \in cached : /\ e.services \in SUBSET Service
                       /\ e.cached_at \in Nat /\ e.read_at \in Nat
                       /\ e.cached_at - e.read_at <= query_timeout
  /\ asking \in [Asker -> {Resolver!no_query}
                   \cup [pc : {"sent"}, asked_at : Nat]
                   \cup [pc : {"read"}, asked_at : Nat, services : SUBSET Service,
                         read_at : Nat]]
  /\ \A a \in Asker : asking[a].pc # "none" =>
       /\ asking[a].asked_at <= resolverNow
       /\ resolverNow - asking[a].asked_at <= query_timeout
  /\ \A a \in Asker : asking[a].pc = "read" => asking[a].asked_at <= asking[a].read_at
  /\ healthy \in SUBSET Service
  /\ answered \in [Asker -> [offered : SUBSET Service, age : Int]]
  /\ AnswersRecent

\* It holds at the start.
LEMMA ResolverInvInit == ServicesInit => ResolverInv
BY ResolverAssumption
   DEF ServicesInit, ResolverInv, Resolver!Init, Resolver!no_query, AnswersRecent,
       Resolver!AnswersRecent

\* Every step of the resolver keeps it.
LEMMA ResolverInvNext == ResolverInv /\ [Resolver!Next]_resolverVars => ResolverInv'
<1> SUFFICES ASSUME ResolverInv, [Resolver!Next]_resolverVars PROVE ResolverInv'
  OBVIOUS
<1> USE ResolverAssumption DEF ResolverInv, AnswersRecent, Resolver!AnswersRecent, Resolver!no_query
<1>0. \A S \in SUBSET Service : Resolver!filter_healthy(S) \in SUBSET Service
  BY DEF Resolver!filter_healthy
<1>1. CASE UNCHANGED resolverVars
  BY <1>1 DEF resolverVars
<1>2. ASSUME NEW S \in SUBSET Service, Resolver!MasterChanges(S) PROVE ResolverInv'
  BY <1>2 DEF Resolver!MasterChanges
<1>3. ASSUME NEW a \in Asker, Resolver!ResolveCached(a) PROVE ResolverInv'
  <2>1. PICK e \in cached :
          answered' = [answered EXCEPT ![a] = Resolver!given(e.services, e.read_at)]
    BY <1>3 DEF Resolver!ResolveCached
  <2>2. resolverNow - e.cached_at < cache_ttl_secs
    BY <1>3 DEF Resolver!ResolveCached, Resolver!fresh
  <2>3. resolverNow - e.read_at < cache_ttl_secs + query_timeout
    BY <2>2
  <2> QED
    BY <1>0, <1>3, <2>1, <2>3 DEF Resolver!ResolveCached, Resolver!given
<1>4. ASSUME NEW a \in Asker, Resolver!ResolveAsk(a) PROVE ResolverInv'
  BY <1>4 DEF Resolver!ResolveAsk
<1>5. ASSUME NEW a \in Asker, Resolver!MasterReads(a) PROVE ResolverInv'
  <2>1. asking[a] \in [pc : {"sent"}, asked_at : Nat]
    BY <1>5 DEF Resolver!MasterReads
  <2>2. asking[a].asked_at <= resolverNow
    BY <1>5, <2>1 DEF Resolver!MasterReads
  <2> QED
    BY <1>5, <2>1, <2>2 DEF Resolver!MasterReads
<1>6. ASSUME NEW a \in Asker, Resolver!ResolveAnswer(a) PROVE ResolverInv'
  <2>1. asking[a] \in [pc : {"read"}, asked_at : Nat, services : SUBSET Service, read_at : Nat]
    BY <1>6 DEF Resolver!ResolveAnswer
  <2>2. resolverNow - asking[a].read_at <= query_timeout
    BY <1>6, <2>1 DEF Resolver!ResolveAnswer
  <2> QED
    BY <1>0, <1>6, <2>1, <2>2 DEF Resolver!ResolveAnswer, Resolver!given
<1>7. ASSUME NEW a \in Asker, Resolver!ResolveFails(a) PROVE ResolverInv'
  BY <1>7 DEF Resolver!ResolveFails
<1>8. ASSUME NEW s \in Service, Resolver!RecordFailure(s) \/ Resolver!RecordSuccess(s)
      PROVE  ResolverInv'
  BY <1>8 DEF Resolver!RecordFailure, Resolver!RecordSuccess
<1>9. CASE Resolver!ClearCache
  BY <1>9 DEF Resolver!ClearCache
<1>10. CASE Resolver!Tick
  BY <1>10 DEF Resolver!Tick
<1> QED
  BY <1>1, <1>2, <1>3, <1>4, <1>5, <1>6, <1>7, <1>8, <1>9, <1>10 DEF Resolver!Next

\* No list that resolve returns is older than the time to live of the cache
\* and one query together, although a slow answer may replace a newer list
\* (resolve in service_resolver.rs).
THEOREM ListsStayRecent == ServicesSpec => []AnswersRecent
<1>1. ResolverInv /\ [ServicesNext]_servicesVars => ResolverInv'
  BY ResolverInvNext, ServicesStep
<1>2. ResolverInv => AnswersRecent
  BY DEF ResolverInv
<1> QED
  BY <1>1, <1>2, ResolverInvInit, PTL DEF ServicesSpec

-----------------------------------------------------------------------------
(* PeerFilter.                                                             *)

Behavior ==
  [request_count : Nat, window_start : Nat, token_failures : Nat, unique_infohashes : Nat,
   last_request : Nat, banned_until : Int, ban_count : Nat]

\* A record whose ban ends no later than a ban given now would.
Bannable(b) ==
  /\ b \in Behavior
  /\ b.banned_until <= filterNow + Filter!ban_duration(b)

\* Whatever ban a new offence brings, it outlasts the one that runs.
FilterInv ==
  /\ filterNow \in Nat
  /\ DOMAIN behaviors \subseteq Ip
  /\ behaviors = [ip \in DOMAIN behaviors |-> behaviors[ip]]
  /\ \A ip \in DOMAIN behaviors : Bannable(behaviors[ip])

\* The smaller of two.
LEMMA MinOfTwo ==
  ASSUME NEW x \in Int, NEW y \in Int
  PROVE  Filter!Min({x, y}) = IF x <= y THEN x ELSE y
BY DEF Filter!Min

\* The next ban is never shorter than one with fewer bans behind it: bans
\* double, up to a bound.
LEMMA LongerBans ==
  ASSUME NEW b, NEW d, b.ban_count \in Nat, d.ban_count \in Nat, b.ban_count <= d.ban_count
  PROVE  /\ Filter!ban_duration(b) \in Nat /\ Filter!ban_duration(d) \in Nat
         /\ Filter!ban_duration(b) <= Filter!ban_duration(d)
<1> DEFINE m == IF b.ban_count <= MaxDoublings THEN b.ban_count ELSE MaxDoublings
           n == IF d.ban_count <= MaxDoublings THEN d.ban_count ELSE MaxDoublings
           x == initial_ban_secs * 2^m
           y == initial_ban_secs * 2^n
<1>1. m \in 0..MaxDoublings /\ n \in 0..MaxDoublings /\ m <= n
  BY FilterAssumption
<1>2. 2^m \in Nat /\ 2^n \in Nat /\ 2^m <= 2^n
  BY <1>1, FilterAssumption
<1> HIDE DEF m, n
<1>3. x \in Nat /\ y \in Nat /\ x <= y
  <2> DEFINE p == 2^m
             q == 2^n
  <2>1. p \in Nat /\ q \in Nat /\ p <= q
    BY <1>2
  <2> HIDE DEF p, q
  <2>2. initial_ban_secs * p \in Nat /\ initial_ban_secs * q \in Nat
        /\ initial_ban_secs * p <= initial_ban_secs * q
    BY <2>1, FilterAssumption
  <2> QED
    BY <2>2 DEF p, q
<1>4. /\ Filter!Min({b.ban_count, MaxDoublings}) = m
      /\ Filter!Min({d.ban_count, MaxDoublings}) = n
  BY MinOfTwo, FilterAssumption DEF m, n
<1>5. /\ Filter!ban_duration(b) = Filter!Min({x, max_ban_secs})
      /\ Filter!ban_duration(d) = Filter!Min({y, max_ban_secs})
  BY <1>4 DEF Filter!ban_duration
<1> HIDE DEF x, y
<1> QED
  BY <1>3, <1>5, MinOfTwo, FilterAssumption

\* A ban given now outlasts the one that runs.
LEMMA BanOutlasts ==
  ASSUME FilterInv, NEW b, Bannable(b)
  PROVE  Bannable(Filter!ban(b)) /\ Filter!ban(b).banned_until >= b.banned_until
<1> DEFINE d == Filter!ban(b)
<1>0. filterNow \in Nat /\ b \in Behavior
  BY DEF FilterInv, Bannable
<1>1. Filter!ban_duration(b) \in Nat
  BY LongerBans DEF Bannable, Behavior
<1>2. /\ d \in Behavior
      /\ d.banned_until = filterNow + Filter!ban_duration(b)
      /\ d.ban_count = b.ban_count + 1
  <2> DEFINE end == filterNow + Filter!ban_duration(b)
  <2>1. end \in Int
    BY <1>0, <1>1
  <2> DEFINE until == [b EXCEPT !.banned_until = end]
             counted == [until EXCEPT !.ban_count = b.ban_count + 1]
  <2>2. d = [counted EXCEPT !.token_failures = 0]
    BY DEF Filter!ban
  <2> HIDE DEF end, d
  <2>3. until \in Behavior /\ until.banned_until = end
    BY <1>0, <2>1 DEF Behavior
  <2> HIDE DEF until
  <2>4. /\ counted \in Behavior /\ counted.banned_until = end
        /\ counted.ban_count = b.ban_count + 1
    BY <1>0, <2>3 DEF Behavior
  <2> HIDE DEF counted
  <2>5. d \in Behavior /\ d.banned_until = end /\ d.ban_count = b.ban_count + 1
    BY <2>2, <2>4 DEF Behavior
  <2> QED
    BY <2>5 DEF end
<1>3. Filter!ban_duration(d) \in Nat /\ Filter!ban_duration(b) <= Filter!ban_duration(d)
  BY <1>2, LongerBans DEF Bannable, Behavior
<1> HIDE DEF d
<1>4. Bannable(d) /\ d.banned_until >= b.banned_until
  BY <1>1, <1>2, <1>3 DEF Bannable, Behavior, FilterInv
<1> QED
  BY <1>4 DEF d

\* The ban of a record depends on nothing but its count of bans.
LEMMA SameBan ==
  ASSUME NEW b, NEW d, Bannable(b), d \in Behavior, d.ban_count = b.ban_count,
         FilterInv, d.banned_until <= b.banned_until
  PROVE  Bannable(d)
<1>1. Filter!ban_duration(d) = Filter!ban_duration(b)
  BY DEF Filter!ban_duration
<1>2. Filter!ban_duration(b) \in Nat
  BY LongerBans DEF Bannable, Behavior
<1> QED
  BY <1>1, <1>2 DEF Bannable, Behavior, FilterInv

\* The end of a window leaves the ban alone.
LEMMA WindowKeepsBan ==
  ASSUME FilterInv, NEW b \in Behavior
  PROVE  /\ Filter!windowed(b) \in Behavior
         /\ Filter!windowed(b).banned_until = b.banned_until
         /\ Filter!windowed(b).ban_count = b.ban_count
BY DEF FilterInv, Behavior, Filter!windowed

\* A record that is found or made is one a ban may be given to.
LEMMA EntryBannable ==
  ASSUME FilterInv, NEW ip
  PROVE  Bannable(Filter!entry(ip))
<1>1. Filter!new_behavior \in Behavior /\ Filter!new_behavior.banned_until = -1
  BY DEF FilterInv, Behavior, Filter!new_behavior, Filter!NotBanned
<1>2. Filter!ban_duration(Filter!new_behavior) \in Nat
  BY <1>1, LongerBans DEF Behavior
<1>3. Bannable(Filter!new_behavior)
  BY <1>1, <1>2 DEF Bannable, FilterInv
<1> QED
  BY <1>3 DEF FilterInv, Filter!entry

\* A count or a time that is written leaves the ban alone.
LEMMA FieldKeepsBan ==
  ASSUME NEW b \in Behavior, NEW n \in Nat,
         NEW d \in {[b EXCEPT !.request_count = n], [b EXCEPT !.last_request = n],
                   [b EXCEPT !.token_failures = n], [b EXCEPT !.unique_infohashes = n]}
  PROVE  d \in Behavior /\ d.banned_until = b.banned_until /\ d.ban_count = b.ban_count
BY DEF Behavior

\* The record b may take the place of the one of ip: it keeps a ban that runs.
Keeps(ip, b) ==
  /\ Bannable(b)
  /\ Filter!banned_now(Filter!entry(ip)) => b.banned_until >= Filter!entry(ip).banned_until

\* A request leaves a record that keeps the ban.
LEMMA RequestKeeps ==
  ASSUME FilterInv, NEW ip, Filter!RecordRequest(ip)
  PROVE  \E b : Keeps(ip, b) /\ Filter!Store(ip, b)
<1> DEFINE old == Filter!entry(ip)
           free == [old EXCEPT !.banned_until = Filter!NotBanned]
           open == Filter!windowed(free)
           counted == [open EXCEPT !.request_count = open.request_count + 1]
           b == [counted EXCEPT !.last_request = filterNow]
<1>0. filterNow \in Nat /\ Bannable(old) /\ old \in Behavior
  BY EntryBannable DEF FilterInv, Bannable
<1>1. \/ Filter!Store(ip, old)
      \/ /\ ~Filter!banned_now(old)
         /\ Filter!Store(ip, Filter!ban(b)) \/ Filter!Store(ip, b)
  BY DEF Filter!RecordRequest
<1> HIDE DEF old
<1>2. free \in Behavior /\ free.banned_until = -1 /\ free.ban_count = old.ban_count
  BY <1>0 DEF Behavior, Filter!NotBanned
<1> HIDE DEF free
<1>3. open \in Behavior /\ open.banned_until = -1 /\ open.ban_count = old.ban_count
  BY <1>2, WindowKeepsBan
<1>4. open.request_count + 1 \in Nat
  BY <1>3 DEF Behavior
<1> HIDE DEF open
<1>5. counted \in Behavior /\ counted.banned_until = -1 /\ counted.ban_count = old.ban_count
  BY <1>3, <1>4, FieldKeepsBan
<1> HIDE DEF counted
<1>6. b \in Behavior /\ b.banned_until = -1 /\ b.ban_count = old.ban_count
  BY <1>0, <1>5, FieldKeepsBan
<1> HIDE DEF b
<1>7. Bannable(b)
  <2>1. Filter!ban_duration(b) \in Nat
    BY <1>6, LongerBans DEF Behavior
  <2> QED
    BY <1>0, <1>6, <2>1 DEF Bannable
<1>8. Bannable(Filter!ban(b))
  BY <1>7, BanOutlasts
<1>9. Keeps(ip, old)
  BY <1>0 DEF Keeps, old, Behavior
<1>10. ~Filter!banned_now(old) => Keeps(ip, b) /\ Keeps(ip, Filter!ban(b))
  BY <1>7, <1>8 DEF Keeps, old
<1> QED
  BY <1>1, <1>9, <1>10

\* A record with the ban of the old one, and one that is banned on top of it,
\* both keep the ban.
LEMMA SameBanKeeps ==
  ASSUME FilterInv, NEW ip, NEW b \in Behavior,
         b.banned_until = Filter!entry(ip).banned_until, b.ban_count = Filter!entry(ip).ban_count
  PROVE  Keeps(ip, b) /\ Keeps(ip, Filter!ban(b))
<1>1. Bannable(Filter!entry(ip)) /\ Filter!entry(ip).banned_until \in Int
  BY EntryBannable DEF Bannable, Behavior
<1>2. Bannable(b)
  BY <1>1, SameBan
<1>3. Bannable(Filter!ban(b)) /\ Filter!ban(b).banned_until >= b.banned_until
  BY <1>2, BanOutlasts
<1> QED
  BY <1>1, <1>2, <1>3 DEF Keeps

\* A failed token leaves a record that keeps the ban, also when it bans again.
LEMMA TokenFailureKeeps ==
  ASSUME FilterInv, NEW ip, Filter!RecordTokenFailure(ip)
  PROVE  \E b : Keeps(ip, b) /\ Filter!Store(ip, b)
<1> DEFINE old == Filter!entry(ip)
           counted == [old EXCEPT !.token_failures = old.token_failures + 1]
           b == [counted EXCEPT !.last_request = filterNow]
<1>0. filterNow \in Nat /\ old \in Behavior
  BY EntryBannable DEF FilterInv, Bannable
<1>1. Filter!Store(ip, Filter!ban(b)) \/ Filter!Store(ip, b)
  BY DEF Filter!RecordTokenFailure
<1> HIDE DEF old
<1>2. old.token_failures + 1 \in Nat
  BY <1>0 DEF Behavior
<1>3. /\ counted \in Behavior
      /\ counted.banned_until = old.banned_until /\ counted.ban_count = old.ban_count
  BY <1>0, <1>2, FieldKeepsBan
<1> HIDE DEF counted
<1>4. b \in Behavior /\ b.banned_until = old.banned_until /\ b.ban_count = old.ban_count
  BY <1>0, <1>3, FieldKeepsBan
<1> HIDE DEF b
<1> QED
  BY <1>1, <1>4, SameBanKeeps DEF old

\* So does the query for an infohash.
LEMMA InfohashQueryKeeps ==
  ASSUME FilterInv, NEW ip, Filter!RecordInfohashQuery(ip)
  PROVE  \E b : Keeps(ip, b) /\ Filter!Store(ip, b)
<1> DEFINE old == Filter!entry(ip)
           open == Filter!windowed(old)
           b == [open EXCEPT !.unique_infohashes = open.unique_infohashes + 1]
<1>0. old \in Behavior
  BY EntryBannable DEF Bannable
<1>1. Filter!Store(ip, Filter!ban(b)) \/ Filter!Store(ip, b)
  BY DEF Filter!RecordInfohashQuery
<1> HIDE DEF old
<1>2. /\ open \in Behavior
      /\ open.banned_until = old.banned_until /\ open.ban_count = old.ban_count
  BY <1>0, WindowKeepsBan
<1> HIDE DEF open
<1>3. open.unique_infohashes + 1 \in Nat
  BY <1>2 DEF Behavior
<1>4. b \in Behavior /\ b.banned_until = old.banned_until /\ b.ban_count = old.ban_count
  BY <1>2, <1>3, FieldKeepsBan
<1> HIDE DEF b
<1> QED
  BY <1>1, <1>4, SameBanKeeps DEF old

\* A record that keeps the ban of its address keeps the invariant and all bans.
LEMMA StoreKeeps ==
  ASSUME FilterInv, NEW ip \in Ip, NEW b, Keeps(ip, b), Filter!Store(ip, b)
  PROVE  FilterInv' /\ \A i \in Ip : Filter!BanHeld(i)
<1>1. filterNow' = filterNow /\ DOMAIN behaviors' = DOMAIN behaviors \cup {ip}
  BY DEF Filter!Store
<1>2. behaviors'[ip] = b /\ \A i \in DOMAIN behaviors : i # ip => behaviors'[i] = behaviors[i]
  BY DEF Filter!Store
<1>3. FilterInv'
  <2>1. behaviors' = [i \in DOMAIN behaviors' |-> behaviors'[i]]
    BY DEF Filter!Store
  <2>2. \A i \in DOMAIN behaviors' : Bannable(behaviors'[i])
    BY <1>1, <1>2 DEF FilterInv, Keeps
  <2>3. (\A i \in DOMAIN behaviors : Bannable(behaviors[i]))'
    BY <1>1, <2>2 DEF Bannable, Filter!ban_duration
  <2> QED
    BY <1>1, <2>1, <2>3 DEF FilterInv
<1>4. ASSUME NEW i \in Ip PROVE Filter!BanHeld(i)
  BY <1>1, <1>2
     DEF FilterInv, Keeps, Bannable, Behavior, Filter!BanHeld, Filter!is_banned, Filter!entry,
         Filter!banned_now
<1> QED
  BY <1>3, <1>4

\* FilterInv holds at the start.
LEMMA FilterInvInit == ServicesInit => FilterInv
BY DEF ServicesInit, Filter!Init, FilterInv

\* Every step of the filter keeps it, and no step cuts a ban short.
LEMMA FilterInvNext ==
  ASSUME FilterInv, [Filter!Next]_filterVars
  PROVE  FilterInv' /\ [\A ip \in Ip : Filter!BanHeld(ip)]_filterVars
<1>1. CASE UNCHANGED filterVars
  BY <1>1 DEF filterVars, FilterInv, Bannable, Filter!ban_duration
<1>2. ASSUME NEW ip \in Ip, \/ Filter!RecordRequest(ip)
                            \/ Filter!RecordTokenFailure(ip)
                            \/ Filter!RecordInfohashQuery(ip)
      PROVE  FilterInv' /\ \A i \in Ip : Filter!BanHeld(i)
  BY <1>2, RequestKeeps, TokenFailureKeeps, InfohashQueryKeeps, StoreKeeps
<1>3. ASSUME NEW ip \in Ip, Filter!Unban(ip)
      PROVE  FilterInv' /\ \A i \in Ip : Filter!BanHeld(i)
  <2> DEFINE b == [behaviors[ip] EXCEPT !.banned_until = Filter!NotBanned]
  <2>0. Bannable(behaviors[ip]) /\ behaviors[ip] \in Behavior /\ filterNow \in Nat
    BY <1>3 DEF Filter!Unban, FilterInv, Bannable
  <2>1. b \in Behavior /\ b.banned_until = -1 /\ b.ban_count = behaviors[ip].ban_count
    BY <2>0 DEF Behavior, Filter!NotBanned
  <2>2. behaviors' = [behaviors EXCEPT ![ip] = b] /\ filterNow' = filterNow /\ pardoned' = {ip}
    BY <1>3 DEF Filter!Unban
  <2> HIDE DEF b
  <2>3. Bannable(b)
    <3>1. Filter!ban_duration(b) \in Nat
      BY <2>1, LongerBans DEF Behavior
    <3> QED
      BY <2>0, <2>1, <3>1 DEF Bannable
  <2>4. /\ DOMAIN behaviors' = DOMAIN behaviors
        /\ behaviors' = [i \in DOMAIN behaviors' |-> behaviors'[i]]
        /\ \A i \in DOMAIN behaviors : behaviors'[i] = IF i = ip THEN b ELSE behaviors[i]
    BY <2>2 DEF FilterInv
  <2>5. \A i \in DOMAIN behaviors' : Bannable(behaviors'[i])
    BY <2>3, <2>4 DEF FilterInv
  <2>6. (\A i \in DOMAIN behaviors : Bannable(behaviors[i]))'
    BY <2>2, <2>5 DEF Bannable, Filter!ban_duration
  <2>7. FilterInv'
    BY <2>2, <2>4, <2>6 DEF FilterInv
  <2>8. ASSUME NEW i \in Ip PROVE Filter!BanHeld(i)
    BY <2>2, <2>4 DEF FilterInv, Bannable, Behavior, Filter!BanHeld, Filter!is_banned
  <2> QED
    BY <2>7, <2>8
<1>4. CASE Filter!Cleanup
  <2>1. filterNow' = filterNow
    BY <1>4 DEF Filter!Cleanup
  <2>2. /\ DOMAIN behaviors' = DOMAIN behaviors \ pardoned'
        /\ behaviors' = [i \in DOMAIN behaviors' |-> behaviors'[i]]
        /\ \A i \in DOMAIN behaviors' : behaviors'[i] = behaviors[i]
    BY <1>4 DEF Filter!Cleanup
  <2>3. \A i \in DOMAIN behaviors' : Bannable(behaviors'[i])
    BY <2>2 DEF FilterInv
  <2>4. (\A i \in DOMAIN behaviors : Bannable(behaviors[i]))'
    BY <2>1, <2>3 DEF Bannable, Filter!ban_duration
  <2>5. FilterInv'
    BY <2>1, <2>2, <2>4 DEF FilterInv
  <2>6. ASSUME NEW i \in Ip PROVE Filter!BanHeld(i)
    BY <2>1, <2>2 DEF FilterInv, Bannable, Behavior, Filter!BanHeld, Filter!is_banned
  <2> QED
    BY <2>5, <2>6
<1>5. CASE Filter!Tick
  <2>1. filterNow' = filterNow + 1 /\ behaviors' = behaviors /\ filterNow \in Nat
    BY <1>5 DEF Filter!Tick, FilterInv
  <2>2. ASSUME NEW d, Bannable(d) PROVE Bannable(d)'
    <3>1. Filter!ban_duration(d) \in Nat /\ Filter!ban_duration(d)' = Filter!ban_duration(d)
      BY <2>2, LongerBans DEF Bannable, Behavior, Filter!ban_duration
    <3> QED
      BY <2>1, <2>2, <3>1 DEF Bannable, Behavior
  <2>3. \A i \in DOMAIN behaviors : Bannable(behaviors[i])
    BY DEF FilterInv
  <2>4. (\A i \in DOMAIN behaviors : Bannable(behaviors[i]))'
    BY <2>1, <2>2, <2>3
  <2>5. FilterInv'
    BY <2>1, <2>4 DEF FilterInv
  <2>6. ASSUME NEW i \in Ip PROVE Filter!BanHeld(i)
    BY <2>1 DEF FilterInv, Bannable, Behavior, Filter!BanHeld, Filter!is_banned
  <2> QED
    BY <2>5, <2>6
<1> QED
  BY <1>1, <1>2, <1>3, <1>4, <1>5 DEF Filter!Next

\* Until unban or cleanup, a ban lasts at least to the time it was given,
\* whatever the address does meanwhile: a ban on top of it ends no earlier,
\* for bans get longer and never shorter (record_request, record_token_failure
\* and record_infohash_query in peer_filter.rs).
THEOREM BansAreServed == ServicesSpec => BansHold
<1>1. FilterInv /\ [ServicesNext]_servicesVars => FilterInv'
  BY FilterInvNext, ServicesStep
<1>2. FilterInv /\ [ServicesNext]_servicesVars => [\A ip \in Ip : Filter!BanHeld(ip)]_filterVars
  BY FilterInvNext, ServicesStep
<1> QED
  BY <1>1, <1>2, FilterInvInit, PTL DEF ServicesSpec, BansHold

-----------------------------------------------------------------------------
(* Auth.                                                                   *)

\* The requests at the times A before the window s: none is later than the
\* start of the window, and those within a window's length of it are a
\* window's worth at most.
WindowInv(s, A) ==
  LET past == Len(A) - s.count
  IN  /\ s \in [window_start : Nat, count : Nat]
      /\ s.window_start <= authNow
      /\ s.count <= Api!largest
      /\ past \in Nat
      /\ \A i \in 1..past : A[i] <= s.window_start
      /\ \A i \in 1..past :
           s.window_start - A[i] <= rate_limit_window_secs => past - i + 1 <= Api!largest

\* A span of the length of a window meets one window and, before it, no more
\* requests than fit into another one.
ApiInv ==
  /\ authNow \in Nat
  /\ auth_config \in AuthConfig
  /\ DOMAIN rate_limits \subseteq Client
  /\ admitted \in [Client -> Seq(Nat)]
  /\ \A c \in Client : \A i \in 1..Len(admitted[c]) : admitted[c][i] <= authNow
  /\ \A c \in Client : IF c \in DOMAIN rate_limits THEN WindowInv(rate_limits[c], admitted[c])
                       ELSE admitted[c] = <<>>
  /\ RateBounded

\* largest is the most that a configuration allows in a window.
LEMMA LargestLimit ==
  /\ Api!largest \in Nat
  /\ \A cfg \in AuthConfig : Api!max_requests(cfg) \in Nat /\ Api!max_requests(cfg) <= Api!largest
<1> DEFINE R == {Api!max_requests(cfg) : cfg \in AuthConfig}
<1>1. PICK top \in AuthConfig :
        \A d \in AuthConfig : d.rate_limit_per_second <= top.rate_limit_per_second
  BY AuthAssumption
<1>2. ASSUME NEW d \in AuthConfig
      PROVE  Api!max_requests(d) \in Nat /\ Api!max_requests(d) <= Api!max_requests(top)
  <2>1. ASSUME NEW x \in Nat, NEW y \in Nat, NEW w \in Nat, x <= y PROVE x * w <= y * w
    BY <2>1
  <2>2. ASSUME NEW x \in Nat, NEW w \in Nat PROVE x * w \in Nat
    BY <2>2
  <2> QED
    BY <1>1, <2>1, <2>2, AuthAssumption DEF Api!max_requests
<1>3. Api!max_requests(top) \in R /\ \A y \in R : y \in Nat /\ Api!max_requests(top) >= y
  BY <1>2
<1>4. Api!largest \in R /\ \A y \in R : Api!largest >= y
  BY <1>3 DEF Api!largest, Api!Max
<1> QED
  BY <1>2, <1>3, <1>4

\* ApiInv holds at the start.
LEMMA ApiInvInit == ServicesInit => ApiInv
BY DEF ServicesInit, Api!Init, ApiInv, RateBounded, Api!RateBounded

\* The window a request of c finds, or opens when the last one is over.
LEMMA WindowFound ==
  ASSUME ApiInv, NEW c \in Client, NEW s,
         s = Api!windowed(IF c \in DOMAIN rate_limits THEN rate_limits[c] ELSE Api!no_limit_yet)
  PROVE  WindowInv(s, admitted[c]) /\ authNow - s.window_start <= rate_limit_window_secs
<1> DEFINE A == admitted[c]
           n == Len(A)
           W == rate_limit_window_secs
           new == [window_start |-> authNow, count |-> 0]
<1>0. /\ authNow \in Nat /\ W \in Nat /\ Api!largest \in Nat
      /\ A \in Seq(Nat) /\ n \in Nat /\ \A i \in 1..n : A[i] \in Nat /\ A[i] <= authNow
  BY AuthAssumption, LargestLimit DEF ApiInv
<1>1. CASE c \notin DOMAIN rate_limits
  <2>1. s = new
    BY <1>0, <1>1 DEF Api!windowed, Api!no_limit_yet
  <2>2. A = <<>>
    BY <1>1 DEF ApiInv
  <2> QED
    BY <1>0, <2>1, <2>2 DEF WindowInv
<1>2. CASE c \in DOMAIN rate_limits
  <2> DEFINE r == rate_limits[c]
             past == n - r.count
  <2>1. /\ r \in [window_start : Nat, count : Nat]
        /\ r.window_start <= authNow
        /\ r.count <= Api!largest
        /\ past \in Nat
        /\ \A i \in 1..past : A[i] <= r.window_start
    BY <1>2 DEF ApiInv, WindowInv
  <2>2. CASE authNow - r.window_start > W
    <3>1. s = new
      BY <1>2, <2>2 DEF Api!windowed, Api!no_limit_yet
    <3>2. ASSUME NEW i \in 1..n, authNow - A[i] <= W PROVE n - i + 1 <= Api!largest
      <4>1. ASSUME i \in 1..past PROVE FALSE
        <5>1. A[i] \in Nat /\ A[i] <= r.window_start /\ r.window_start \in Nat
          BY <1>0, <2>1, <4>1
        <5> HIDE DEF A, r, past
        <5> QED
          BY <1>0, <2>2, <3>2, <5>1
      <4> QED
        BY <1>0, <2>1, <4>1
    <3> HIDE DEF A, r, past
    <3>3. WindowInv(new, A)
      BY <1>0, <3>2 DEF WindowInv
    <3> QED
      BY <1>0, <3>1, <3>3 DEF A
  <2>3. CASE ~(authNow - r.window_start > W)
    <3>1. s = r
      BY <1>2, <2>3 DEF Api!windowed
    <3>2. WindowInv(r, A)
      BY <1>2 DEF ApiInv
    <3> QED
      BY <1>0, <2>1, <2>3, <3>1, <3>2
  <2> QED
    BY <2>2, <2>3
<1> QED
  BY <1>1, <1>2

\* What is left of one window and a second one are two windows at most.
LEMMA TwoWindows ==
  \A u, v, w, x \in Nat : u - x + 1 <= w /\ v + 1 <= w => (u + v + 1) - x + 1 <= 2 * w
OBVIOUS

\* A request that is counted stays within the bound.
LEMMA CountedInBound ==
  ASSUME ApiInv, NEW c \in Client, NEW s, WindowInv(s, admitted[c]),
         authNow - s.window_start <= rate_limit_window_secs, s.count < Api!largest,
         NEW A, A = Append(admitted[c], authNow)
  PROVE  /\ WindowInv([s EXCEPT !.count = s.count + 1], A)
         /\ A \in Seq(Nat)
         /\ \A i \in 1..Len(A) : A[i] <= authNow
         /\ \A i, j \in DOMAIN A : /\ i <= j
                                  /\ A[j] - A[i] <= rate_limit_window_secs
                                  => j - i + 1 <= 2 * Api!largest
<1> DEFINE B == admitted[c]
           n == Len(B)
           t == [s EXCEPT !.count = s.count + 1]
           past == n - s.count
<1>0. /\ authNow \in Nat /\ rate_limit_window_secs \in Nat /\ Api!largest \in Nat
      /\ B \in Seq(Nat) /\ n \in Nat /\ \A i \in 1..n : B[i] \in Nat /\ B[i] <= authNow
  BY AuthAssumption, LargestLimit DEF ApiInv
<1>1. /\ Len(A) = n + 1 /\ A \in Seq(Nat) /\ DOMAIN A = 1..(n + 1)
      /\ A[n + 1] = authNow /\ \A i \in 1..n : A[i] = B[i]
  BY <1>0
<1>2. /\ s \in [window_start : Nat, count : Nat] /\ s.window_start <= authNow
      /\ past \in Nat
      /\ \A i \in 1..past : B[i] <= s.window_start
      /\ \A i \in 1..past :
           s.window_start - B[i] <= rate_limit_window_secs => past - i + 1 <= Api!largest
  BY DEF WindowInv
<1>3. /\ t \in [window_start : Nat, count : Nat]
      /\ t.window_start = s.window_start /\ t.count = s.count + 1
      /\ Len(A) - t.count = past
  <2>1. /\ t \in [window_start : Nat, count : Nat]
        /\ t.window_start = s.window_start /\ t.count = s.count + 1
    BY <1>2
  <2> HIDE DEF t, B
  <2> QED
    BY <1>0, <1>1, <1>2, <2>1
<1>4. \A i, j \in 1..n : i <= j /\ B[j] - B[i] <= rate_limit_window_secs
                          => j - i + 1 <= 2 * Api!largest
  <2>1. DOMAIN B = 1..n
    BY <1>0
  <2>2. \A i, j \in DOMAIN B : i <= j /\ B[j] - B[i] <= rate_limit_window_secs
                              => j - i + 1 <= 2 * Api!largest
    BY DEF ApiInv, RateBounded, Api!RateBounded
  <2> HIDE DEF B
  <2> QED
    BY <2>1, <2>2
<1> HIDE DEF B, n, t, past
<1>5. past <= n /\ \A i \in 1..past : A[i] = B[i]
  BY <1>0, <1>1, <1>2 DEF past
<1>6. WindowInv(t, A)
  <2>1. \A i \in 1..past : A[i] <= t.window_start
    BY <1>2, <1>3, <1>5
  <2>2. \A i \in 1..past :
          t.window_start - A[i] <= rate_limit_window_secs => past - i + 1 <= Api!largest
    BY <1>2, <1>3, <1>5
  <2>3. t.window_start <= authNow /\ t.count <= Api!largest
    BY <1>0, <1>2, <1>3
  <2> QED
    BY <1>2, <1>3, <2>1, <2>2, <2>3 DEF WindowInv
<1>7. ASSUME NEW i \in 1..Len(A) PROVE A[i] <= authNow
  <2>1. i = n + 1 \/ i \in 1..n
    BY <1>0, <1>1
  <2>2. CASE i = n + 1
    BY <1>0, <1>1, <2>2
  <2>3. CASE i \in 1..n
    <3>1. A[i] = B[i] /\ B[i] <= authNow
      BY <1>0, <1>1, <2>3
    <3> QED
      BY <3>1
  <2> QED
    BY <2>1, <2>2, <2>3
<1>8. ASSUME NEW i \in 1..(n + 1), NEW j \in 1..(n + 1), i <= j,
             A[j] - A[i] <= rate_limit_window_secs
      PROVE  j - i + 1 <= 2 * Api!largest
  <2>1. CASE j <= n
    BY <1>0, <1>1, <1>4, <1>8, <2>1
  <2>2. CASE j = n + 1 /\ i <= past
    <3>1. s.window_start - B[i] <= rate_limit_window_secs
      <4>0. i \in 1..past /\ i \in 1..n
        BY <1>0, <1>2, <1>5, <2>2
      <4>1. A[j] = authNow /\ A[i] = B[i] /\ B[i] \in Nat
        BY <1>0, <1>1, <2>2, <4>0
      <4> QED
        BY <1>0, <1>2, <1>8, <4>1
    <3>2. past - i + 1 <= Api!largest
      BY <1>2, <2>2, <3>1
    <3>3. n = past + s.count /\ s.count \in Nat
      BY <1>0, <1>2 DEF past
    <3>4. past \in Nat /\ Api!largest \in Nat /\ i \in Nat /\ s.count + 1 <= Api!largest
      BY <1>0, <1>2, <3>3
    <3>5. (past + s.count + 1) - i + 1 <= 2 * Api!largest
      BY <3>2, <3>3, <3>4, TwoWindows
    <3> QED
      BY <2>2, <3>3, <3>5
  <2>3. CASE j = n + 1 /\ i > past
    BY <1>0, <1>2, <2>3 DEF past
  <2> QED
    BY <1>0, <1>2, <1>8, <2>1, <2>2, <2>3
<1> QED
  BY <1>1, <1>6, <1>7, <1>8 DEF t

\* Every step of the middleware keeps ApiInv.
LEMMA ApiInvNext == ApiInv /\ [Api!Next]_apiVars => ApiInv'
<1> SUFFICES ASSUME ApiInv, [Api!Next]_apiVars PROVE ApiInv'
  OBVIOUS
<1>1. CASE UNCHANGED apiVars
  BY <1>1 DEF apiVars, ApiInv, WindowInv, RateBounded, Api!RateBounded
<1>2. ASSUME NEW cfg \in AuthConfig, Api!UpdateConfig(cfg) PROVE ApiInv'
  BY <1>2 DEF Api!UpdateConfig, ApiInv, WindowInv, RateBounded, Api!RateBounded
<1>3. ASSUME NEW key, Api!Uncounted(key) PROVE ApiInv'
  BY <1>3 DEF Api!Uncounted, Api!authVars, ApiInv, WindowInv, RateBounded, Api!RateBounded
<1>4. CASE Api!Tick
  <2>1. authNow \in Nat /\ authNow' = authNow + 1 /\ UNCHANGED <<auth_config, rate_limits, admitted>>
    BY <1>4 DEF Api!Tick, ApiInv
  <2>2. RateBounded'
    BY <2>1 DEF ApiInv, RateBounded, Api!RateBounded
  <2>3. ASSUME NEW c \in Client PROVE \A i \in 1..Len(admitted[c]) : admitted[c][i] <= authNow + 1
    <3>1. \A i \in 1..Len(admitted[c]) : admitted[c][i] \in Nat /\ admitted[c][i] <= authNow
      BY DEF ApiInv
    <3> QED
      BY <2>1, <3>1
  <2>4. ASSUME NEW s, NEW A, WindowInv(s, A) PROVE WindowInv(s, A)'
    BY <2>1, <2>4 DEF WindowInv
  <2>5. (\A c \in Client : IF c \in DOMAIN rate_limits THEN WindowInv(rate_limits[c], admitted[c])
                           ELSE admitted[c] = <<>>)'
    BY <2>1, <2>4 DEF ApiInv
  <2> QED
    BY <2>1, <2>2, <2>3, <2>5 DEF ApiInv
<1>5. ASSUME NEW key, NEW c \in Client, Api!Request(c, key) PROVE ApiInv'
  <2> DEFINE s == Api!windowed(IF c \in DOMAIN rate_limits THEN rate_limits[c]
                              ELSE Api!no_limit_yet)
             allowed == s.count < Api!max_requests(auth_config)
             t == IF allowed THEN [s EXCEPT !.count = s.count + 1] ELSE s
             A == IF allowed THEN Append(admitted[c], authNow) ELSE admitted[c]
  <2>0. authNow \in Nat /\ admitted \in [Client -> Seq(Nat)] /\ Api!largest \in Nat
    BY LargestLimit DEF ApiInv
  <2>1. /\ rate_limits' = [d \in DOMAIN rate_limits \cup {c} |->
                             IF d = c THEN t ELSE rate_limits[d]]
        /\ admitted' = IF allowed THEN [admitted EXCEPT ![c] = A] ELSE admitted
        /\ authNow' = authNow /\ auth_config' = auth_config
    BY <1>5 DEF Api!Request
  <2>2. WindowInv(s, admitted[c]) /\ authNow - s.window_start <= rate_limit_window_secs
    BY WindowFound
  <2> HIDE DEF s
  <2>3. allowed => s.count < Api!largest
    BY <2>2, LargestLimit DEF ApiInv, WindowInv
  <2>4. /\ WindowInv(t, A)
        /\ A \in Seq(Nat)
        /\ \A i \in 1..Len(A) : A[i] <= authNow
        /\ \A i, j \in DOMAIN A : i <= j /\ A[j] - A[i] <= rate_limit_window_secs
                                  => j - i + 1 <= 2 * Api!largest
    <3>1. CASE allowed
      BY <2>2, <2>3, <3>1, CountedInBound
    <3>2. CASE ~allowed
      BY <2>0, <2>2, <3>2 DEF ApiInv, RateBounded, Api!RateBounded
    <3> QED
      BY <3>1, <3>2
  <2>5. /\ DOMAIN rate_limits' = DOMAIN rate_limits \cup {c}
        /\ rate_limits'[c] = t
        /\ \A d \in DOMAIN rate_limits : d # c => rate_limits'[d] = rate_limits[d]
        /\ admitted'[c] = A /\ admitted' \in [Client -> Seq(Nat)]
        /\ \A d \in Client : d # c => admitted'[d] = admitted[d]
    BY <2>0, <2>1, <2>4
  <2> HIDE DEF t, A, allowed
  <2>6. RateBounded'
    BY <2>4, <2>5 DEF ApiInv, RateBounded, Api!RateBounded
  <2>7. ASSUME NEW d \in Client
        PROVE  IF d \in DOMAIN rate_limits' THEN WindowInv(rate_limits'[d], admitted'[d])
               ELSE admitted'[d] = <<>>
    BY <2>4, <2>5 DEF ApiInv
  <2>8. (\A d \in Client : IF d \in DOMAIN rate_limits THEN WindowInv(rate_limits[d], admitted[d])
                           ELSE admitted[d] = <<>>)'
    BY <2>1, <2>7 DEF WindowInv
  <2> QED
    BY <2>1, <2>4, <2>5, <2>6, <2>8 DEF ApiInv
<1> QED
  BY <1>1, <1>2, <1>3, <1>4, <1>5 DEF Api!Next

\* No span as long as a window sees more than two full windows of requests of
\* one client let through, whenever its windows start and however the limit
\* is reconfigured (check_rate_limit and update_config in auth.rs).
THEOREM RateStaysBounded == ServicesSpec => []RateBounded
<1>1. ApiInv /\ [ServicesNext]_servicesVars => ApiInv'
  BY ApiInvNext, ServicesStep
<1>2. ApiInv => RateBounded
  BY DEF ApiInv
<1> QED
  BY <1>1, <1>2, ApiInvInit, PTL DEF ServicesSpec

-----------------------------------------------------------------------------
(* NatManager.                                                             *)

Lease == [host : {Us, Other}, internal_port : Nat, pdc : BOOLEAN, left : Int]

Mapped ==
  [protocol : {Ports[i].protocol : i \in DOMAIN Ports}, internal_port : Nat,
   external_port : Nat, verified : BOOLEAN]

Keys(list) == {Mapping!key(list[i]) : i \in DOMAIN list}

MappingType ==
  /\ \A k \in DOMAIN router : router[k] \in Lease
  /\ mappings \in Seq(Mapped)
  /\ release \in Seq(Mapped)
  /\ renewal \in [left : Int, todo : Seq(Mapped)]
  /\ init_step \in -1..(Len(Ports) + 2)

\* The stages of init, and the renewal task that its end starts.
Stages ==
  /\ init_step < Mapping!done => renewal = Mapping!no_task /\ release = <<>> /\ ~released
  /\ init_step < 1 => mappings = <<>>
  /\ init_step = Mapping!done =>
       IF lease_duration = 0 THEN renewal = Mapping!no_task
       ELSE /\ renewal.left \in 0..Mapping!renew_interval
            /\ renewal.todo # <<>> => renewal.left = 0

\* Our lease for k lasts until its renewal, and a whole lease after it.
LastsToRenewal(k) ==
  IF lease_duration = 0 THEN router[k].left = Mapping!Forever
  ELSE \/ router[k].left >= lease_duration
       \/ /\ k \in Keys(renewal.todo)
          /\ router[k].left >= lease_duration - Mapping!renew_interval
       \/ /\ init_step = Mapping!done /\ renewal.todo = <<>>
          /\ router[k].left >= lease_duration - Mapping!renew_interval + renewal.left

\* From the cleanup on, as long as nothing fails, what the router has for us
\* is what we hold, with leases that last.
MappingInv ==
  /\ MappingType
  /\ Stages
  /\ \A k \in DOMAIN router : router[k].host = Us => router[k].pdc
  /\ init_step >= 1 /\ release = <<>> /\ ~released /\ ~disturbed =>
       /\ Mapping!ours = Keys(mappings)
       /\ Keys(renewal.todo) \subseteq Keys(mappings)
       /\ \A k \in Mapping!ours : LastsToRenewal(k)

\* A set of numbers that is not empty has a least one.
LEMMA LeastExists ==
  ASSUME NEW S \in SUBSET Nat, S # {}
  PROVE  \E m \in S : \A n \in S : m <= n
<1>1. PICK m \in S : \A n \in S : ~(<<n, m>> \in OpToRel(<, Nat))
  BY NatLessThanWellFounded, WFMin
<1>2. \A n \in S : ~(n < m)
  BY <1>1 DEF OpToRel
<1> QED
  BY <1>2

\* The port that map_port_with_retry comes to is one the router gives us.
LEMMA MappedPort ==
  ASSUME NEW protocol, NEW preferred \in Nat,
         NEW port \in Mapping!map_port_with_retry(protocol, preferred)
  PROVE  port \in Nat /\ Mapping!accepts(<<protocol, port>>)
<1> DEFINE external(o) == (preferred + o) % (MaxPort + 1)
           free == {o \in 0..(max_retries - 1) :
                      external(o) # 0 /\ Mapping!accepts(<<protocol, external(o)>>)}
<1>1. free # {} /\ port = external(Mapping!Min(free))
  BY DEF Mapping!map_port_with_retry
<1>2. free \in SUBSET Nat
  BY MappingAssumption
<1>3. Mapping!Min(free) \in free
  <2>1. \E m \in free : \A n \in free : m <= n
    BY <1>1, <1>2, LeastExists
  <2> QED
    BY <2>1 DEF Mapping!Min
<1>4. PICK o \in free : port = external(o)
  BY <1>1, <1>3
<1>5. Mapping!accepts(<<protocol, port>>)
  BY <1>4
<1>6. port \in Nat
  <2>1. o \in Nat
    BY <1>2, <1>4
  <2> QED
    BY <1>4, <2>1, MappingAssumption
<1> QED
  BY <1>5, <1>6

\* The interval of the renewal is shorter than a lease that is long enough.
LEMMA RenewsInTime ==
  /\ Mapping!renew_interval \in Nat
  /\ lease_duration > 0 /\ 2 * lease_duration > MinLease =>
       Mapping!renew_interval < lease_duration
<1>1. Mapping!Max({lease_duration, MinLease}) =
        IF lease_duration >= MinLease THEN lease_duration ELSE MinLease
  BY MappingAssumption DEF Mapping!Max
<1> QED
  BY <1>1, MappingAssumption DEF Mapping!renew_interval

\* MappingInv holds at the start.
LEMMA MappingInvInit == ServicesInit => MappingInv
<1> SUFFICES ASSUME Mapping!Init PROVE MappingInv
  BY DEF ServicesInit
<1>1. /\ router = [k \in {} |-> 0] /\ mappings = <<>> /\ init_step = -1
      /\ renewal = [left |-> -1, todo |-> <<>>] /\ release = <<>>
      /\ released = FALSE /\ disturbed = FALSE
  BY DEF Mapping!Init, Mapping!off, Mapping!no_task, Mapping!Forever
<1>2. MappingType
  BY <1>1, MappingAssumption DEF MappingType
<1>3. Stages
  BY <1>1, MappingAssumption DEF Stages, Mapping!no_task, Mapping!Forever, Mapping!done
<1> QED
  BY <1>1, <1>2, <1>3 DEF MappingInv

\* The keys of an empty list, of one that grew, and of one without its head.
LEMMA KeysOfLists ==
  /\ Keys(<<>>) = {}
  /\ \A s \in Seq(Mapped), m \in Mapped :
       Append(s, m) \in Seq(Mapped) /\ Keys(Append(s, m)) = Keys(s) \cup {Mapping!key(m)}
  /\ \A s \in Seq(Mapped) : s # <<>> =>
       /\ Head(s) \in Mapped /\ Tail(s) \in Seq(Mapped)
       /\ Keys(s) = Keys(Tail(s)) \cup {Mapping!key(Head(s))}
       /\ Len(s) = 1 <=> Tail(s) = <<>>
<1>1. Keys(<<>>) = {}
  BY DEF Keys
<1>2. ASSUME NEW s \in Seq(Mapped), NEW m \in Mapped
      PROVE  Append(s, m) \in Seq(Mapped) /\ Keys(Append(s, m)) = Keys(s) \cup {Mapping!key(m)}
  <2> DEFINE n == Len(s)
             t == Append(s, m)
  <2>1. /\ n \in Nat /\ DOMAIN s = 1..n /\ DOMAIN t = 1..(n + 1) /\ t \in Seq(Mapped)
        /\ t[n + 1] = m /\ \A i \in 1..n : t[i] = s[i]
    OBVIOUS
  <2> HIDE DEF n, t
  <2>2. 1..(n + 1) = 1..n \cup {n + 1}
    BY <2>1
  <2>3. Keys(t) = Keys(s) \cup {Mapping!key(m)}
    BY <2>1, <2>2 DEF Keys
  <2> QED
    BY <2>1, <2>3 DEF t
<1>3. ASSUME NEW s \in Seq(Mapped), s # <<>>
      PROVE  /\ Head(s) \in Mapped /\ Tail(s) \in Seq(Mapped)
             /\ Keys(s) = Keys(Tail(s)) \cup {Mapping!key(Head(s))}
             /\ Len(s) = 1 <=> Tail(s) = <<>>
  <2> DEFINE n == Len(s)
             t == Tail(s)
  <2>1. /\ n \in Nat /\ n >= 1 /\ DOMAIN s = 1..n /\ DOMAIN t = 1..(n - 1) /\ t \in Seq(Mapped)
        /\ Head(s) = s[1] /\ s[1] \in Mapped /\ \A i \in 1..(n - 1) : t[i] = s[i + 1]
        /\ Len(t) = n - 1
    BY <1>3
  <2>2. Len(s) = 1 <=> Tail(s) = <<>>
    <3>1. t = <<>> <=> Len(t) = 0
      <4> HIDE DEF t
      <4> QED
        BY <2>1, EmptySeq
    <3>2. Len(t) = 0 <=> n = 1
      <4> HIDE DEF t, n
      <4> QED
        BY <2>1
    <3> QED
      BY <3>1, <3>2
  <2>3. Head(s) \in Mapped /\ Tail(s) \in Seq(Mapped)
    BY <2>1
  <2>4. ASSUME NEW i \in 1..n PROVE i = 1 \/ (i - 1 \in 1..(n - 1) /\ s[i] = t[i - 1])
    BY <2>1
  <2>5. ASSUME NEW i \in 1..(n - 1) PROVE i + 1 \in 1..n
    BY <2>1
  <2> HIDE DEF n, t
  <2>6. Keys(s) = Keys(t) \cup {Mapping!key(s[1])}
    BY <2>1, <2>4, <2>5 DEF Keys
  <2> QED
    BY <2>1, <2>2, <2>3, <2>6 DEF t
<1> QED
  BY <1>1, <1>2, <1>3

\* A mapping that the router takes from us is ours, with a whole lease.
LEMMA PutOurs ==
  ASSUME MappingInv, NEW k, NEW port \in Nat, Mapping!accepts(k),
         router' = Mapping!Put(router, k, Mapping!our_lease(port))
  PROVE  /\ \A x \in DOMAIN router' : router'[x] \in Lease
         /\ \A x \in DOMAIN router' : router'[x].host = Us => router'[x].pdc
         /\ Mapping!ours' = Mapping!ours \cup {k}
         /\ router'[k].left = IF lease_duration = 0 THEN Mapping!Forever ELSE lease_duration
         /\ \A x \in Mapping!ours : x # k => router'[x] = router[x]
<1> DEFINE lease == Mapping!our_lease(port)
<1>1. /\ lease \in Lease /\ lease.host = Us /\ lease.pdc
      /\ lease.left = IF lease_duration = 0 THEN Mapping!Forever ELSE lease_duration
  BY MappingAssumption DEF Lease, Mapping!our_lease, Mapping!Forever
<1>2. /\ DOMAIN router' = DOMAIN router \cup {k}
      /\ router'[k] = lease
      /\ \A x \in DOMAIN router : x # k => router'[x] = router[x]
  BY DEF Mapping!Put
<1> HIDE DEF lease
<1> QED
  BY <1>1, <1>2 DEF MappingInv, MappingType, Mapping!ours, Mapping!accepts

\* The steps of init keep MappingInv.
LEMMA InitKeepsMapping ==
  ASSUME MappingInv,
         \/ Mapping!DiscoverGateway \/ Mapping!CleanupOldMappings
         \/ Mapping!MapPort \/ Mapping!Verify
  PROVE  MappingInv'
<1> USE MappingAssumption
<1>1. CASE Mapping!DiscoverGateway
  BY <1>1 DEF Mapping!DiscoverGateway, Mapping!off, Mapping!cleanup, Mapping!done, MappingInv,
              MappingType, Stages, Mapping!renew_interval
<1>2. CASE Mapping!CleanupOldMappings
  <2> DEFINE old == {k \in DOMAIN router : router[k].pdc}
  <2>1. PICK S \in SUBSET old :
          router' = Mapping!Drop(router, S) /\ disturbed' = (disturbed \/ S # old)
    BY <1>2 DEF Mapping!CleanupOldMappings
  <2>2. /\ init_step = 0 /\ init_step' = 1
        /\ UNCHANGED <<mappings, renewal, release, released>>
    BY <1>2 DEF Mapping!CleanupOldMappings, Mapping!cleanup
  <2>3. DOMAIN router' = DOMAIN router \ S /\ \A k \in DOMAIN router' : router'[k] = router[k]
    BY <2>1 DEF Mapping!Drop
  <2>4. MappingType' /\ Stages'
    BY <2>2, <2>3 DEF MappingInv, MappingType, Stages, Mapping!done, Mapping!renew_interval
  <2>5. \A k \in DOMAIN router' : router'[k].host = Us => router'[k].pdc
    BY <2>3 DEF MappingInv
  <2>6. ~disturbed' => Mapping!ours' = {}
    BY <2>1, <2>3 DEF MappingInv, Mapping!ours
  <2>7. mappings' = <<>> /\ renewal'.todo = <<>>
    BY <2>2 DEF MappingInv, Stages, Mapping!done, Mapping!no_task
  <2> QED
    BY <2>4, <2>5, <2>6, <2>7, KeysOfLists DEF MappingInv
<1>3. CASE Mapping!MapPort
  <2> DEFINE want == Ports[init_step]
             mapping(port) == [protocol |-> want.protocol, internal_port |-> want.internal_port,
                               external_port |-> port, verified |-> FALSE]
  <2>0. /\ init_step \in 1..Len(Ports) /\ init_step' = init_step + 1
        /\ UNCHANGED <<renewal, release, released, disturbed>>
    BY <1>3 DEF Mapping!MapPort
  <2>1. renewal = Mapping!no_task /\ release = <<>> /\ ~released /\ renewal.todo = <<>>
    BY <2>0 DEF MappingInv, Stages, Mapping!done, Mapping!no_task
  <2>2. CASE UNCHANGED <<router, mappings>>
    <3>1. MappingType' /\ Stages' /\ Mapping!ours' = Mapping!ours
      BY <2>0, <2>1, <2>2 DEF MappingInv, MappingType, Stages, Mapping!done,
           Mapping!renew_interval, Mapping!ours, Mapping!no_task, Mapping!Forever
    <3>2. \A k : LastsToRenewal(k) => LastsToRenewal(k)'
      BY <2>0, <2>1, <2>2 DEF LastsToRenewal, Mapping!renew_interval, Mapping!done, Keys
    <3> QED
      BY <2>0, <2>2, <3>1, <3>2 DEF MappingInv, Keys
  <2>3. ASSUME NEW port \in Mapping!map_port_with_retry(want.protocol, want.internal_port),
               router' = Mapping!Put(router, <<want.protocol, port>>,
                                     Mapping!our_lease(want.internal_port)),
               mappings' = Append(mappings, mapping(port))
        PROVE  MappingInv'
    <3> DEFINE k == <<want.protocol, port>>
    <3>1. want.internal_port \in Nat /\ port \in Nat /\ Mapping!accepts(k)
      BY <2>0, <2>3, MappedPort
    <3>2. mapping(port) \in Mapped /\ Mapping!key(mapping(port)) = k
      BY <2>0, <3>1 DEF Mapped, Mapping!key
    <3>3. mappings \in Seq(Mapped)
      BY DEF MappingInv, MappingType
    <3> HIDE DEF want, mapping, k
    <3>4. mappings' \in Seq(Mapped) /\ Keys(mappings)' = Keys(mappings) \cup {k}
      <4>1. Keys(mappings)' = Keys(mappings')
        BY DEF Keys
      <4> QED
        BY <2>3, <3>2, <3>3, <4>1, KeysOfLists
    <3>5. /\ \A x \in DOMAIN router' : router'[x] \in Lease
          /\ \A x \in DOMAIN router' : router'[x].host = Us => router'[x].pdc
          /\ Mapping!ours' = Mapping!ours \cup {k}
          /\ router'[k].left = IF lease_duration = 0 THEN Mapping!Forever ELSE lease_duration
          /\ \A x \in Mapping!ours : x # k => router'[x] = router[x]
      BY <2>3, <3>1, PutOurs DEF k
    <3>6. MappingType' /\ Stages'
      BY <2>0, <2>1, <3>4, <3>5 DEF MappingInv, MappingType, Stages, Mapping!done,
           Mapping!renew_interval, Mapping!no_task, Mapping!Forever
    <3>7. Keys(renewal.todo)' = {} /\ Keys(renewal.todo) = {}
      BY <2>0, <2>1, KeysOfLists DEF Keys
    <3>8. ASSUME NEW x, x = k \/ (x \in Mapping!ours /\ LastsToRenewal(x)), x \in Mapping!ours'
          PROVE  LastsToRenewal(x)'
      <4>1. CASE x = k
        BY <3>5, <4>1 DEF LastsToRenewal
      <4>2. CASE x # k
        BY <2>0, <2>1, <3>5, <3>7, <3>8, <4>2 DEF LastsToRenewal, Mapping!done
      <4> QED
        BY <4>1, <4>2
    <3>9. ASSUME ~disturbed
          PROVE  Mapping!ours' = Keys(mappings)' /\ (\A x \in Mapping!ours : LastsToRenewal(x))'
      <4>1. Mapping!ours = Keys(mappings) /\ \A x \in Mapping!ours : LastsToRenewal(x)
        BY <2>0, <2>1, <3>9 DEF MappingInv
      <4> QED
        BY <3>4, <3>5, <3>8, <4>1
    <3> QED
      BY <2>0, <3>5, <3>6, <3>7, <3>9 DEF MappingInv
  <2> QED
    BY <1>3, <2>2, <2>3 DEF Mapping!MapPort
<1>4. CASE Mapping!Verify
  <2> DEFINE good(i) == /\ Mapping!key(mappings[i]) \in DOMAIN router
                        /\ router[Mapping!key(mappings[i])].internal_port = mappings[i].internal_port
  <2>0. /\ init_step = Len(Ports) + 1 /\ init_step' = Len(Ports) + 2
        /\ UNCHANGED <<router, release, released, disturbed>>
        /\ renewal' = IF lease_duration > 0 THEN [left |-> Mapping!renew_interval, todo |-> <<>>]
                      ELSE Mapping!no_task
    BY <1>4 DEF Mapping!Verify, Mapping!verify, Mapping!done
  <2>1. renewal = Mapping!no_task /\ release = <<>> /\ ~released /\ renewal.todo = <<>>
    BY <2>0 DEF MappingInv, Stages, Mapping!done, Mapping!no_task
  <2>2. /\ mappings \in Seq(Mapped) /\ DOMAIN mappings = 1..Len(mappings) /\ Len(mappings) \in Nat
        /\ \A i \in DOMAIN mappings : mappings[i] \in Mapped
    BY DEF MappingInv, MappingType
  <2>3. mappings' = [i \in DOMAIN mappings |-> [mappings[i] EXCEPT !.verified = good(i)]]
    BY <1>4 DEF Mapping!Verify
  <2>4. ASSUME NEW i \in DOMAIN mappings
        PROVE  /\ mappings'[i] \in Mapped
               /\ Mapping!key(mappings'[i]) = Mapping!key(mappings[i])
    <3>1. good(i) \in BOOLEAN
      OBVIOUS
    <3> HIDE DEF good
    <3> QED
      BY <2>2, <2>3, <3>1 DEF Mapped, Mapping!key
  <2>5. mappings' \in Seq(Mapped) /\ Keys(mappings)' = Keys(mappings)
    <3>1. DOMAIN mappings' = DOMAIN mappings
          /\ mappings' = [i \in 1..Len(mappings) |-> mappings'[i]]
      BY <2>2, <2>3
    <3>2. mappings' \in Seq(Mapped)
      BY <2>2, <2>4, <3>1, IsASeq
    <3> QED
      BY <2>4, <3>1, <3>2 DEF Keys
  <2>6. MappingType' /\ Stages' /\ Mapping!ours' = Mapping!ours
    BY <2>0, <2>1, <2>5, RenewsInTime
       DEF MappingInv, MappingType, Stages, Mapping!done, Mapping!ours, Mapping!no_task,
           Mapping!Forever
  <2>7. Keys(renewal.todo)' = {} /\ Keys(renewal.todo) = {}
    BY <2>0, <2>1, KeysOfLists DEF Keys, Mapping!no_task
  <2>8. ASSUME NEW k, LastsToRenewal(k) PROVE LastsToRenewal(k)'
    BY <2>0, <2>1, <2>7, <2>8 DEF LastsToRenewal, Mapping!done
  <2> QED
    BY <2>0, <2>1, <2>5, <2>6, <2>7, <2>8 DEF MappingInv
<1> QED
  BY <1>1, <1>2, <1>3, <1>4

\* The steps of the renewal task keep MappingInv.
LEMMA RenewalKeepsMapping ==
  ASSUME MappingInv, Mapping!Wake \/ Mapping!Renew
  PROVE  MappingInv'
<1> DEFINE agreed == release = <<>> /\ ~released /\ ~disturbed
<1>0. /\ init_step = Len(Ports) + 2 /\ lease_duration # 0
      /\ renewal \in [left : Int, todo : Seq(Mapped)] /\ renewal.left = 0
      /\ mappings \in Seq(Mapped)
  <2>1. renewal.left = 0
    BY DEF Mapping!Wake, Mapping!Renew
  <2>2. renewal # Mapping!no_task
    BY <2>1 DEF Mapping!no_task, Mapping!Forever
  <2>3. ~(init_step < Mapping!done) /\ init_step \in -1..(Len(Ports) + 2)
    BY <2>2 DEF MappingInv, MappingType, Stages
  <2>4. init_step = Len(Ports) + 2
    BY <2>3, MappingAssumption DEF Mapping!done
  <2>5. lease_duration # 0
    BY <2>2, <2>4 DEF MappingInv, Stages, Mapping!done
  <2> QED
    BY <2>1, <2>4, <2>5 DEF MappingInv, MappingType
<1> USE MappingAssumption, RenewsInTime
<1>1. agreed => /\ Mapping!ours = Keys(mappings) /\ Keys(renewal.todo) \subseteq Keys(mappings)
                /\ \A k \in Mapping!ours : LastsToRenewal(k)
  BY <1>0 DEF MappingInv
<1>2. CASE Mapping!Wake
  <2>1. /\ renewal.todo = <<>>
        /\ renewal' = IF mappings = <<>> THEN [renewal EXCEPT !.left = Mapping!renew_interval]
                      ELSE [renewal EXCEPT !.todo = mappings]
        /\ UNCHANGED <<router, mappings, init_step, release, released, disturbed>>
    BY <1>2 DEF Mapping!Wake
  <2>2. /\ renewal' \in [left : Int, todo : Seq(Mapped)]
        /\ renewal'.todo = mappings
        /\ renewal'.left = IF mappings = <<>> THEN Mapping!renew_interval ELSE 0
    BY <1>0, <2>1
  <2>3. MappingType' /\ Mapping!ours' = Mapping!ours /\ Keys(renewal.todo)' = Keys(mappings)
        /\ Keys(mappings)' = Keys(mappings)
    BY <2>1, <2>2 DEF MappingInv, MappingType, Mapping!ours, Keys
  <2>4. Stages'
    BY <1>0, <2>1, <2>2 DEF Stages, Mapping!done
  <2>5. ASSUME agreed, NEW k \in Mapping!ours PROVE LastsToRenewal(k)'
    <3>1. LastsToRenewal(k) /\ k \in Keys(mappings) /\ router[k] \in Lease
      BY <1>1, <2>5 DEF MappingInv, MappingType, Mapping!ours
    <3>2. k \notin Keys(renewal.todo)
      BY <2>1, KeysOfLists
    <3>3. router[k].left >= lease_duration - Mapping!renew_interval
      BY <1>0, <3>1, <3>2 DEF LastsToRenewal, Lease
    <3> QED
      BY <1>0, <2>1, <2>3, <3>1, <3>3 DEF LastsToRenewal
  <2> QED
    BY <1>1, <2>1, <2>3, <2>4, <2>5 DEF MappingInv
<1>3. CASE Mapping!Renew
  <2> DEFINE todo == renewal.todo
             m == Head(todo)
             k == Mapping!key(m)
  <2>1. /\ todo # <<>>
        /\ \/ /\ Mapping!accepts(k)
              /\ router' = Mapping!Put(router, k, Mapping!our_lease(m.internal_port))
              /\ UNCHANGED disturbed
           \/ disturbed' = TRUE /\ UNCHANGED router
        /\ renewal' = [left |-> IF Len(todo) = 1 THEN Mapping!renew_interval ELSE 0,
                       todo |-> Tail(todo)]
        /\ UNCHANGED <<mappings, init_step, release, released>>
    BY <1>3 DEF Mapping!Renew
  <2>2. /\ m \in Mapped /\ m.internal_port \in Nat /\ Tail(todo) \in Seq(Mapped)
        /\ Keys(todo) = Keys(Tail(todo)) \cup {k}
        /\ Len(todo) = 1 <=> Tail(todo) = <<>>
    BY <1>0, <2>1, KeysOfLists DEF Mapped
  <2> HIDE DEF todo, m, k
  <2>3. /\ renewal' \in [left : Int, todo : Seq(Mapped)] /\ renewal'.todo = Tail(todo)
        /\ renewal'.left = IF Tail(todo) = <<>> THEN Mapping!renew_interval ELSE 0
    BY <2>1, <2>2
  <2>4. Stages'
    BY <1>0, <2>1, <2>3 DEF Stages, Mapping!done
  <2>5. Keys(renewal.todo)' = Keys(Tail(todo)) /\ Keys(mappings)' = Keys(mappings)
    BY <2>1, <2>3 DEF Keys
  <2>6. CASE disturbed' = TRUE /\ UNCHANGED router
    BY <2>1, <2>3, <2>4, <2>6 DEF MappingInv, MappingType
  <2>7. CASE /\ Mapping!accepts(k)
             /\ router' = Mapping!Put(router, k, Mapping!our_lease(m.internal_port))
             /\ UNCHANGED disturbed
    <3>1. /\ \A x \in DOMAIN router' : router'[x] \in Lease
          /\ \A x \in DOMAIN router' : router'[x].host = Us => router'[x].pdc
          /\ Mapping!ours' = Mapping!ours \cup {k}
          /\ router'[k].left = lease_duration
          /\ \A x \in Mapping!ours : x # k => router'[x] = router[x]
      BY <1>0, <2>2, <2>7, PutOurs
    <3>2. MappingType'
      BY <2>1, <2>3, <3>1 DEF MappingInv, MappingType
    <3>3. ASSUME agreed
          PROVE  /\ Mapping!ours' = Keys(mappings)
                 /\ Keys(Tail(todo)) \subseteq Keys(mappings)
      BY <1>1, <2>2, <3>1, <3>3 DEF todo
    <3>4. ASSUME agreed, NEW x \in Mapping!ours' PROVE LastsToRenewal(x)'
      <4>1. CASE x = k
        BY <1>0, <3>1, <4>1 DEF LastsToRenewal
      <4>2. CASE x # k
        <5>1. /\ router'[x] = router[x] /\ LastsToRenewal(x)
              /\ x \in Keys(Tail(todo)) <=> x \in Keys(renewal.todo)
          BY <1>1, <2>2, <3>1, <3>4, <4>2 DEF todo
        <5>2. renewal.todo # <<>>
          BY <2>1 DEF todo
        <5> QED
          BY <1>0, <2>5, <5>1, <5>2 DEF LastsToRenewal
      <4> QED
        BY <4>1, <4>2
    <3> QED
      BY <2>1, <2>4, <2>5, <2>7, <3>1, <3>2, <3>3, <3>4 DEF MappingInv
  <2> QED
    BY <2>1, <2>6, <2>7
<1> QED
  BY <1>2, <1>3

\* release_all and a crash keep MappingInv.
LEMMA ReleaseKeepsMapping ==
  ASSUME MappingInv, Mapping!Release \/ Mapping!Remove \/ Mapping!Crash
  PROVE  MappingInv'
<1> USE MappingAssumption, RenewsInTime
<1>1. CASE Mapping!Release
  <2>1. MappingType' /\ Stages' /\ release' # <<>>
    BY <1>1 DEF Mapping!Release, Mapping!done, MappingInv, MappingType, Stages
  <2> QED
    BY <1>1, <2>1 DEF Mapping!Release, MappingInv
<1>2. CASE Mapping!Remove
  <2>1. /\ release # <<>> /\ release' = Tail(release)
        /\ \/ router' = Mapping!Drop(router, {Mapping!key(Head(release))})
           \/ UNCHANGED router
        /\ IF Len(release) = 1 THEN mappings' = <<>> /\ released' = TRUE
           ELSE UNCHANGED <<mappings, released>>
        /\ UNCHANGED <<init_step, renewal>>
    BY <1>2 DEF Mapping!Remove
  <2>2. release \in Seq(Mapped) /\ mappings \in Seq(Mapped) /\ init_step = Mapping!done
    BY <2>1 DEF MappingInv, MappingType, Stages, Mapping!done
  <2>3. Tail(release) \in Seq(Mapped) /\ (Len(release) = 1 <=> Tail(release) = <<>>)
    BY <2>1, <2>2, KeysOfLists
  <2>4. DOMAIN router' \subseteq DOMAIN router /\ \A k \in DOMAIN router' : router'[k] = router[k]
    BY <2>1 DEF Mapping!Drop
  <2>5. mappings' \in Seq(Mapped)
    BY <2>1, <2>2
  <2>6. MappingType'
    BY <2>1, <2>3, <2>4, <2>5 DEF MappingInv, MappingType
  <2>7. Stages'
    BY <2>1, <2>2 DEF MappingInv, Stages, Mapping!done
  <2>8. release' # <<>> \/ released'
    BY <2>1, <2>3
  <2> QED
    BY <2>4, <2>6, <2>7, <2>8 DEF MappingInv
<1>3. CASE Mapping!Crash
  <2>1. /\ mappings' = <<>> /\ init_step' = -1 /\ renewal' = [left |-> -1, todo |-> <<>>]
        /\ release' = <<>> /\ released' = FALSE /\ router' = router
    BY <1>3 DEF Mapping!Crash, Mapping!off, Mapping!no_task, Mapping!Forever
  <2>2. MappingType'
    BY <2>1 DEF MappingInv, MappingType
  <2>3. Stages'
    BY <2>1 DEF Stages, Mapping!done, Mapping!no_task, Mapping!Forever
  <2> QED
    BY <2>1, <2>2, <2>3 DEF MappingInv
<1> QED
  BY <1>1, <1>2, <1>3

\* What another host does keeps MappingInv.
LEMMA OtherHostKeepsMapping ==
  ASSUME MappingInv, NEW k \in Mapping!PortKey, Mapping!OtherHost(k)
  PROVE  MappingInv'
<1> USE MappingAssumption
<1>0. UNCHANGED <<mappings, init_step, renewal, release, released>>
  BY DEF Mapping!OtherHost
<1>1. Stages'
  BY <1>0 DEF MappingInv, Stages, Mapping!done
<1>2. CASE /\ k \notin DOMAIN router
           /\ router' = Mapping!Put(router, k, [host |-> Other, internal_port |-> k[2],
                                               pdc |-> FALSE, left |-> Mapping!Forever])
           /\ UNCHANGED disturbed
  <2> DEFINE lease == [host |-> Other, internal_port |-> k[2],
                       pdc |-> FALSE, left |-> Mapping!Forever]
  <2>1. lease \in Lease /\ lease.host # Us
    BY DEF Mapping!PortKey, Lease, Mapping!Forever
  <2>2. /\ DOMAIN router' = DOMAIN router \cup {k} /\ router'[k] = lease
        /\ \A x \in DOMAIN router : router'[x] = router[x]
    BY <1>2 DEF Mapping!Put
  <2> HIDE DEF lease
  <2>3. MappingType'
    BY <1>0, <2>1, <2>2 DEF MappingInv, MappingType
  <2>4. /\ Mapping!ours' = Mapping!ours
        /\ \A x \in DOMAIN router' : router'[x].host = Us => router'[x].pdc
    BY <2>1, <2>2 DEF MappingInv, Mapping!ours
  <2>5. Keys(mappings)' = Keys(mappings) /\ Keys(renewal.todo)' = Keys(renewal.todo)
    BY <1>0 DEF Keys
  <2>6. ASSUME NEW x \in Mapping!ours, LastsToRenewal(x) PROVE LastsToRenewal(x)'
    BY <1>0, <2>2, <2>5, <2>6 DEF LastsToRenewal, Mapping!ours
  <2> QED
    BY <1>0, <1>1, <1>2, <2>3, <2>4, <2>5, <2>6 DEF MappingInv
<1>3. CASE /\ router' = Mapping!Drop(router, {l \in DOMAIN router : router[l].pdc})
           /\ disturbed' = TRUE
  <2>1. DOMAIN router' \subseteq DOMAIN router /\ \A x \in DOMAIN router' : router'[x] = router[x]
    BY <1>3 DEF Mapping!Drop
  <2>2. MappingType'
    BY <1>0, <2>1 DEF MappingInv, MappingType
  <2> QED
    BY <1>1, <1>3, <2>1, <2>2 DEF MappingInv
<1> QED
  BY <1>2, <1>3 DEF Mapping!OtherHost

\* Time passes, and MappingInv stays, if leases are long enough for the
\* renewal: no lease of ours is about to end while the task sleeps.
LEMMA TickKeepsMapping ==
  ASSUME lease_duration = 0 \/ 2 * lease_duration > MinLease,
         MappingInv, Mapping!Tick
  PROVE  MappingInv'
<1> USE MappingAssumption, RenewsInTime
<1> DEFINE left(n) == IF n = -1 THEN n ELSE n - 1
           gone == {k \in DOMAIN router : router[k].left = 1}
<1>1. /\ init_step \in {-1, Len(Ports) + 2} /\ renewal.left # 0
      /\ router' = [k \in DOMAIN router \ gone |-> [router[k] EXCEPT !.left = left(router[k].left)]]
      /\ renewal' = [renewal EXCEPT !.left = left(renewal.left)]
      /\ UNCHANGED <<mappings, init_step, release, released, disturbed>>
  BY DEF Mapping!Tick, Mapping!off, Mapping!done, Mapping!renewing, Mapping!Forever
<1>2. /\ renewal \in [left : Int, todo : Seq(Mapped)]
      /\ \A k \in DOMAIN router : router[k] \in Lease
  BY DEF MappingInv, MappingType
<1>3. /\ renewal' \in [left : Int, todo : Seq(Mapped)]
      /\ renewal'.todo = renewal.todo /\ renewal'.left = left(renewal.left)
  BY <1>1, <1>2
<1>4. ASSUME NEW k \in DOMAIN router'
      PROVE  /\ k \in DOMAIN router /\ router[k].left # 1
             /\ router'[k] \in Lease /\ router'[k].left = left(router[k].left)
             /\ router'[k].host = router[k].host /\ router'[k].pdc = router[k].pdc
  <2>1. /\ k \in DOMAIN router /\ router[k].left # 1
        /\ router'[k] = [router[k] EXCEPT !.left = left(router[k].left)]
    BY <1>1
  <2>2. left(router[k].left) \in Int
    BY <1>2, <2>1 DEF Lease
  <2> HIDE DEF left
  <2> QED
    BY <1>2, <2>1, <2>2 DEF Lease
<1>5. DOMAIN router' = DOMAIN router \ gone
  BY <1>1
<1>6. MappingType'
  BY <1>1, <1>3, <1>4 DEF MappingInv, MappingType
<1>7. Stages'
  <2>1. CASE init_step = -1
    BY <1>1, <1>3, <2>1 DEF MappingInv, Stages, Mapping!done, Mapping!no_task, Mapping!Forever
  <2>2. CASE init_step = Len(Ports) + 2 /\ lease_duration = 0
    BY <1>1, <1>3, <2>2 DEF MappingInv, Stages, Mapping!done, Mapping!no_task, Mapping!Forever
  <2>3. CASE init_step = Len(Ports) + 2 /\ lease_duration # 0
    BY <1>1, <1>3, <2>3 DEF MappingInv, Stages, Mapping!done
  <2> QED
    BY <1>1, <2>1, <2>2, <2>3
<1>8. Keys(mappings)' = Keys(mappings) /\ Keys(renewal.todo)' = Keys(renewal.todo)
  BY <1>1, <1>3 DEF Keys
<1>9. ASSUME init_step >= 1, release = <<>>, ~released, ~disturbed
      PROVE  /\ Mapping!ours' = Mapping!ours
             /\ (\A k \in Mapping!ours : LastsToRenewal(k))'
  <2>0. init_step = Len(Ports) + 2 /\ \A k \in Mapping!ours : LastsToRenewal(k)
    BY <1>1, <1>9 DEF MappingInv
  <2>1. lease_duration # 0 => /\ renewal.left \in 1..Mapping!renew_interval
                              /\ renewal.todo = <<>>
    BY <1>1, <2>0 DEF MappingInv, Stages, Mapping!done
  <2>2. ASSUME NEW k \in Mapping!ours
        PROVE  k \in DOMAIN router' /\ LastsToRenewal(k)'
    <3>1. k \in DOMAIN router /\ router[k] \in Lease /\ LastsToRenewal(k)
      BY <1>2, <2>0, <2>2 DEF Mapping!ours
    <3>2. CASE lease_duration = 0
      <4>1. router[k].left = -1 /\ k \in DOMAIN router'
        BY <1>5, <3>1, <3>2 DEF LastsToRenewal, Mapping!Forever
      <4> QED
        BY <1>4, <3>2, <4>1 DEF LastsToRenewal, Mapping!Forever
    <3>3. CASE lease_duration # 0
      <4>1. Keys(renewal.todo) = {}
        BY <2>1, <3>3, KeysOfLists
      <4>2. router[k].left >= lease_duration - Mapping!renew_interval + renewal.left
        BY <2>1, <3>1, <3>3, <4>1 DEF LastsToRenewal, Lease
      <4>3. Mapping!renew_interval < lease_duration
        BY <3>3, RenewsInTime
      <4>4. router[k].left >= 2
        BY <2>1, <3>1, <3>3, <4>2, <4>3 DEF Lease
      <4>5. k \in DOMAIN router' /\ router'[k].left = router[k].left - 1
        BY <1>4, <1>5, <3>1, <4>4
      <4>6. renewal'.left = renewal.left - 1 /\ renewal'.todo = <<>>
        BY <1>3, <2>1, <3>3
      <4>7. router'[k].left >= lease_duration - Mapping!renew_interval + renewal'.left
        BY <2>1, <3>1, <3>3, <4>2, <4>5, <4>6 DEF Lease
      <4> QED
        BY <1>1, <2>0, <3>3, <4>5, <4>6, <4>7 DEF LastsToRenewal, Mapping!done
    <3> QED
      BY <3>2, <3>3
  <2>3. Mapping!ours' = Mapping!ours
    BY <1>4, <2>2 DEF Mapping!ours
  <2> QED
    BY <2>2, <2>3
<1>10. \A k \in DOMAIN router' : router'[k].host = Us => router'[k].pdc
  BY <1>4 DEF MappingInv
<1> QED
  BY <1>1, <1>6, <1>7, <1>8, <1>9, <1>10 DEF MappingInv

\* Between init and release_all, and while the router does as it is told, our
\* mappings on it are exactly the ones we report, across crashes, other hosts
\* and any number of leases, if a lease is longer than half the least
\* interval of the renewal, or for ever (init, the renewal task and
\* release_all in nat/mod.rs).
THEOREM RouterHoldsWhatWeReport ==
  ASSUME lease_duration = 0 \/ 2 * lease_duration > MinLease
  PROVE  ServicesSpec => []RouterAgrees
<1>1. ASSUME MappingInv, UNCHANGED mappingVars PROVE MappingInv'
  <2>1. UNCHANGED <<router, mappings, init_step, renewal, release, released, disturbed>>
    BY <1>1 DEF mappingVars
  <2>2. MappingType' /\ Stages'
    BY <1>1, <2>1 DEF MappingInv, MappingType, Stages
  <2>3. /\ Mapping!ours' = Mapping!ours /\ Keys(mappings)' = Keys(mappings)
        /\ Keys(renewal.todo)' = Keys(renewal.todo)
    BY <2>1 DEF Mapping!ours, Keys
  <2>4. \A k : LastsToRenewal(k) => LastsToRenewal(k)'
    BY <2>1, <2>3 DEF LastsToRenewal
  <2> QED
    BY <1>1, <2>1, <2>2, <2>3, <2>4 DEF MappingInv
<1>2. MappingInv /\ [ServicesNext]_servicesVars => MappingInv'
  BY <1>1, InitKeepsMapping, RenewalKeepsMapping, ReleaseKeepsMapping, OtherHostKeepsMapping,
     TickKeepsMapping, ServicesStep DEF Mapping!Next
<1>3. MappingInv => RouterAgrees
  BY MappingAssumption DEF MappingInv, RouterAgrees, Mapping!RouterAgrees, Mapping!done, Keys
<1> QED
  BY <1>2, <1>3, MappingInvInit, PTL DEF ServicesSpec

=============================================================================
