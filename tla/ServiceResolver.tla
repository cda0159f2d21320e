-------------------------- MODULE ServiceResolver --------------------------
(***************************************************************************)
(* The services of other nodes, src/service_resolver.rs: a cached copy of  *)
(* the master's list, asked for again when it is old, and the failures of  *)
(* calls, which withhold a service for a while. One kind of service (one   *)
(* cache key). Callers run concurrently: several may ask the master at the *)
(* same time, and the answers come in any order.                           *)
(***************************************************************************)
EXTENDS Integers, FiniteSets

CONSTANTS
  Service,
  Asker,                     \* callers of resolve
  cache_ttl_secs,
  failure_cooldown_secs,
  max_consecutive_failures,
  query_timeout,             \* of the HTTP client (5 s)
  ResolverMaxTime            \* bound of the clock

VARIABLES
  healthy,    \* external: what the master's list says now
  cached,     \* {} or {[services, cached_at, read_at]}
  failures,   \* service |-> [failed_at, consecutive_failures]
  asking,     \* asker |-> its query: [pc, asked_at, services, read_at]
  answered,   \* asker |-> what it was last given: [offered, age of the list]
  resolverNow

resolverVars == <<healthy, cached, failures, asking, answered, resolverNow>>

no_query == [pc |-> "none"]

Init ==
  /\ healthy = Service
  /\ cached = {}
  /\ failures = [s \in {} |-> 0]
  /\ asking = [a \in Asker |-> no_query]
  /\ answered = [a \in Asker |-> [offered |-> {}, age |-> 0]]
  /\ resolverNow = 0

\* The list of the master changes.
MasterChanges(S) ==
  /\ healthy' = S
  /\ UNCHANGED <<cached, failures, asking, answered, resolverNow>>

-----------------------------------------------------------------------------
\* Withheld: max_consecutive_failures without a success, and not cooled down.
filter_healthy(S) ==
  {s \in S : s \in DOMAIN failures =>
     \/ failures[s].consecutive_failures < max_consecutive_failures
     \/ resolverNow - failures[s].failed_at >= failure_cooldown_secs}

given(S, read_at) == [offered |-> filter_healthy(S), age |-> resolverNow - read_at]

fresh == \E e \in cached : resolverNow - e.cached_at < cache_ttl_secs

\* Planted fault: a hit makes the entry young again.
ResolveCached_touch(a) ==
  /\ asking[a].pc = "none" /\ fresh
  /\ \E e \in cached :
       /\ answered' = [answered EXCEPT ![a] = given(e.services, e.read_at)]
       /\ cached' = {[e EXCEPT !.cached_at = resolverNow]}
  /\ UNCHANGED <<healthy, failures, asking, resolverNow>>

\* resolve with a cached list that is young enough.
ResolveCached(a) ==
  /\ asking[a].pc = "none" /\ fresh
  /\ \E e \in cached : answered' = [answered EXCEPT ![a] = given(e.services, e.read_at)]
  /\ UNCHANGED <<healthy, cached, failures, asking, resolverNow>>

\* resolve without one: a request to the master.
ResolveAsk(a) ==
  /\ asking[a].pc = "none" /\ ~fresh
  /\ asking' = [asking EXCEPT ![a] = [pc |-> "sent", asked_at |-> resolverNow]]
  /\ UNCHANGED <<healthy, cached, failures, answered, resolverNow>>

\* The master reads its list.
MasterReads(a) ==
  /\ asking[a].pc = "sent"
  /\ asking' = [asking EXCEPT ![a] =
       [pc |-> "read", asked_at |-> @.asked_at, services |-> healthy, read_at |-> resolverNow]]
  /\ UNCHANGED <<healthy, cached, failures, answered, resolverNow>>

\* The answer replaces the entry, also one that a later query has put there.
ResolveAnswer(a) ==
  /\ asking[a].pc = "read"
  /\ cached' = {[services |-> asking[a].services, cached_at |-> resolverNow,
                 read_at |-> asking[a].read_at]}
  /\ answered' = [answered EXCEPT ![a] = given(asking[a].services, asking[a].read_at)]
  /\ asking' = [asking EXCEPT ![a] = no_query]
  /\ UNCHANGED <<healthy, failures, resolverNow>>

\* The query fails or is not answered in time.
ResolveFails(a) ==
  /\ asking[a].pc # "none"
  /\ asking' = [asking EXCEPT ![a] = no_query]
  /\ UNCHANGED <<healthy, cached, failures, answered, resolverNow>>

-----------------------------------------------------------------------------
failures_in_a_row(s) ==
  IF s \in DOMAIN failures THEN failures[s].consecutive_failures ELSE 0

\* The count is capped here at what filter_healthy can tell apart.
RecordFailure(s) ==
  /\ LET n == failures_in_a_row(s) + 1
         capped == IF n > max_consecutive_failures THEN max_consecutive_failures ELSE n
     IN  failures' = [t \in DOMAIN failures \cup {s} |->
           IF t = s THEN [failed_at |-> resolverNow, consecutive_failures |-> capped]
           ELSE failures[t]]
  /\ UNCHANGED <<healthy, cached, asking, answered, resolverNow>>

RecordSuccess(s) ==
  /\ failures' = [t \in DOMAIN failures \ {s} |-> failures[t]]
  /\ UNCHANGED <<healthy, cached, asking, answered, resolverNow>>

ClearCache ==
  /\ cached' = {}
  /\ UNCHANGED <<healthy, failures, asking, answered, resolverNow>>

\* The HTTP client gives up a query after query_timeout.
Tick ==
  /\ resolverNow < ResolverMaxTime
  /\ \A a \in Asker : asking[a].pc # "none" => resolverNow - asking[a].asked_at < query_timeout
  /\ resolverNow' = resolverNow + 1
  /\ UNCHANGED <<healthy, cached, failures, asking, answered>>

Next ==
  \/ \E S \in SUBSET Service : MasterChanges(S)
  \/ \E a \in Asker : \/ ResolveCached(a) \/ ResolveAsk(a) \/ MasterReads(a)
                      \/ ResolveAnswer(a) \/ ResolveFails(a)
  \/ \E s \in Service : RecordFailure(s) \/ RecordSuccess(s)
  \/ ClearCache
  \/ Tick

-----------------------------------------------------------------------------
\* No list returned is older than the cache's time to live and one query,
\* although a slow answer replaces a newer one.
AnswersRecent == \A a \in Asker : answered[a].age < cache_ttl_secs + query_timeout

=============================================================================
