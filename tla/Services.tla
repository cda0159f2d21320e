----------------------------- MODULE Services -----------------------------
(***************************************************************************)
(* The services beside discovery, put together: the start and stop of the  *)
(* crawler, the port mappings, agent mode, the service resolver, the DHT   *)
(* state on disk, the peer filter and the API's rate limit.                *)
(*                                                                         *)
(* They share no state, so that their interleavings say nothing new: a     *)
(* behaviour is one of one of them (part), the others stay as they start.  *)
(***************************************************************************)
EXTENDS CrawlerLifecycle, Sequences

CONSTANTS
  Ports, MaxPort, max_retries, lease_duration, MinLease, Us, Other, MaxOther, MaxCrashes,
  reconnect_interval, heartbeat_interval, MaxConnections,
  Service, Asker, cache_ttl_secs, failure_cooldown_secs, max_consecutive_failures,
  query_timeout, ResolverMaxTime,
  Node, PeerV4, PeerV6, interval, SaveMaxTime, MaxRestarts,
  Ip, max_requests_per_second, window_secs, max_token_failures, max_unique_infohashes,
  initial_ban_secs, max_ban_secs, MaxDoublings, record_ttl_secs, FilterMaxTime, MaxCalls,
  Client, Key, AuthConfig, rate_limit_window_secs, AuthMaxTime, MaxAdmitted

ASSUME ResolverAssumption == cache_ttl_secs \in Nat \ {0} /\ query_timeout \in Nat

\* 2 ^ n grows with n.
ASSUME FilterAssumption ==
  /\ initial_ban_secs \in Nat /\ max_ban_secs \in Nat /\ MaxDoublings \in Nat
  /\ \A m, n \in 0..MaxDoublings : m <= n => 2^m \in Nat /\ 2^n \in Nat /\ 2^m <= 2^n

\* One of the configurations allows the most.
ASSUME AuthAssumption ==
  /\ rate_limit_window_secs \in Nat
  /\ \A cfg \in AuthConfig : cfg.rate_limit_per_second \in Nat
  /\ \E cfg \in AuthConfig : \A d \in AuthConfig :
       d.rate_limit_per_second <= cfg.rate_limit_per_second

ASSUME MappingAssumption ==
  /\ Len(Ports) \in Nat /\ DOMAIN Ports = 1..Len(Ports)
  /\ \A i \in DOMAIN Ports : Ports[i].internal_port \in Nat
  /\ MaxPort \in Nat /\ max_retries \in Nat /\ lease_duration \in Nat /\ MinLease \in Nat
  /\ Us # Other

VARIABLES
  part,
  router, mappings, init_step, renewal, release, released, disturbed, others, crashes,
  agent, agentSleep, connected, heartbeats, connections,
  healthy, cached, failures, asking, answered, resolverNow,
  table, store, file, tmp, saver, last_save, up, saved, saveNow, restarts,
  behaviors, filterNow, filterCalls, pardoned,
  auth_config, rate_limits, authNow, admitted

mappingVars ==
  <<router, mappings, init_step, renewal, release, released, disturbed, others, crashes>>
modeVars == <<agent, agentSleep, connected, heartbeats, connections>>
resolverVars == <<healthy, cached, failures, asking, answered, resolverNow>>
diskVars ==
  <<table, store, file, tmp, saver, last_save, up, saved, saveNow, restarts>>
filterVars == <<behaviors, filterNow, filterCalls, pardoned>>
apiVars == <<auth_config, rate_limits, authNow, admitted>>

Mapping == INSTANCE NatManager
Mode == INSTANCE Agent
Resolver == INSTANCE ServiceResolver
Disk == INSTANCE Persistence
Filter == INSTANCE PeerFilter
Api == INSTANCE Auth

servicesVars ==
  <<part, vars, mappingVars, modeVars, resolverVars,
    diskVars, filterVars, apiVars>>

ServicesInit ==
  /\ part \in {"crawler", "mapping", "mode", "resolver", "disk", "filter", "api"}
  /\ Init /\ Mapping!Init /\ Mode!Init /\ Resolver!Init /\ Disk!Init
  /\ Filter!Init /\ Api!Init
  /\ part # "api" => ~auth_config.enabled   \* one of them is enough

\* Everything but part p stays as it is.
Still(p) ==
  /\ UNCHANGED part
  /\ IF p = "crawler" THEN TRUE ELSE UNCHANGED vars
  /\ IF p = "mapping" THEN TRUE ELSE UNCHANGED mappingVars
  /\ IF p = "mode" THEN TRUE ELSE UNCHANGED modeVars
  /\ IF p = "resolver" THEN TRUE ELSE UNCHANGED resolverVars
  /\ IF p = "disk" THEN TRUE ELSE UNCHANGED diskVars
  /\ IF p = "filter" THEN TRUE ELSE UNCHANGED filterVars
  /\ IF p = "api" THEN TRUE ELSE UNCHANGED apiVars

ServicesNext ==
  \/ part = "crawler" /\ Next /\ Still("crawler")
  \/ part = "mapping" /\ Mapping!Next /\ Still("mapping")
  \/ part = "mode" /\ Mode!Next /\ Still("mode")
  \/ part = "resolver" /\ Resolver!Next /\ Still("resolver")
  \/ part = "disk" /\ Disk!Next /\ Still("disk")
  \/ part = "filter" /\ Filter!Next /\ Still("filter")
  \/ part = "api" /\ Api!Next /\ Still("api")

\* Sleeping tasks wake, and the router answers every call, with an error maybe.
ServicesFairness ==
  /\ WF_servicesVars(part = "mapping" /\ Mapping!Tick /\ Still("mapping"))
  /\ WF_servicesVars(part = "mapping" /\ Mapping!Wake /\ Still("mapping"))
  /\ WF_servicesVars(part = "mapping" /\ Mapping!Renew /\ Still("mapping"))
  /\ WF_servicesVars(part = "mapping" /\ Mapping!Remove /\ Still("mapping"))
  /\ WF_servicesVars(part = "mode" /\ Mode!Tick /\ Still("mode"))
  /\ WF_servicesVars(part = "mode" /\ Mode!Reconnect /\ Still("mode"))
  /\ \A c \in 1..MaxConnections :
       WF_servicesVars(part = "mode" /\ Mode!Heartbeat(c) /\ Still("mode"))

ServicesSpec == ServicesInit /\ [][ServicesNext]_servicesVars /\ ServicesFairness

-----------------------------------------------------------------------------
\* NatManager: our mappings on the router are the ones we report.
RouterAgrees == Mapping!RouterAgrees

\* NatManager: after release_all no mapping stays.
ReleasedGoes == Mapping!ReleasedGoes

\* Agent: without a connection the heartbeat tasks end.
HeartbeatsStop == Mode!HeartbeatsStop

\* ServiceResolver: no list returned is too old.
AnswersRecent == Resolver!AnswersRecent

\* Persistence: a restart finds the last state saved.
RestoredIsLastSaved == Disk!RestoredIsLastSaved

\* PeerFilter: no step cuts a running ban short.
BansHold == [][\A ip \in Ip : Filter!BanHeld(ip)]_filterVars

\* Auth: no span of a window sees more than two windows of requests.
RateBounded == Api!RateBounded

=============================================================================
