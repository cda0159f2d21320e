----------------------------- MODULE Discovery -----------------------------
(***************************************************************************)
(* A discovery request from its three doors (discover_peers of             *)
(* src/aggregator.rs, discover_handler of rest_api.rs and                  *)
(* trigger_backend_discovery of http_tracker.rs) through the registry      *)
(* (src/discoverers/mod.rs), which the control plane fills and changes     *)
(* while requests run, to the cache and the event bus (src/event_bus.rs)   *)
(* with its consumers.                                                     *)
(*                                                                         *)
(* All requests are for one infohash: others share only the registry and   *)
(* the bus with them. The cache is the set of peers get_peers would give;  *)
(* PeerCache has its inside. A request is made once per Task. The bus is   *)
(* tokio's broadcast channel: a ring of the last Capacity events.          *)
(***************************************************************************)
EXTENDS Integers, FiniteSets, Sequences, FiniteSetsExt

CONSTANTS
  Default,         \* the discoverers init_default_discoverers registers, in order
  Other,           \* names that may be registered later
  Usable,          \* those whose is_enabled() holds
  Addr, Task, Consumer,
  Filtered,        \* the consumers that only take PeerDiscovered events
  MaxConcurrent,   \* the values max_concurrent may be configured to are 0..this
  Limit,           \* peers per request
  Capacity,        \* of the channel (1024)
  MaxUpdates,      \* bound of the configuration updates
  MaxRegistered    \* bound of the registry

Name == {Default[i] : i \in DOMAIN Default} \cup Other

ASSUME DiscoveryAssumption ==
  /\ Usable \subseteq Name /\ Filtered \subseteq Consumer
  /\ {MaxConcurrent, Limit, MaxUpdates, MaxRegistered} \subseteq Nat
  /\ Capacity \in Nat \ {0}

VARIABLES
  registry,        \* the registered discoverers, in order
  max_concurrent,  \* of the configuration the control plane holds
  updates,         \* how often the configuration was updated
  cache,           \* the cached peers that have not expired
  calls,           \* per request: where it is and its local variables
  events,          \* the kinds of all events published so far
  rx,              \* per consumer: its receiver
  flight           \* history: the requests that were under way when a peer
                   \* was last dropped from the cache

busVars == <<events, rx>>
vars == <<registry, max_concurrent, updates, cache, calls, busVars, flight>>

idle == [pc |-> "idle"]
done == [pc |-> "done"]
unsubscribed == [on |-> FALSE, from |-> 0, next |-> 0, handled |-> {}]

Init ==
  /\ registry = Default
  /\ max_concurrent = MaxConcurrent
  /\ updates = 0
  /\ cache = {}
  /\ calls = [t \in Task |-> idle]
  /\ events = <<>>
  /\ rx = [c \in Consumer |-> unsubscribed]
  /\ flight = [a \in Addr |-> {}]

asking(t) == calls[t].pc = "asking"

-----------------------------------------------------------------------------
(* The event bus.                                                          *)

Publish(kind) == events' = Append(events, kind)

\* spawn_consumer and spawn_filtered_consumer: only later events are seen.
Subscribe(c) ==
  /\ rx[c] = unsubscribed
  /\ rx' = [rx EXCEPT ![c] = [on |-> TRUE, from |-> Len(events) + 1,
                              next |-> Len(events) + 1, handled |-> {}]]
  /\ UNCHANGED <<registry, max_concurrent, updates, cache, calls, events, flight>>

\* Planted fault: a consumer that lags starts over with the newest event.
Receive_newest(c) ==
  LET r == rx[c]
      matches == c \notin Filtered \/ events[r.next] = "PeerDiscovered"
  IN  /\ r.on /\ r.next <= Len(events)
      /\ IF r.next <= Len(events) - Capacity
         THEN rx' = [rx EXCEPT ![c].next = Len(events)]
         ELSE \E goes_on \in BOOLEAN :
                /\ ~matches => goes_on
                /\ rx' = [rx EXCEPT ![c].next = @ + 1, ![c].on = goes_on,
                                    ![c].handled = @ \cup {r.next}]
      /\ UNCHANGED <<registry, max_concurrent, updates, cache, calls, events, flight>>

\* One turn of a consumer's loop. Behind the ring, recv gives Lagged and moves
\* to the oldest event that is left; the consumer goes on. An event that
\* passes the filter goes to the handler, which may end the consumer.
Receive(c) ==
  LET r == rx[c]
      matches == c \notin Filtered \/ events[r.next] = "PeerDiscovered"
  IN  /\ r.on /\ r.next <= Len(events)
      /\ IF r.next <= Len(events) - Capacity
         THEN rx' = [rx EXCEPT ![c].next = Len(events) - Capacity + 1]
         ELSE \E goes_on \in BOOLEAN :
                /\ ~matches => goes_on
                /\ rx' = [rx EXCEPT ![c].next = @ + 1, ![c].on = goes_on,
                                    ![c].handled = @ \cup {r.next}]
      /\ UNCHANGED <<registry, max_concurrent, updates, cache, calls, events, flight>>

-----------------------------------------------------------------------------
(* The control plane.                                                      *)

Register(d) ==
  /\ Len(registry) < MaxRegistered
  /\ registry' = Append(registry, d)
  /\ UNCHANGED <<max_concurrent, updates, cache, calls, busVars, flight>>

Unregister(d) ==
  /\ registry' = SelectSeq(registry, LAMBDA e : e # d)
  /\ UNCHANGED <<max_concurrent, updates, cache, calls, busVars, flight>>

\* update_config changes nothing in the registry, whatever it enables.
UpdateConfig(n) ==
  /\ updates < MaxUpdates
  /\ updates' = updates + 1
  /\ max_concurrent' = n
  /\ Publish("ConfigChanged")
  /\ UNCHANGED <<registry, cache, calls, rx, flight>>

-----------------------------------------------------------------------------
(* A request.                                                              *)

enabled == SelectSeq(registry, LAMBDA d : d \in Usable)

\* What get_peers gives: at most Limit of the cached peers.
get_peers(S) == kSubset(Min({Limit, Cardinality(S)}), S)

\* discover_all starts a task for each of the first max enabled discoverers.
DiscoverAll(t, kind, cached, max) ==
  calls' = [calls EXCEPT ![t] =
    [pc |-> "asking", kind |-> kind, cached |-> cached, found |-> {},
     waiting |-> 1..Min({max, Len(enabled)})]]

\* The policy of a request is made from the configuration of the moment.
policy == [max_concurrent |-> max_concurrent]

\* discover_handler: a cached answer ends the request unless it is forced.
RestRequest(t) ==
  /\ calls[t] = idle
  /\ \/ DiscoverAll(t, "rest", {}, policy.max_concurrent)
     \/ cache # {} /\ Limit > 0 /\ calls' = [calls EXCEPT ![t] = done]
  /\ UNCHANGED <<registry, max_concurrent, updates, cache, busVars, flight>>

\* trigger_backend_discovery, spawned by an announce that found few peers.
BackendRequest(t) ==
  /\ calls[t] = idle
  /\ DiscoverAll(t, "backend", {}, policy.max_concurrent)
  /\ UNCHANGED <<registry, max_concurrent, updates, cache, busVars, flight>>

\* Planted fault: the copy is taken from the peers of any infohash.
AggregatorRequest_any(t) ==
  /\ calls[t] = idle
  /\ \E cached \in get_peers(Addr) :
       DiscoverAll(t, "aggregator", cached, MaxConcurrent)
  /\ UNCHANGED <<registry, max_concurrent, updates, cache, busVars, flight>>

\* discover_peers of the aggregator keeps a copy of what is cached. Its
\* max_concurrent is the one it was built with.
AggregatorRequest(t) ==
  /\ calls[t] = idle
  /\ \E cached \in get_peers(cache) : DiscoverAll(t, "aggregator", cached, MaxConcurrent)
  /\ UNCHANGED <<registry, max_concurrent, updates, cache, busVars, flight>>

\* The task of one discoverer ends with peers.
Answer(t, i, peers) ==
  /\ asking(t) /\ i \in calls[t].waiting
  /\ calls' = [calls EXCEPT ![t].waiting = @ \ {i}, ![t].found = @ \cup peers]
  /\ UNCHANGED <<registry, max_concurrent, updates, cache, busVars, flight>>

\* Planted fault: only the first discoverer is asked under a timeout.
Fail_first(t, i) ==
  /\ asking(t) /\ i \in calls[t].waiting
  /\ i = 1
  /\ calls' = [calls EXCEPT ![t].waiting = @ \ {i}]
  /\ UNCHANGED <<registry, max_concurrent, updates, cache, busVars, flight>>

\* It ends with an error or a panic, at the latest when its timeout is over.
Fail(t, i) ==
  /\ asking(t) /\ i \in calls[t].waiting
  /\ calls' = [calls EXCEPT ![t].waiting = @ \ {i}]
  /\ UNCHANGED <<registry, max_concurrent, updates, cache, busVars, flight>>

\* All tasks have ended, and the request adds some of the peers to the cache.
Ended(t, kind, peers) ==
  /\ asking(t) /\ calls[t].waiting = {} /\ calls[t].kind = kind
  /\ cache' = cache \cup peers
  /\ calls' = [calls EXCEPT ![t] = done]
  /\ UNCHANGED <<registry, max_concurrent, updates, rx, flight>>

\* discover_handler adds all it found and hands out Limit; it publishes nothing.
CollectRest(t) ==
  /\ Ended(t, "rest", calls[t].found)
  /\ UNCHANGED events

\* trigger_backend_discovery adds all it found and publishes it.
CollectBackend(t) ==
  /\ Ended(t, "backend", calls[t].found)
  /\ IF calls[t].found # {} THEN Publish("PeerDiscovered") ELSE UNCHANGED events

\* The aggregator joins its copy and keeps Limit, in the order of their
\* priority, which is left open. It returns early when it has neither results
\* nor a copy, which adds nothing either.
CollectAggregator(t) ==
  /\ asking(t) /\ calls[t].kind = "aggregator"
  /\ \E peers \in get_peers(calls[t].cached \cup calls[t].found) :
       /\ Ended(t, "aggregator", peers)
       /\ IF peers # {} THEN Publish("PeerDiscovered") ELSE UNCHANGED events

Collect(t) == CollectRest(t) \/ CollectBackend(t) \/ CollectAggregator(t)

\* A cached peer expires, is evicted, or is removed for its failures.
Forget(a) ==
  /\ a \in cache
  /\ cache' = cache \ {a}
  /\ flight' = [flight EXCEPT ![a] = {t \in Task : asking(t)}]
  /\ UNCHANGED <<registry, max_concurrent, updates, calls, busVars>>

Next ==
  \/ \E c \in Consumer : Subscribe(c) \/ Receive(c)
  \/ \E d \in Name : Register(d) \/ Unregister(d)
  \/ \E n \in 0..MaxConcurrent : UpdateConfig(n)
  \/ \E t \in Task :
       \/ RestRequest(t) \/ BackendRequest(t) \/ AggregatorRequest(t)
       \/ \E i \in 1..MaxConcurrent :
            \/ \E peers \in SUBSET Addr : Answer(t, i, peers)
            \/ Fail(t, i)
       \/ Collect(t)
  \/ \E a \in Addr : Forget(a)

\* tokio's timers fire and the tasks they wake are run; nothing is assumed of
\* the discoverers.
Fairness ==
  \A t \in Task : /\ \A i \in 1..MaxConcurrent : WF_vars(Fail(t, i))
                  /\ WF_vars(Collect(t))

Spec == Init /\ [][Next]_vars /\ Fairness

-----------------------------------------------------------------------------
\* What a consumer misses is overtaken: an event it passed over without
\* handling it had left the ring, Capacity newer ones having been published.
LostOnlyByLag ==
  \A c \in Consumer : \A e \in rx[c].from..(rx[c].next - 1) :
    e \in rx[c].handled \/ e + Capacity <= Len(events)

\* A peer enters the cache because a discoverer found it for the request that
\* adds it, or with the copy of a request that was under way when the peer was
\* last dropped: a request that starts later never brings it back.
PutBackExplained ==
  [][\A a \in cache' \ cache : \E t \in Task :
       /\ asking(t) /\ calls'[t] = done
       /\ a \in calls[t].found \/ t \in flight[a]]_vars

\* Every request comes to an end, however the discoverers behave and whatever
\* is registered, removed or configured while it runs.
RequestsReturn == \A t \in Task : asking(t) ~> calls[t] = done

=============================================================================
