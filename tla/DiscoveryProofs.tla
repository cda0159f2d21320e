-------------------------- MODULE DiscoveryProofs --------------------------
(* Proofs about Discovery, for every number of requests, consumers, peers   *)
(* and discoverers, every limit and every capacity of the channel.          *)
EXTENDS Discovery, SequenceTheorems, TLAPS

-----------------------------------------------------------------------------
(* The event bus.                                                          *)

Kind == {"PeerDiscovered", "ConfigChanged"}

BusType ==
  /\ events \in Seq(Kind)
  /\ rx \in [Consumer -> [on : BOOLEAN, from : Nat, next : Nat, handled : SUBSET Nat]]

BusInv == BusType /\ LostOnlyByLag

\* A step that only publishes, or leaves the bus alone, makes no consumer lose
\* an event: the ring only moves on.
LEMMA PublishLosesNothing ==
  ASSUME BusInv, UNCHANGED rx, UNCHANGED events \/ Publish("PeerDiscovered") \/ Publish("ConfigChanged")
  PROVE  BusInv'
<1>1. Len(events) \in Nat /\ Len(events') \in Nat /\ Len(events) <= Len(events')
      /\ events' \in Seq(Kind)
  <2>2. events \in Seq(Kind) /\ Len(events) \in Nat
    BY DEF BusInv, BusType
  <2>3. CASE events' = events
    BY <2>2, <2>3
  <2>4. CASE Publish("PeerDiscovered") \/ Publish("ConfigChanged")
    <3>1. PICK kind \in Kind : events' = Append(events, kind)
      BY <2>4 DEF Publish, Kind
    <3> QED
      BY <2>2, <3>1, AppendProperties
  <2> QED
    BY <2>3, <2>4
<1>2. LostOnlyByLag'
  <2> SUFFICES ASSUME NEW c \in Consumer, NEW e \in rx[c].from..(rx[c].next - 1)
               PROVE  e \in rx[c].handled \/ e + Capacity <= Len(events')
    BY DEF LostOnlyByLag
  <2>1. e \in rx[c].handled \/ e + Capacity <= Len(events)
    BY DEF BusInv, LostOnlyByLag
  <2>2. e \in Int /\ Capacity \in Nat
    BY DiscoveryAssumption DEF BusInv, BusType
  <2> QED
    BY <2>1, <2>2, <1>1
<1> QED
  BY <1>1, <1>2 DEF BusInv, BusType

\* A consumer that subscribes has passed over nothing.
LEMMA SubscribeLosesNothing ==
  ASSUME BusInv, NEW c \in Consumer, Subscribe(c)
  PROVE  BusInv'
<1>1. Len(events) \in Nat /\ events' = events
  BY DEF BusInv, BusType, Subscribe
<1>2. rx' = [rx EXCEPT ![c] = [on |-> TRUE, from |-> Len(events) + 1,
                               next |-> Len(events) + 1, handled |-> {}]]
  BY DEF Subscribe
<1>3. BusType'
  BY <1>1, <1>2 DEF BusInv, BusType
<1>4. LostOnlyByLag'
  BY <1>1, <1>2 DEF BusInv, BusType, LostOnlyByLag
<1> QED
  BY <1>3, <1>4 DEF BusInv

\* One turn of a consumer: it handles the event it is at, or skips the events
\* that have left the ring and no other.
LEMMA ReceiveLosesOnlyByLag ==
  ASSUME BusInv, NEW c \in Consumer, Receive(c)
  PROVE  BusInv'
<1> DEFINE r == rx[c]
<1>1. /\ events' = events /\ Len(events) \in Nat /\ Capacity \in Nat \ {0}
      /\ r \in [on : BOOLEAN, from : Nat, next : Nat, handled : SUBSET Nat]
      /\ r.next <= Len(events)
  <2>1. events' = events /\ r.next <= Len(events)
    BY DEF Receive
  <2>2. r \in [on : BOOLEAN, from : Nat, next : Nat, handled : SUBSET Nat]
    BY DEF BusInv, BusType
  <2> QED
    BY <2>1, <2>2, DiscoveryAssumption DEF BusInv, BusType
<1>2. \A e \in r.from..(r.next - 1) : e \in r.handled \/ e + Capacity <= Len(events)
  BY DEF BusInv, LostOnlyByLag
<1>3. ASSUME NEW q, rx' = [rx EXCEPT ![c] = q],
             q \in [on : BOOLEAN, from : Nat, next : Nat, handled : SUBSET Nat],
             \A e \in q.from..(q.next - 1) : e \in q.handled \/ e + Capacity <= Len(events)
      PROVE  BusInv'
  <2>1. BusType'
    BY <1>1, <1>3 DEF BusInv, BusType
  <2>2. LostOnlyByLag'
    BY <1>1, <1>3 DEF BusInv, BusType, LostOnlyByLag
  <2> QED
    BY <2>1, <2>2 DEF BusInv
<1>4. CASE r.next <= Len(events) - Capacity
  <2> DEFINE n == Len(events) - Capacity + 1
             q == [r EXCEPT !.next = n]
  <2>1. n \in Nat
    BY <1>1, <1>4
  <2>2. rx' = [rx EXCEPT ![c] = q]
    BY <1>4 DEF Receive
  <2>3. q \in [on : BOOLEAN, from : Nat, next : Nat, handled : SUBSET Nat]
    BY <1>1, <2>1
  <2>4. q.from = r.from /\ q.next = n /\ q.handled = r.handled
    BY <1>1
  <2>5. \A e \in q.from..(q.next - 1) : e \in q.handled \/ e + Capacity <= Len(events)
    BY <1>1, <2>4
  <2> HIDE DEF q
  <2> QED
    BY <1>3, <2>2, <2>3, <2>5
<1>5. CASE ~(r.next <= Len(events) - Capacity)
  <2>1. PICK goes_on \in BOOLEAN :
          rx' = [rx EXCEPT ![c].next = @ + 1, ![c].on = goes_on,
                           ![c].handled = @ \cup {r.next}]
    BY <1>5 DEF Receive
  <2> DEFINE Receiver == [on : BOOLEAN, from : Nat, next : Nat, handled : SUBSET Nat]
             p == [r EXCEPT !.next = r.next + 1]
             o == [p EXCEPT !.on = goes_on]
             q == [o EXCEPT !.handled = r.handled \cup {r.next}]
  <2>2. rx' = [rx EXCEPT ![c] = q]
    BY <2>1 DEF BusInv, BusType
  <2>3. p \in Receiver /\ p.from = r.from /\ p.next = r.next + 1 /\ p.handled = r.handled
    BY <1>1
  <2> HIDE DEF p
  <2>4. o \in Receiver /\ o.from = p.from /\ o.next = p.next /\ o.handled = p.handled
    BY <2>3
  <2> HIDE DEF o
  <2>5. q \in Receiver /\ q.from = o.from /\ q.next = o.next
        /\ q.handled = r.handled \cup {r.next}
    BY <1>1, <2>4
  <2> HIDE DEF q
  <2>6. \A e \in q.from..(q.next - 1) : e \in q.handled \/ e + Capacity <= Len(events)
    BY <1>1, <1>2, <2>3, <2>4, <2>5
  <2> QED
    BY <1>3, <2>2, <2>5, <2>6
<1> QED
  BY <1>4, <1>5

\* What a consumer of the event bus misses had left the ring: for any number
\* of consumers, with a filter or without, and any capacity of the channel
\* (spawn_consumer and spawn_filtered_consumer in event_bus.rs).
THEOREM MissedOnlyByLag == Spec => []LostOnlyByLag
<1>1. Init => BusInv
  BY EmptySeq DEF Init, unsubscribed, BusInv, BusType, LostOnlyByLag
<1>2. BusInv /\ [Next]_vars => BusInv'
  <2> SUFFICES ASSUME BusInv, [Next]_vars PROVE BusInv'
    OBVIOUS
  <2>1. CASE UNCHANGED vars
    BY <2>1, PublishLosesNothing DEF vars, busVars
  <2>2. ASSUME NEW c \in Consumer, Subscribe(c) \/ Receive(c) PROVE BusInv'
    BY <2>2, SubscribeLosesNothing, ReceiveLosesOnlyByLag
  <2>3. ASSUME NEW d \in Name, Register(d) \/ Unregister(d) PROVE BusInv'
    BY <2>3, PublishLosesNothing DEF Register, Unregister, busVars
  <2>4. ASSUME NEW n, UpdateConfig(n) PROVE BusInv'
    BY <2>4, PublishLosesNothing DEF UpdateConfig
  <2>5. ASSUME NEW t \in Task, RestRequest(t) \/ BackendRequest(t) \/ AggregatorRequest(t)
        PROVE  BusInv'
    BY <2>5, PublishLosesNothing DEF RestRequest, BackendRequest, AggregatorRequest, busVars
  <2>6. ASSUME NEW t \in Task, NEW i, NEW found, Answer(t, i, found) \/ Fail(t, i)
        PROVE  BusInv'
    BY <2>6, PublishLosesNothing DEF Answer, Fail, busVars
  <2>7. ASSUME NEW t \in Task, Collect(t) PROVE BusInv'
    BY <2>7, PublishLosesNothing
       DEF Collect, CollectRest, CollectBackend, CollectAggregator, Ended
  <2>8. ASSUME NEW a \in Addr, Forget(a) PROVE BusInv'
    BY <2>8, PublishLosesNothing DEF Forget, busVars
  <2> QED
    BY <2>1, <2>2, <2>3, <2>4, <2>5, <2>6, <2>7, <2>8 DEF Next
<1>3. BusInv => LostOnlyByLag
  BY DEF BusInv
<1> QED
  BY <1>1, <1>2, <1>3, PTL DEF Spec

-----------------------------------------------------------------------------
(* The cache.                                                              *)

\* A peer that a request has in its copy and the cache no longer has was
\* dropped while the request was under way.
CopyInv ==
  /\ cache \subseteq Addr
  /\ DOMAIN calls = Task /\ DOMAIN flight = Addr
  /\ \A t \in Task : asking(t) =>
       /\ {"cached", "found"} \subseteq DOMAIN calls[t]
       /\ calls[t].found \subseteq Addr
       /\ \A a \in calls[t].cached : a \in Addr /\ (a \in cache \/ t \in flight[a])

\* A step that starts no request, drops no peer and leaves the copies as they
\* are keeps it.
LEMMA CopiesStay ==
  ASSUME CopyInv, cache \subseteq cache', cache' \subseteq Addr, flight' = flight,
         DOMAIN calls' = Task,
         \A t \in Task : asking(t)' => /\ asking(t) /\ DOMAIN calls'[t] = DOMAIN calls[t]
                                          /\ calls'[t].cached = calls[t].cached
                                          /\ calls'[t].found \subseteq Addr
  PROVE  CopyInv'
BY DEF CopyInv

\* A request starts with a part of the cache as its copy.
LEMMA RequestCopies ==
  ASSUME CopyInv, NEW t \in Task, NEW kind, NEW max, NEW copy \in SUBSET cache,
         DiscoverAll(t, kind, copy, max), UNCHANGED <<cache, flight>>
  PROVE  CopyInv'
<1>1. /\ DOMAIN calls' = Task
      /\ calls'[t].cached = copy /\ calls'[t].found = {}
      /\ {"cached", "found"} \subseteq DOMAIN calls'[t]
      /\ \A u \in Task \ {t} : calls'[u] = calls[u]
  BY DEF DiscoverAll, CopyInv
<1> QED
  BY <1>1 DEF CopyInv, asking

\* A discoverer that ends changes no copy.
LEMMA AnswerCopies ==
  ASSUME CopyInv, NEW t \in Task, NEW i, NEW found \in SUBSET Addr,
         Answer(t, i, found) \/ Fail(t, i)
  PROVE  CopyInv'
<1>1. /\ DOMAIN calls' = Task
      /\ DOMAIN calls'[t] = DOMAIN calls[t]
      /\ calls'[t].cached = calls[t].cached /\ calls'[t].found \subseteq Addr
      /\ \A u \in Task \ {t} : calls'[u] = calls[u]
  <2>1. /\ DOMAIN calls = Task /\ {"cached", "found"} \subseteq DOMAIN calls[t]
        /\ calls[t].found \subseteq Addr
    BY DEF CopyInv, Answer, Fail
  <2>2. CASE Answer(t, i, found)
    BY <2>1, <2>2 DEF Answer
  <2>3. CASE Fail(t, i)
    BY <2>1, <2>3 DEF Fail
  <2> QED
    BY <2>2, <2>3
<1> QED
  BY <1>1, CopiesStay DEF Answer, Fail, CopyInv, asking

\* So does the end of a request.
LEMMA EndCopies ==
  ASSUME CopyInv, NEW t \in Task, NEW kind, NEW added \in SUBSET Addr, Ended(t, kind, added)
  PROVE  CopyInv'
<1>1. /\ DOMAIN calls' = Task /\ calls'[t] = done
      /\ \A u \in Task \ {t} : calls'[u] = calls[u]
  BY DEF Ended, CopyInv
<1> QED
  BY <1>1, CopiesStay DEF Ended, CopyInv, asking, done

\* A peer that is dropped notes the requests that are under way.
LEMMA ForgetCopies ==
  ASSUME CopyInv, NEW b \in Addr, Forget(b)
  PROVE  CopyInv'
<1>1. /\ cache' = cache \ {b} /\ calls' = calls
      /\ flight' = [flight EXCEPT ![b] = {t \in Task : asking(t)}]
  BY DEF Forget
<1>2. /\ DOMAIN flight' = Addr /\ \A t \in Task : asking(t) => t \in flight'[b]
      /\ \A a \in Addr \ {b} : flight'[a] = flight[a]
  BY <1>1 DEF CopyInv
<1>3. \A t \in Task : asking(t)' = asking(t)
  BY <1>1 DEF asking
<1> QED
  BY <1>1, <1>2, <1>3 DEF CopyInv

\* Every step of the specification keeps it.
LEMMA CopyInvNext == CopyInv /\ [Next]_vars => CopyInv'
<1> SUFFICES ASSUME CopyInv, [Next]_vars PROVE CopyInv'
  OBVIOUS
<1>1. ASSUME UNCHANGED <<cache, calls, flight>> PROVE CopyInv'
  BY <1>1 DEF CopyInv, asking
<1>2. CASE UNCHANGED vars
  BY <1>1, <1>2 DEF vars
<1>3. ASSUME NEW c \in Consumer, Subscribe(c) \/ Receive(c) PROVE CopyInv'
  BY <1>1, <1>3 DEF Subscribe, Receive
<1>4. ASSUME NEW d \in Name, NEW n, Register(d) \/ Unregister(d) \/ UpdateConfig(n) PROVE CopyInv'
  BY <1>1, <1>4 DEF Register, Unregister, UpdateConfig
<1>5. ASSUME NEW t \in Task, RestRequest(t) \/ BackendRequest(t) \/ AggregatorRequest(t)
      PROVE  CopyInv'
  <2>1. ASSUME calls' = [calls EXCEPT ![t] = done], UNCHANGED <<cache, flight>>
        PROVE  CopyInv'
    <3>1. /\ DOMAIN calls' = Task /\ calls'[t] = done
          /\ \A u \in Task \ {t} : calls'[u] = calls[u]
      BY <2>1 DEF CopyInv
    <3> QED
      BY <2>1, <3>1, CopiesStay DEF CopyInv, asking, done
  <2>2. ASSUME NEW kind, NEW max, DiscoverAll(t, kind, {}, max), UNCHANGED <<cache, flight>>
        PROVE  CopyInv'
    BY <2>2, RequestCopies
  <2>3. CASE RestRequest(t) \/ BackendRequest(t)
    BY <2>1, <2>2, <2>3 DEF RestRequest, BackendRequest
  <2>4. CASE AggregatorRequest(t)
    BY <2>4, RequestCopies DEF AggregatorRequest, get_peers, kSubset
  <2> QED
    BY <1>5, <2>3, <2>4
<1>6. ASSUME NEW t \in Task, NEW i, NEW found \in SUBSET Addr, Answer(t, i, found) \/ Fail(t, i)
      PROVE  CopyInv'
  BY <1>6, AnswerCopies
<1>7. ASSUME NEW t \in Task, Collect(t) PROVE CopyInv'
  <2>1. asking(t)
    BY <1>7 DEF Collect, CollectRest, CollectBackend, CollectAggregator, Ended
  <2>2. calls[t].found \subseteq Addr /\ calls[t].cached \subseteq Addr
    BY <2>1 DEF CopyInv
  <2>3. CASE CollectRest(t) \/ CollectBackend(t)
    BY <2>2, <2>3, EndCopies DEF CollectRest, CollectBackend
  <2>4. CASE CollectAggregator(t)
    <3>1. PICK peers \in get_peers(calls[t].cached \cup calls[t].found) :
            Ended(t, "aggregator", peers)
      BY <2>4 DEF CollectAggregator
    <3>2. peers \subseteq Addr
      BY <2>2 DEF get_peers, kSubset
    <3> QED
      BY <3>1, <3>2, EndCopies
  <2> QED
    BY <1>7, <2>3, <2>4 DEF Collect
<1>8. ASSUME NEW a \in Addr, Forget(a) PROVE CopyInv'
  BY <1>8, ForgetCopies
<1>9. ASSUME NEW n, UpdateConfig(n) PROVE CopyInv'
  BY <1>1, <1>9 DEF UpdateConfig
<1> QED
  BY <1>2, <1>3, <1>4, <1>5, <1>6, <1>7, <1>8, <1>9 DEF Next

\* A peer that enters the cache was found by a discoverer for the request that
\* adds it, or the request carried it over from before it was dropped, for any
\* number of requests under way (discover_peers in aggregator.rs,
\* discover_handler in rest_api.rs, trigger_backend_discovery in
\* http_tracker.rs).
THEOREM PutBackByCopies == Spec => PutBackExplained
<1> DEFINE Explained ==
      \A a \in cache' \ cache : \E t \in Task :
        /\ asking(t) /\ calls'[t] = done
        /\ a \in calls[t].found \/ t \in flight[a]
<1>1. Init => CopyInv
  BY DEF Init, CopyInv, asking, idle
<1>2. CopyInv /\ [Next]_vars => [Explained]_vars
  <2> SUFFICES ASSUME CopyInv, Next PROVE Explained
    OBVIOUS
  <2>1. ASSUME NEW t \in Task, Collect(t) PROVE Explained
    <3>1. asking(t) /\ calls'[t] = done
      BY <2>1 DEF Collect, CollectRest, CollectBackend, CollectAggregator, Ended, CopyInv
    <3>2. CASE CollectRest(t) \/ CollectBackend(t)
      BY <3>1, <3>2 DEF CollectRest, CollectBackend, Ended
    <3>3. CASE CollectAggregator(t)
      <4>1. cache' \ cache \subseteq (calls[t].cached \cup calls[t].found) \ cache
        BY <3>3 DEF CollectAggregator, Ended, get_peers, kSubset
      <4> QED
        BY <3>1, <4>1 DEF CopyInv
    <3> QED
      BY <2>1, <3>2, <3>3 DEF Collect
  <2>2. ASSUME cache' \subseteq cache PROVE Explained
    BY <2>2
  <2> QED
    BY <2>1, <2>2
       DEF Next, Subscribe, Receive, Register, Unregister, UpdateConfig, RestRequest,
           BackendRequest, AggregatorRequest, Answer, Fail, Forget
<1> QED
  BY <1>1, <1>2, CopyInvNext, PTL DEF Spec, PutBackExplained

=============================================================================
