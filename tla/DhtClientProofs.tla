-------------------------- MODULE DhtClientProofs --------------------------
(***************************************************************************)
(* Theorems about the DHT discoverer: for any number of calls, any network *)
(* and any list of bootstrap nodes, whoever answers which request.         *)
(***************************************************************************)
EXTENDS DhtClient, FiniteSetTheorems, SequenceTheorems, TLAPS

\* What is proved of the routing table, for the table of the discoverer.
TableFacts == INSTANCE RoutingTableProofs WITH Nodes <- KnownNodes

-----------------------------------------------------------------------------
(* The table and its proofs.                                               *)

\* The proofs of the routing table are about the table of the discoverer: their
\* operators are, one by one, those it uses.
LEMMA SameTable ==
  /\ TableFacts!RoutingTableAssumption
  /\ Table!all_nodes = TableFacts!all_nodes /\ Table!all_nodes' = TableFacts!all_nodes'
  /\ Table!healthy_nodes = TableFacts!healthy_nodes
  /\ TableFacts!BucketsWellFormed => Table!BucketsWellFormed
  /\ TableFacts!CountCoversNodes => Table!CountCoversNodes
  /\ Table!Init => TableFacts!Init
  /\ \A id, addr : Table!Insert(id, addr) => TableFacts!Insert(id, addr)
  /\ \A addr : Table!Touch(addr) => TableFacts!Touch(addr)
  /\ \A addr : Table!MarkFailed(addr) => TableFacts!MarkFailed(addr)
  /\ \A bs, e : Table!insert_entry(bs, e) = TableFacts!insert_entry(bs, e)
  /\ \A id, addr : Table!new_entry(id, addr) = TableFacts!new_entry(id, addr)
  /\ \A a, b : Table!xor_distance(a, b) = TableFacts!xor_distance(a, b)
  /\ \A a, b : Table!distance_less(a, b) <=> TableFacts!distance_less(a, b)
  /\ \A target, count : Table!find_closest(target, count) = TableFacts!find_closest(target, count)
  /\ \A S, before : Table!listing(S, before) = TableFacts!listing(S, before)
<1>1. TableFacts!RoutingTableAssumption
  BY TableAssumption DEF TableFacts!RoutingTableAssumption, Table!RoutingTableAssumption,
     TableFacts!Bits, Table!Bits, TableFacts!Id, Table!Id
<1>2. \A S : Table!Min(S) = TableFacts!Min(S) /\ Table!Max(S) = TableFacts!Max(S)
  BY DEF Table!Min, TableFacts!Min, Table!Max, TableFacts!Max
<1>3. /\ \A e : Table!is_healthy(e) <=> TableFacts!is_healthy(e)
      /\ \A e, t : Table!is_expired(e, t) <=> TableFacts!is_expired(e, t)
  BY DEF Table!is_healthy, TableFacts!is_healthy, Table!is_expired, TableFacts!is_expired
<1>4. \A S, before : Table!listing(S, before) = TableFacts!listing(S, before)
  BY DEF Table!listing, TableFacts!listing, Table!Cardinality, TableFacts!Cardinality
<1>5. /\ \A s, keep : Table!retain(s, keep) = TableFacts!retain(s, keep)
      /\ \A s : Table!sort_by_last_seen(s) = TableFacts!sort_by_last_seen(s)
  BY <1>4 DEF Table!retain, TableFacts!retain, Table!sort_by_last_seen,
     TableFacts!sort_by_last_seen
<1>6. \A bs : /\ Table!places(bs) = TableFacts!places(bs)
              /\ Table!node_count(bs) = TableFacts!node_count(bs)
  <2>1. \A S : Table!Cardinality(S) = TableFacts!Cardinality(S)
    BY DEF Table!Cardinality, TableFacts!Cardinality
  <2> QED
    BY <2>1 DEF Table!places, TableFacts!places, Table!node_count, TableFacts!node_count
<1>7. Table!all_nodes = TableFacts!all_nodes /\ Table!all_nodes' = TableFacts!all_nodes'
  BY DEF Table!all_nodes, TableFacts!all_nodes, Table!entry_at, TableFacts!entry_at,
     Table!places, TableFacts!places
<1>9. \A b, addr : Table!bucket_find(b, addr) = TableFacts!bucket_find(b, addr)
  BY <1>2 DEF Table!bucket_find, TableFacts!bucket_find, Table!SelectInSeq,
     TableFacts!SelectInSeq
<1>10. \A b, e : Table!slot(b, e) = TableFacts!slot(b, e)
  BY <1>2, <1>9 DEF Table!slot, TableFacts!slot, Table!SelectInSeq, TableFacts!SelectInSeq,
     Table!is_healthy, TableFacts!is_healthy, Table!is_expired, TableFacts!is_expired
<1>11. \A b, e : Table!bucket_insert(b, e) = TableFacts!bucket_insert(b, e)
  BY <1>5, <1>10 DEF Table!bucket_insert, TableFacts!bucket_insert, Table!ReplaceAt,
     TableFacts!ReplaceAt
<1>12. \A a, b : Table!common_prefix_len(a, b) = TableFacts!common_prefix_len(a, b)
  BY DEF Table!common_prefix_len, TableFacts!common_prefix_len, Table!xor_distance,
     TableFacts!xor_distance
<1>13. \A b, id : Table!bucket_contains(b, id) <=> TableFacts!bucket_contains(b, id)
  BY <1>12 DEF Table!bucket_contains, TableFacts!bucket_contains
<1>14. \A bs, id : Table!find_bucket(bs, id) = TableFacts!find_bucket(bs, id)
  <2> SUFFICES ASSUME NEW bs, NEW id PROVE Table!find_bucket(bs, id) = TableFacts!find_bucket(bs, id)
    OBVIOUS
  <2> DEFINE I == {i \in 1..Len(bs) : /\ bs[i].prefix_len <= Table!common_prefix_len(own_id, id)
                                      /\ Table!bucket_contains(bs[i], id)}
             J == {i \in 1..Len(bs) : /\ bs[i].prefix_len <= TableFacts!common_prefix_len(own_id, id)
                                      /\ TableFacts!bucket_contains(bs[i], id)}
             m == IF I # {} THEN Table!Min(I) ELSE 0
             n == IF J # {} THEN TableFacts!Min(J) ELSE 0
  <2>1. I = J
    BY <1>12, <1>13
  <2>2. Table!find_bucket(bs, id) = IF m = 0 THEN 1 ELSE m
    BY DEF Table!find_bucket, Table!SelectInSeq
  <2>3. TableFacts!find_bucket(bs, id) = IF n = 0 THEN 1 ELSE n
    BY DEF TableFacts!find_bucket, TableFacts!SelectInSeq
  <2> HIDE DEF I, J
  <2>4. m = n
    BY <1>2, <2>1
  <2> HIDE DEF m, n
  <2> QED
    BY <2>2, <2>3, <2>4
<1>15. \A bs, i : Table!split_bucket(bs, i) = TableFacts!split_bucket(bs, i)
  <2> SUFFICES ASSUME NEW bs, NEW i
               PROVE  Table!split_bucket(bs, i) = TableFacts!split_bucket(bs, i)
    OBVIOUS
  <2> DEFINE s == bs[i].entries
             n == bs[i].prefix_len + 1
             near == {j \in DOMAIN s : Table!common_prefix_len(own_id, s[j].id) >= n}
  <2>1. near = {j \in DOMAIN s : TableFacts!common_prefix_len(own_id, s[j].id) >= n}
    BY <1>12
  <2> QED
    BY <1>2, <1>5, <1>13, <2>1 DEF Table!split_bucket, TableFacts!split_bucket,
       Table!SelectInSeq, TableFacts!SelectInSeq, Table!ReplaceAt, TableFacts!ReplaceAt,
       Table!InsertAt, TableFacts!InsertAt
<1>16. \A bs, e : Table!attempt(bs, e) = TableFacts!attempt(bs, e)
  BY <1>10, <1>11, <1>14 DEF Table!attempt, TableFacts!attempt, Table!ReplaceAt,
     TableFacts!ReplaceAt
<1>17. \A bs, e : Table!insert_entry(bs, e) = TableFacts!insert_entry(bs, e)
  BY <1>13, <1>14, <1>15, <1>16 DEF Table!insert_entry, TableFacts!insert_entry
<1>18. \A id, addr : Table!Insert(id, addr) <=> TableFacts!Insert(id, addr)
  BY <1>17 DEF Table!Insert, TableFacts!Insert, Table!new_entry, TableFacts!new_entry
<1>19. Table!Init <=> TableFacts!Init
  BY DEF Table!Init, TableFacts!Init
<1>20. \A addr : Table!holder(addr) = TableFacts!holder(addr)
  BY <1>2, <1>9 DEF Table!holder, TableFacts!holder, Table!SelectInSeq, TableFacts!SelectInSeq
<1>21. \A b, addr : /\ Table!bucket_touch(b, addr) = TableFacts!bucket_touch(b, addr)
                    /\ Table!bucket_mark_failed(b, addr) = TableFacts!bucket_mark_failed(b, addr)
  BY <1>2, <1>5, <1>9 DEF Table!bucket_touch, TableFacts!bucket_touch,
     Table!bucket_mark_failed, TableFacts!bucket_mark_failed
<1>22. \A addr : /\ Table!Touch(addr) <=> TableFacts!Touch(addr)
                 /\ Table!MarkFailed(addr) <=> TableFacts!MarkFailed(addr)
  BY <1>20, <1>21 DEF Table!Touch, TableFacts!Touch, Table!MarkFailed, TableFacts!MarkFailed
<1>23. /\ \A a, b : Table!xor_distance(a, b) = TableFacts!xor_distance(a, b)
       /\ \A a, b : Table!distance_less(a, b) <=> TableFacts!distance_less(a, b)
  BY DEF Table!xor_distance, TableFacts!xor_distance, Table!distance_less,
     TableFacts!distance_less
<1>24. /\ \A p : Table!entry_at(p) = TableFacts!entry_at(p)
       /\ Table!healthy_places = TableFacts!healthy_places
       /\ \A p, q : Table!earlier(p, q) <=> TableFacts!earlier(p, q)
  BY <1>3, <1>6 DEF Table!healthy_places, TableFacts!healthy_places, Table!entry_at,
     TableFacts!entry_at, Table!earlier, TableFacts!earlier
<1>25. Table!healthy_nodes = TableFacts!healthy_nodes
  BY <1>24 DEF Table!healthy_nodes, TableFacts!healthy_nodes
<1>26. \A target, count : Table!find_closest(target, count) = TableFacts!find_closest(target, count)
  BY <1>2, <1>4, <1>23, <1>24 DEF Table!find_closest, TableFacts!find_closest
<1>27. \A id, addr : Table!new_entry(id, addr) = TableFacts!new_entry(id, addr)
  BY DEF Table!new_entry, TableFacts!new_entry
<1>28. /\ TableFacts!BucketsWellFormed => Table!BucketsWellFormed
       /\ TableFacts!CountCoversNodes => Table!CountCoversNodes
  BY <1>6 DEF Table!BucketsWellFormed, TableFacts!BucketsWellFormed,
     Table!CountCoversNodes, TableFacts!CountCoversNodes
<1> QED
  BY <1>1, <1>4, <1>7, <1>17, <1>18, <1>19, <1>28, <1>22, <1>23, <1>25, <1>26, <1>27

-----------------------------------------------------------------------------
(* One call.                                                               *)

Number == Nat \X Nat
Asked == Number \X Addr
Answer == [from : Addr, id : {real_id[a] : a \in Addr} \cup {zero_id}, token : BOOLEAN,
           peers : SUBSET Peer, nodes : Seq(Contacts)]
Unanswered == [n : Number, addr : Addr, state : {"waiting", "failed"}]
Answered == [n : Number, addr : Addr, state : {"answered"}, query : Asked, answer : Answer]
Request == Unanswered \cup Answered
Local == [pc : {"idle", "resolving", "ready", "await", "done"}, round : Nat,
          queried : SUBSET Addr, closest_distance : Bits, stale : Nat,
          requests : Seq(Request), all_peers : SUBSET Peer, asked : SUBSET Asked]
Message == [request : Asked, query : Asked]

vouched(addr) == addr \in Bootstrap \/ \E n \in Verified : n[2] = addr

\* No two requests of a round have one number, and none that of a request whose
\* announce_peer was sent.
Numbered(l, s) ==
  \A i \in 1..Len(l.requests) :
    /\ \A j \in 1..Len(l.requests) : l.requests[i].n = l.requests[j].n => i = j
    /\ \A m \in s : m.request[1] # l.requests[i].n

\* An answer that was taken is not owed any more, nor has another request taken
\* it, nor was it used.
Taken(l, s) ==
  /\ \A i \in 1..Len(l.requests) : l.requests[i].state = "answered" =>
       /\ l.requests[i].query \notin l.asked
       /\ \A j \in 1..Len(l.requests) :
            l.requests[j].state = "answered" /\ l.requests[i].query = l.requests[j].query => i = j
       /\ \A m \in s : m.query # l.requests[i].query
  /\ \A m \in s : m.query \notin l.asked

UsedOnce(s) == \A m, n \in s : m # n => m.query # n.query /\ m.request # n.request

\* What is true of a call with the local variables l that has sent s.
CallInv(c, l, s) ==
  /\ l \in Local /\ s \in SUBSET Message
  /\ l.pc = "await" <=> l.requests # <<>>
  /\ s # {} => kind[c] = "announce" /\ l.pc \in {"await", "done"}
  /\ \A i \in 1..Len(l.requests) : vouched(l.requests[i].addr)
  /\ Numbered(l, s) /\ Taken(l, s) /\ UsedOnce(s)

CallsInv ==
  /\ call \in [Call -> Local] /\ sent \in [Call -> SUBSET Message]
  /\ \A c \in Call : CallInv(c, call[c], sent[c])

\* A step of one call keeps it for all if it keeps it for that one.
LEMMA OneCall ==
  ASSUME CallsInv, NEW c \in Call, NEW l, NEW s,
         call' = [call EXCEPT ![c] = l], sent' = [sent EXCEPT ![c] = s], CallInv(c, l, s)
  PROVE  CallsInv' /\ call'[c] = l
<1>1. /\ call \in [Call -> Local] /\ sent \in [Call -> SUBSET Message]
      /\ l \in Local /\ s \in SUBSET Message
  BY DEF CallsInv, CallInv
<1>2. /\ call' \in [Call -> Local] /\ sent' \in [Call -> SUBSET Message]
      /\ call'[c] = l /\ sent'[c] = s
      /\ \A d \in Call : d # c => call'[d] = call[d] /\ sent'[d] = sent[d]
  BY <1>1
<1>3. \A d \in Call : CallInv(d, call'[d], sent'[d])
  <2> TAKE d \in Call
  <2>1. CASE d = c
    BY <1>2, <2>1
  <2>2. CASE d # c
    BY <1>2, <2>2 DEF CallsInv
  <2> QED
    BY <2>1, <2>2
<1> QED
  BY <1>2, <1>3 DEF CallsInv

\* A step that sends nothing.
LEMMA OneSilent ==
  ASSUME CallsInv, NEW c \in Call, NEW l,
         call' = [call EXCEPT ![c] = l], sent' = sent, CallInv(c, l, sent[c])
  PROVE  CallsInv' /\ call'[c] = l
<1>1. sent' = [sent EXCEPT ![c] = sent[c]]
  BY DEF CallsInv
<1> QED
  BY <1>1, OneCall

\* The local variables when a round begins.
LEMMA RoundLocal ==
  ASSUME NEW l \in Local, NEW stale \in Nat, NEW closest \in Bits
  PROVE  [l EXCEPT !.round = @ + 1, !.stale = stale, !.closest_distance = closest] \in Local
<1>1. l.round + 1 \in Nat
  BY DEF Local
<1>2. PICK n \in Nat : n = l.round + 1
  BY <1>1
<1>3. [l EXCEPT !.round = n, !.stale = stale, !.closest_distance = closest] \in Local
  BY DEF Local
<1> QED
  BY <1>2, <1>3

\* A call that has returned.
LEMMA Finished ==
  ASSUME NEW c \in Call, NEW s \in SUBSET Message, s # {} => kind[c] = "announce",
         UsedOnce(s)
  PROVE  CallInv(c, returned, s) /\ returned.pc = "done"
<1>1. new_call \in Local /\ new_call.requests = <<>> /\ new_call.asked = {}
  <2>1. far \in Bits
    BY DEF far, Bits
  <2>2. <<>> \in Seq(Request)
    BY EmptySeq
  <2> QED
    BY <2>1, <2>2 DEF new_call, Local
<1>2. /\ returned \in Local /\ returned.requests = <<>> /\ returned.asked = {}
      /\ returned.pc = "done"
  BY <1>1 DEF returned, Local
<1>3. Len(returned.requests) = 0
  BY <1>2, EmptySeq
<1> HIDE DEF returned
<1>4. Numbered(returned, s) /\ Taken(returned, s)
  BY <1>2, <1>3 DEF Numbered, Taken
<1> QED
  BY <1>2, <1>3, <1>4 DEF CallInv

\* The local variables when a request is done with.
popped(l, peers, q, p) == [l EXCEPT !.all_peers = peers, !.requests = q, !.pc = p]

LEMMA PoppedLocal ==
  ASSUME NEW l \in Local, NEW q \in Seq(Request), NEW peers \in SUBSET Peer,
         NEW p \in {"ready", "await"}
  PROVE  LET r == popped(l, peers, q, p)
         IN  r \in Local /\ r.requests = q /\ r.asked = l.asked /\ r.pc = p
BY DEF Local, popped

\* A call that goes on with the other requests when one is done with. What was
\* sent for that one is good as long as its number and its answer are.
LEMMA Pops ==
  ASSUME NEW c \in Call, NEW l, NEW s, CallInv(c, l, s), l.pc = "await",
         NEW t \in SUBSET Message, t # {} => kind[c] = "announce",
         UsedOnce(t),
         \A m \in t : \/ m \in s
                       \/ /\ l.requests[1].state = "answered"
                          /\ m.request[1] = l.requests[1].n
                          /\ m.query = l.requests[1].query,
         kind[c] = "lookup" \/ Tail(l.requests) # <<>>,
         NEW r \in Local, r.requests = Tail(l.requests), r.asked = l.asked,
         r.pc = IF Tail(l.requests) = <<>> THEN "ready" ELSE "await"
  PROVE  CallInv(c, r, t)
<1> DEFINE q == l.requests
           u == Tail(q)
<1>1. l \in Local /\ q \in Seq(Request) /\ q # <<>>
  BY DEF CallInv, Local
<1>2. /\ u \in Seq(Request) /\ Len(u) = Len(q) - 1 /\ Len(q) \in Nat /\ Len(q) >= 1
      /\ \A i \in 1..Len(u) : u[i] = q[i+1]
  BY <1>1, HeadTailProperties, EmptySeq, LenProperties
<1> HIDE DEF u
<1>3. /\ r \in Local /\ r.requests = u /\ r.asked = l.asked
      /\ r.pc = IF u = <<>> THEN "ready" ELSE "await"
  BY <1>2 DEF u
<1> HIDE DEF q
<1>4. 1 \in 1..Len(q) /\ \A i \in 1..Len(u) : i + 1 \in 1..Len(q) /\ i + 1 # 1
  BY <1>2
<1>5. Numbered(r, t)
  BY <1>2, <1>3, <1>4 DEF Numbered, CallInv, q
<1>6. Taken(r, t)
  <2>1. \A i \in 1..Len(q) : q[i].state = "answered" =>
          /\ q[i].query \notin l.asked
          /\ \A j \in 1..Len(q) : q[j].state = "answered" /\ q[i].query = q[j].query => i = j
          /\ \A m \in s : m.query # q[i].query
    BY DEF Taken, CallInv, q
  <2>2. \A m \in s : m.query \notin l.asked
    BY DEF Taken, CallInv
  <2>3. \A m \in t : m.query \notin r.asked
    BY <1>3, <1>4, <2>1, <2>2 DEF q
  <2>4. ASSUME NEW i \in 1..Len(u), u[i].state = "answered"
        PROVE  /\ u[i].query \notin l.asked
               /\ \A j \in 1..Len(u) : u[j].state = "answered" /\ u[i].query = u[j].query => i = j
               /\ \A m \in t : m.query # u[i].query
    <3>1. i + 1 \in 1..Len(q) /\ i + 1 # 1 /\ u[i] = q[i+1] /\ 1 \in 1..Len(q)
      BY <1>2, <1>4
    <3>2. \A j \in 1..Len(u) : u[j].state = "answered" /\ u[i].query = u[j].query => i = j
      <4> SUFFICES ASSUME NEW j \in 1..Len(u), u[j].state = "answered", u[i].query = u[j].query
                   PROVE  i = j
        OBVIOUS
      <4>1. j + 1 \in 1..Len(q) /\ u[j] = q[j+1]
        BY <1>2, <1>4
      <4>2. i + 1 = j + 1
        BY <2>1, <2>4, <3>1, <4>1
      <4> QED
        BY <1>2, <4>2
    <3>3. \A m \in t : m.query # u[i].query
      <4> SUFFICES ASSUME NEW m \in t, m.query = u[i].query PROVE FALSE
        OBVIOUS
      <4>1. CASE m \in s
        BY <2>1, <2>4, <3>1, <4>1
      <4>2. CASE q[1].state = "answered" /\ m.query = q[1].query
        BY <2>1, <2>4, <3>1, <4>2
      <4> QED
        BY <4>1, <4>2 DEF q
    <3> QED
      BY <2>1, <2>4, <3>1, <3>2, <3>3
  <2>5. \A i \in 1..Len(r.requests) : r.requests[i].state = "answered" =>
          /\ r.requests[i].query \notin r.asked
          /\ \A j \in 1..Len(r.requests) :
               r.requests[j].state = "answered" /\ r.requests[i].query = r.requests[j].query => i = j
          /\ \A m \in t : m.query # r.requests[i].query
    <3> TAKE i \in 1..Len(r.requests)
    <3>1. r.requests = u /\ r.asked = l.asked
      BY <1>3
    <3>2. i \in 1..Len(u) /\ r.requests[i] = u[i]
      BY <3>1
    <3> QED
      BY <2>4, <3>1, <3>2
  <2> QED
    BY <2>3, <2>5 DEF Taken
<1>7. \A i \in 1..Len(u) : vouched(u[i].addr)
  BY <1>2, <1>4 DEF CallInv, q
<1>8. t # {} => kind[c] = "announce" /\ r.pc = "await"
  BY <1>3 DEF u, q
<1>9. r.pc = "await" <=> r.requests # <<>>
  BY <1>3
<1> QED
  BY <1>3, <1>5, <1>6, <1>7, <1>8, <1>9 DEF CallInv

\* The requests for some nodes are numbered one by one and wait.
LEMMA Sends ==
  ASSUME CallsInv, NEW c \in Call, sent[c] = {}, NEW local \in Local,
         NEW entries, NEW N, entries \in Seq(N), entries # <<>>,
         \A i \in 1..Len(entries) : entries[i].addr \in Addr /\ vouched(entries[i].addr),
         Send(c, entries, local)
  PROVE  CallsInv' /\ call'[c].pc = "await"
<1> DEFINE q == [i \in DOMAIN entries |-> request(<<local.round, i>>, entries[i].addr)]
           addrs == local.queried \cup {r.addr : r \in ToSet(q)}
           owed == local.asked \cup {<<r.n, r.addr>> : r \in ToSet(q)}
           l == [local EXCEPT !.pc = "await", !.requests = q, !.queried = addrs, !.asked = owed]
<1>1. call' = [call EXCEPT ![c] = l] /\ sent' = sent
  BY DEF Send
<1>2. /\ Len(entries) \in Nat /\ Len(entries) # 0 /\ DOMAIN entries = 1..Len(entries)
      /\ local.round \in Nat
  <2>1. Len(entries) \in Nat /\ Len(entries) # 0 /\ DOMAIN entries = 1..Len(entries)
    BY LenProperties, EmptySeq
  <2> QED
    BY <2>1 DEF Local
<1>3. ASSUME NEW i \in 1..Len(entries)
      PROVE  /\ q[i].n = <<local.round, i>> /\ q[i].addr = entries[i].addr
             /\ q[i].state = "waiting" /\ q[i] \in Request
  <2>1. q[i] = [n |-> <<local.round, i>>, addr |-> entries[i].addr, state |-> "waiting"]
    BY <1>2 DEF request
  <2>2. <<local.round, i>> \in Number /\ entries[i].addr \in Addr
    BY <1>2 DEF Number
  <2>3. PICK x : x = q[i]
    OBVIOUS
  <2> HIDE DEF q
  <2>4. /\ x.n = <<local.round, i>> /\ x.addr = entries[i].addr
        /\ x.state = "waiting" /\ x \in Unanswered
    BY <2>1, <2>2, <2>3 DEF Unanswered
  <2> QED
    BY <2>3, <2>4 DEF Request
<1>4. q \in Seq(Request) /\ Len(q) = Len(entries) /\ DOMAIN q = 1..Len(entries)
  <2>1. q \in [1..Len(entries) -> Request]
    BY <1>2, <1>3
  <2> QED
    BY <1>2, <2>1, SeqDef, LenProperties
<1>5. addrs \in SUBSET Addr /\ owed \in SUBSET Asked
  <2>1. \A r \in ToSet(q) : r \in Request
    BY <1>3, <1>4 DEF ToSet
  <2>2. \A r \in Request : r.n \in Number /\ r.addr \in Addr
    BY DEF Request, Unanswered, Answered
  <2>3. local.queried \in SUBSET Addr /\ local.asked \in SUBSET Asked
    BY DEF Local
  <2> HIDE DEF q
  <2>4. \A r \in ToSet(q) : r.addr \in Addr /\ <<r.n, r.addr>> \in Asked
    BY <2>1, <2>2 DEF Asked
  <2>5. addrs \in SUBSET Addr
    BY <2>3, <2>4
  <2>6. owed \in SUBSET Asked
    BY <2>3, <2>4
  <2> QED
    BY <2>5, <2>6
<1> HIDE DEF q, addrs, owed
<1>6. l \in Local /\ l.requests = q /\ l.pc = "await"
  BY <1>4, <1>5 DEF Local
<1> HIDE DEF l
<1>7. Numbered(l, {}) /\ Taken(l, {}) /\ UsedOnce({})
  <2>1. \A i, j \in 1..Len(q) : q[i].n = q[j].n => i = j
    BY <1>3, <1>4
  <2>2. \A i \in 1..Len(q) : q[i].state # "answered"
    BY <1>3, <1>4
  <2> QED
    BY <1>6, <2>1, <2>2 DEF Numbered, Taken, UsedOnce
<1>8. q # <<>>
  BY <1>2, <1>4, EmptySeq
<1>9. \A i \in 1..Len(q) : vouched(q[i].addr)
  BY <1>3, <1>4
<1>10. CallInv(c, l, sent[c])
  BY <1>6, <1>7, <1>8, <1>9 DEF CallInv
<1> QED
  BY <1>1, <1>6, <1>10, OneSilent

\* A step that leaves the requests as they are.
LEMMA Moves ==
  ASSUME CallsInv, NEW c \in Call, call[c].pc \in {"idle", "resolving"},
         NEW p \in {"resolving", "ready"}, Go(c, p), sent' = sent
  PROVE  CallsInv' /\ call'[c].pc = p
<1> DEFINE l == [call[c] EXCEPT !.pc = p]
<1>1. call' = [call EXCEPT ![c] = l]
  BY DEF Go
<1>2. CallInv(c, call[c], sent[c]) /\ call[c] \in Local
  BY DEF CallsInv
<1>3. l \in Local /\ l.pc = p /\ l.requests = call[c].requests /\ l.asked = call[c].asked
  BY <1>2 DEF Local
<1> HIDE DEF l
<1>4. Numbered(l, sent[c]) /\ Taken(l, sent[c])
  BY <1>2, <1>3 DEF CallInv, Numbered, Taken
<1>5. CallInv(c, l, sent[c])
  BY <1>2, <1>3, <1>4 DEF CallInv
<1> QED
  BY <1>1, <1>3, <1>5, OneSilent

\* A request in the place of one with the same number and node, which has taken
\* no answer, or the one it had, or one the call is owed and is owed no longer.
LEMMA Replaces ==
  ASSUME CallsInv, NEW c \in Call, NEW i \in 1..Len(call[c].requests), NEW x \in Request,
         NEW owed \in SUBSET call[c].asked,
         x.n = call[c].requests[i].n, x.addr = call[c].requests[i].addr,
         x.state = "answered" => \/ /\ call[c].requests[i].state = "answered"
                                    /\ x.query = call[c].requests[i].query
                                 \/ x.query \in call[c].asked \ owed,
         call' = [call EXCEPT ![c].asked = owed, ![c].requests[i] = x], sent' = sent
  PROVE  CallsInv' /\ call'[c].pc = call[c].pc
<1> DEFINE q == call[c].requests
           u == [q EXCEPT ![i] = x]
           l == [call[c] EXCEPT !.asked = owed, !.requests = u]
<1>1. CallInv(c, call[c], sent[c]) /\ call[c] \in Local /\ q \in Seq(Request)
  BY DEF CallsInv, CallInv, Local
<1>2. call' = [call EXCEPT ![c] = l]
  BY <1>1 DEF CallsInv, Local
<1>3. /\ u \in Seq(Request) /\ Len(u) = Len(q) /\ Len(q) \in Nat
      /\ \A j \in 1..Len(q) : u[j] = IF j = i THEN x ELSE q[j]
  BY <1>1, ExceptSeq, LenProperties
<1>4. q # <<>> /\ u # <<>>
  BY <1>3, EmptySeq
<1> HIDE DEF u
<1>5. /\ l \in Local /\ l.requests = u /\ l.asked = owed /\ l.pc = call[c].pc
  BY <1>1, <1>3 DEF Local
<1>6. /\ \A j \in 1..Len(q) : q[j].state = "answered" =>
           /\ q[j].query \notin call[c].asked
           /\ \A k \in 1..Len(q) : q[k].state = "answered" /\ q[j].query = q[k].query => j = k
           /\ \A m \in sent[c] : m.query # q[j].query
      /\ \A m \in sent[c] : m.query \notin call[c].asked
  BY <1>1 DEF CallInv, Taken
<1>7. /\ \A j, k \in 1..Len(q) : q[j].n = q[k].n => j = k
      /\ \A j \in 1..Len(q) : \A m \in sent[c] : m.request[1] # q[j].n
  BY <1>1 DEF CallInv, Numbered
<1> HIDE DEF q, l
<1>8. Numbered(l, sent[c])
  <2>1. \A j \in 1..Len(q) : u[j].n = q[j].n
    BY <1>3 DEF q
  <2> QED
    BY <1>3, <1>5, <1>7, <2>1 DEF Numbered
<1>9. ASSUME NEW j \in 1..Len(q), u[j].state = "answered"
      PROVE  /\ u[j].query \notin owed
             /\ \A k \in 1..Len(q) : u[k].state = "answered" /\ u[j].query = u[k].query => j = k
             /\ \A m \in sent[c] : m.query # u[j].query
  <2>1. \A k \in 1..Len(q) : u[k].state = "answered" =>
          \/ q[k].state = "answered" /\ u[k].query = q[k].query
          \/ k = i /\ u[k].query \in call[c].asked \ owed
    BY <1>3 DEF q
  <2> QED
    BY <1>6, <1>9, <2>1
<1>10. Taken(l, sent[c])
  BY <1>3, <1>5, <1>6, <1>9 DEF Taken
<1>11. \A j \in 1..Len(q) : vouched(u[j].addr)
  BY <1>1, <1>3 DEF CallInv, q
<1>12. CallInv(c, l, sent[c])
  BY <1>1, <1>3, <1>4, <1>5, <1>8, <1>10, <1>11 DEF CallInv
<1> QED
  BY <1>2, <1>5, <1>12, OneSilent

-----------------------------------------------------------------------------
(* What a call reads from the table.                                       *)

\* The table is as its own proofs need it, and the addresses of its entries are
\* vouched for.
TableGood == TableFacts!TableInv /\ TableFacts!CountCoversNodes /\ EntriesVouched

\* What find_closest returns: healthy nodes, nearest first, and no other that is
\* nearer; all of them, unless it returns as many as were asked for.
LEMMA Nearest ==
  ASSUME TableFacts!TableInv, NEW count \in Nat, NEW r, r = nearest_nodes(count)
  PROVE  /\ r \in Seq(TableFacts!Node)
         /\ ToSet(r) \subseteq Table!healthy_nodes
         /\ \A i \in 1..Len(r) : /\ r[i] \in Table!healthy_nodes /\ r[i] \in Table!all_nodes
                                 /\ r[i].addr \in Addr /\ r[i].id \in Bits
         /\ \A j, k \in 1..Len(r) : j < k =>
              ~Table!distance_less(Table!xor_distance(r[k].id, infohash),
                                   Table!xor_distance(r[j].id, infohash))
         /\ \A e \in Table!healthy_nodes \ ToSet(r), f \in ToSet(r) :
              ~Table!distance_less(Table!xor_distance(e.id, infohash),
                                   Table!xor_distance(f.id, infohash))
         /\ Len(r) = count \/ Table!healthy_nodes = ToSet(r)
<1> DEFINE n == TableFacts!Cardinality(TableFacts!healthy_places)
<1>0. infohash \in TableFacts!Bits
  BY DhtClientAssumption DEF Bits, TableFacts!Bits
<1>1. r = TableFacts!find_closest(infohash, count)
  BY SameTable DEF nearest_nodes
<1>2. \A q : TableFacts!ToSet(q) = ToSet(q)
  BY DEF TableFacts!ToSet, ToSet
<1>3. /\ r \in Seq(TableFacts!Node) /\ Len(r) = TableFacts!Min({count, n})
      /\ n = Len(r) => TableFacts!healthy_nodes = TableFacts!ToSet(r)
      /\ \A j, k \in 1..Len(r) : j < k =>
           ~TableFacts!distance_less(TableFacts!xor_distance(r[k].id, infohash),
                                     TableFacts!xor_distance(r[j].id, infohash))
      /\ TableFacts!ToSet(r) \subseteq TableFacts!healthy_nodes
      /\ \A e \in TableFacts!healthy_nodes \ TableFacts!ToSet(r), f \in TableFacts!ToSet(r) :
           ~TableFacts!distance_less(TableFacts!xor_distance(e.id, infohash),
                                     TableFacts!xor_distance(f.id, infohash))
  BY <1>0, <1>1, SameTable, TableFacts!ClosestNearest
<1>4. n \in Nat
  BY SameTable, TableFacts!HealthyPlaces, TableFacts!FS_CardinalityType
<1> HIDE DEF n
<1>5. Len(r) = count \/ n = Len(r)
  <2>1. TableFacts!Min({count, n}) = IF count <= n THEN count ELSE n
    BY <1>4, SameTable, TableFacts!MinMaxOfTwo
  <2> QED
    BY <1>3, <2>1
<1>6. ASSUME NEW i \in 1..Len(r)
      PROVE  /\ r[i] \in Table!healthy_nodes /\ r[i] \in Table!all_nodes
             /\ r[i].addr \in Addr /\ r[i].id \in Bits
  <2>1. r[i] \in ToSet(r) /\ r[i] \in TableFacts!Node
    BY <1>3, LenProperties, ElementOfSeq DEF ToSet
  <2>2. r[i] \in TableFacts!healthy_nodes
    BY <1>2, <1>3, <2>1
  <2>3. r[i] \in TableFacts!all_nodes
    BY <2>2 DEF TableFacts!healthy_nodes, TableFacts!all_nodes, TableFacts!healthy_places
  <2>4. r[i].addr \in TableFacts!Addr /\ r[i].id \in TableFacts!Id
    BY <2>1 DEF TableFacts!Node
  <2>5. TableFacts!Id \subseteq Bits /\ TableFacts!Addr \subseteq Addr
    <3>1. \A x \in KnownNodes : x[2] \in Addr
      BY DhtClientAssumption DEF KnownNodes, Addr
    <3>2. TableFacts!Id \subseteq Bits
      BY SameTable DEF TableFacts!RoutingTableAssumption, TableFacts!Bits, Bits
    <3> QED
      BY <3>1, <3>2 DEF TableFacts!Addr
  <2> QED
    BY <2>2, <2>3, <2>4, <2>5, SameTable
<1> QED
  BY <1>2, <1>3, <1>5, <1>6, SameTable

\* The distance to the infohash is a string of bits.
LEMMA DistanceBits ==
  \A id \in Bits : Table!xor_distance(id, infohash) \in Bits
<1>1. infohash \in TableFacts!Bits
  BY DhtClientAssumption DEF Bits, TableFacts!Bits
<1> QED
  BY <1>1, SameTable, TableFacts!XorBits DEF Bits, TableFacts!Bits

\* distance_less is a strict order, and any two distances compare.
LEMMA LessIsOrder ==
  ASSUME NEW a \in Bits, NEW b \in Bits
  PROVE  /\ ~Table!distance_less(a, a)
         /\ a # b => Table!distance_less(a, b) \/ Table!distance_less(b, a)
         /\ \A x \in Bits : Table!distance_less(a, b) /\ Table!distance_less(b, x)
                            => Table!distance_less(a, x)
<1>1. a \in TableFacts!Bits /\ b \in TableFacts!Bits /\ Bits = TableFacts!Bits
  BY DEF Bits, TableFacts!Bits
<1>2. ~TableFacts!distance_less(a, a)
  BY <1>1, SameTable, TableFacts!LessIrreflexive
<1>3. a # b => TableFacts!distance_less(a, b) \/ TableFacts!distance_less(b, a)
  BY <1>1, SameTable, TableFacts!LessTotal
<1>4. ASSUME NEW x \in Bits, TableFacts!distance_less(a, b), TableFacts!distance_less(b, x)
      PROVE  TableFacts!distance_less(a, x)
  BY <1>1, <1>4, SameTable, TableFacts!LessTransitive
<1> QED
  BY <1>2, <1>3, <1>4, SameTable

\* The ids of healthy nodes are strings of bits.
LEMMA HealthyIds ==
  TableFacts!TableInv => \A e \in Table!healthy_nodes : e.id \in Bits
<1> SUFFICES ASSUME TableFacts!TableInv, NEW e \in Table!healthy_nodes PROVE e.id \in Bits
  OBVIOUS
<1>1. PICK p \in TableFacts!healthy_places : e = TableFacts!entry_at(p)
  BY SameTable DEF TableFacts!healthy_nodes
<1> QED
  BY <1>1, SameTable, TableFacts!HealthyPlaces DEF Bits, TableFacts!Bits

\* The nodes of a round are the first of the list that have not been asked.
LEMMA FirstUnasked ==
  ASSUME NEW c, NEW N, NEW nodes \in Seq(N), NEW r, r = to_query(c, nodes)
  PROVE  /\ r \in Seq(N)
         /\ \A i \in 1..Len(r) : \E j \in 1..Len(nodes) : r[i] = nodes[j]
         /\ r = <<>> => \A j \in 1..Len(nodes) : nodes[j].addr \in call[c].queried
         /\ r # <<>> => \E j \in 1..Len(nodes) :
              /\ r[1] = nodes[j]
              /\ \A i \in 1..Len(nodes) : i < j => nodes[i].addr \in call[c].queried
<1> DEFINE keep == {i \in DOMAIN nodes : nodes[i].addr \notin call[c].queried}
           before == [j \in keep |-> {i \in keep : i < j}]
           o == Table!listing(keep, before)
           n == TableFacts!Cardinality(keep)
           fresh == Table!retain(nodes, keep)
           last == IF Len(fresh) < max_concurrent_requests THEN Len(fresh)
                   ELSE max_concurrent_requests
<1>1. r = SubSeq(fresh, 1, last)
  BY DEF to_query
<1>2. /\ Len(nodes) \in Nat /\ DOMAIN nodes = 1..Len(nodes)
      /\ \A i \in 1..Len(nodes) : nodes[i] \in N
  <2>1. Len(nodes) \in Nat /\ DOMAIN nodes = 1..Len(nodes)
    BY LenProperties
  <2> QED
    BY <2>1, ElementOfSeq
<1>3. keep \in SUBSET (1..Len(nodes)) /\ TableFacts!IsFiniteSet(keep)
  <2>1. keep \subseteq 1..Len(nodes)
    BY <1>2
  <2>2. TableFacts!IsFiniteSet(1..Len(nodes))
    BY <1>2, SameTable, TableFacts!OneTo
  <2> QED
    BY <2>1, <2>2, TableFacts!FS_Subset
<1>4. fresh = [k \in DOMAIN o |-> nodes[o[k]]]
  BY DEF Table!retain
<1>5. \A i \in 1..Len(nodes) : i \notin keep => nodes[i].addr \in call[c].queried
  BY <1>2
<1> HIDE DEF keep, fresh
<1>6. /\ \A x \in keep : before[x] \subseteq keep /\ x \notin before[x]
      /\ \A x, y \in keep : x # y => x \in before[y] \/ y \in before[x]
      /\ \A x, y \in keep : x \in before[y] => before[x] \subseteq before[y] /\ x < y
  <2>1. \A x \in keep : before[x] = {i \in keep : i < x} /\ x \in Int
    BY <1>2, <1>3
  <2> HIDE DEF before
  <2> QED
    BY <2>1
<1> HIDE DEF before
<1>7. TableFacts!Orders(before, keep)
  BY <1>3, <1>6 DEF TableFacts!Orders
<1>8. /\ n \in Nat /\ o \in [1..n -> keep]
      /\ \A x \in keep : \E k \in 1..n : o[k] = x
      /\ \A j, k \in 1..n : j < k => o[j] \in before[o[k]]
  <2>1. o = TableFacts!listing(keep, before)
    BY SameTable
  <2> HIDE DEF o, n
  <2>2. PICK m : m = n
    OBVIOUS
  <2> QED
    BY <1>7, <2>1, <2>2, SameTable, TableFacts!Listing DEF n
<1> HIDE DEF o, n
<1>9. /\ fresh \in Seq(N) /\ Len(fresh) = n
      /\ \A k \in 1..n : fresh[k] = nodes[o[k]] /\ o[k] \in keep /\ o[k] \in 1..Len(nodes)
  <2>1. \A k \in 1..n : fresh[k] = nodes[o[k]] /\ o[k] \in keep /\ o[k] \in 1..Len(nodes)
    BY <1>3, <1>4, <1>8
  <2>2. fresh \in [1..n -> N]
    BY <1>2, <1>4, <1>8, <2>1
  <2>3. fresh \in Seq(N)
    BY <1>8, <2>2, SeqDef
  <2>4. Len(fresh) = n
    BY <1>8, <2>2, <2>3, LenProperties
  <2> QED
    BY <2>1, <2>3, <2>4
<1>10. last \in 0..n /\ (last = 0 => n = 0)
  BY <1>8, <1>9, DhtClientAssumption
<1> HIDE DEF last
<1>11. r \in Seq(N) /\ Len(r) = last /\ \A k \in 1..last : r[k] = fresh[k]
  <2>1. /\ last \in Int /\ 1 \in Int /\ \A k \in 1..last : fresh[k] \in N
    BY <1>2, <1>8, <1>9, <1>10
  <2>2. /\ r \in Seq(N) /\ Len(r) = IF 1 <= last THEN last - 1 + 1 ELSE 0
        /\ \A k \in 1..(last - 1 + 1) : r[k] = fresh[1 + k - 1]
    BY <1>1, <2>1, SubSeqProperties
  <2>3. last - 1 + 1 = last /\ \A k \in 1..last : 1 + k - 1 = k
    BY <2>1
  <2>4. \A k \in 1..last : r[k] = fresh[k]
    BY <2>2, <2>3
  <2>5. Len(r) = last
    BY <1>8, <1>10, <2>2
  <2> QED
    BY <2>2, <2>4, <2>5
<1>12. \A i \in 1..Len(r) : \E j \in 1..Len(nodes) : r[i] = nodes[j]
  BY <1>8, <1>9, <1>10, <1>11
<1>13. ASSUME r = <<>>, NEW j \in 1..Len(nodes) PROVE nodes[j].addr \in call[c].queried
  <2>1. n = 0
    BY <1>10, <1>11, <1>13, EmptySeq
  <2>2. j \notin keep
    BY <1>8, <2>1
  <2> QED
    BY <1>5, <2>2
<1>14. ASSUME r # <<>>
       PROVE  \E j \in 1..Len(nodes) :
                /\ r[1] = nodes[j]
                /\ \A i \in 1..Len(nodes) : i < j => nodes[i].addr \in call[c].queried
  <2>1. 1 \in 1..last /\ 1 \in 1..n
    BY <1>8, <1>10, <1>11, <1>14, EmptySeq
  <2>2. r[1] = nodes[o[1]] /\ o[1] \in 1..Len(nodes) /\ o[1] \in keep
    BY <1>9, <1>11, <2>1
  <2>3. ASSUME NEW i \in 1..Len(nodes), i < o[1] PROVE i \notin keep
    <3> SUFFICES ASSUME i \in keep PROVE FALSE
      OBVIOUS
    <3>1. PICK k \in 1..n : o[k] = i
      BY <1>8
    <3>2. k # 1 /\ 1 < k
      BY <1>2, <1>8, <2>2, <2>3, <3>1
    <3>3. o[1] \in before[i]
      BY <1>8, <2>1, <3>1, <3>2
    <3>4. o[1] < i
      BY <1>6, <2>2, <3>3
    <3> QED
      BY <1>2, <2>2, <2>3, <3>4
  <2> QED
    BY <1>5, <2>2, <2>3
<1> QED
  BY <1>11, <1>12, <1>13, <1>14

-----------------------------------------------------------------------------
(* The table after init.                                                   *)

\* One bootstrap node more.
one_more(table, n, resolved, id) == IF n \in resolved THEN added(table, n, id) ELSE table

\* The tables that init goes through for the first m bootstrap nodes.
Filling(f, m, resolved, id) ==
  f = [n \in 0..m |-> IF n = 0 THEN [buckets |-> buckets, count |-> total_nodes]
                      ELSE one_more(f[n-1], n, resolved, id)]

\* There are such tables for any number of bootstrap nodes.
LEMMA Fills ==
  ASSUME NEW resolved, NEW id
  PROVE  \A m \in Nat : \E f : Filling(f, m, resolved, id)
<1> DEFINE B == {m \in Nat : ~\E f : Filling(f, m, resolved, id)}
<1> SUFFICES ASSUME B # {} PROVE FALSE
  OBVIOUS
<1>1. PICK m \in B : \A k \in B : m <= k
  BY SameTable, TableFacts!LeastExists
<1>2. m \in Nat /\ ~\E f : Filling(f, m, resolved, id)
  OBVIOUS
<1>3. CASE m = 0
  <2> DEFINE f == [n \in 0..0 |-> [buckets |-> buckets, count |-> total_nodes]]
  <2>1. f = [n \in 0..0 |-> IF n = 0 THEN [buckets |-> buckets, count |-> total_nodes]
                            ELSE one_more(f[n-1], n, resolved, id)]
    OBVIOUS
  <2> HIDE DEF f
  <2>2. Filling(f, 0, resolved, id)
    BY <2>1 DEF Filling
  <2> QED
    BY <1>2, <1>3, <2>2
<1>4. CASE m # 0
  <2>1. m - 1 \in Nat /\ m - 1 \notin B
    BY <1>1, <1>2, <1>4
  <2>2. PICK g : Filling(g, m - 1, resolved, id)
    BY <2>1
  <2> DEFINE base == [buckets |-> buckets, count |-> total_nodes]
             f == [n \in 0..m |-> IF n = m THEN one_more(g[m-1], m, resolved, id) ELSE g[n]]
  <2>3. \A n \in 0..(m-1) :
          g[n] = IF n = 0 THEN base ELSE one_more(g[n-1], n, resolved, id)
    BY <2>2 DEF Filling
  <2>4. ASSUME NEW n \in 0..m
        PROVE  f[n] = IF n = 0 THEN base ELSE one_more(f[n-1], n, resolved, id)
    <3> HIDE DEF base
    <3>1. CASE n = m
      <4>1. n # 0 /\ n - 1 \in 0..m /\ n - 1 # m
        BY <1>2, <1>4, <3>1
      <4>2. f[n-1] = g[n-1] /\ f[n] = one_more(g[m-1], m, resolved, id)
        BY <3>1, <4>1
      <4> QED
        BY <3>1, <4>1, <4>2
    <3>2. CASE n # m
      <4>1. n \in 0..(m-1) /\ f[n] = g[n]
        BY <1>2, <3>2
      <4>2. n # 0 => f[n-1] = g[n-1]
        <5> SUFFICES ASSUME n # 0 PROVE f[n-1] = g[n-1]
          OBVIOUS
        <5>1. n - 1 \in 0..m /\ n - 1 # m
          BY <1>2, <3>2
        <5> QED
          BY <5>1
      <4> HIDE DEF f
      <4> QED
        BY <2>3, <4>1, <4>2
    <3> QED
      BY <3>1, <3>2
  <2>5. f = [n \in 0..m |-> f[n]]
    OBVIOUS
  <2> HIDE DEF f
  <2>6. Filling(f, m, resolved, id)
    BY <2>4, <2>5 DEF Filling
  <2> QED
    BY <1>2, <2>6
<1> QED
  BY <1>3, <1>4

\* What init leaves in the table: what was there, unless it gave way, and
\* bootstrap nodes.
LEMMA Bootstraps ==
  ASSUME TableFacts!TableInv, TableFacts!CountCoversNodes,
         NEW resolved, NEW id \in [DOMAIN bootstrap_nodes -> RandomIds],
         NEW t, t = bootstrapped(resolved, id)
  PROVE  /\ TableFacts!GoodTable(t.buckets) /\ t.count \in Nat
         /\ t.count >= TableFacts!node_count(t.buckets)
         /\ \A x : TableFacts!Holds(t.buckets, x) =>
              TableFacts!Holds(buckets, x) \/ x.addr \in Bootstrap
<1> DEFINE last == Len(bootstrap_nodes)
           f == CHOOSE table : table =
                  [n \in 0..Len(bootstrap_nodes) |->
                     IF n = 0 THEN [buckets |-> buckets, count |-> total_nodes]
                     ELSE IF n \in resolved THEN added(table[n-1], n, id) ELSE table[n-1]]
           OK(x) == /\ TableFacts!GoodTable(x.buckets) /\ x.count \in Nat
                    /\ x.count >= TableFacts!node_count(x.buckets)
                    /\ \A e : TableFacts!Holds(x.buckets, e) =>
                         TableFacts!Holds(buckets, e) \/ e.addr \in Bootstrap
<1>1. last \in Nat /\ DOMAIN bootstrap_nodes = 1..last
      /\ \A n \in 1..last : bootstrap_nodes[n] \in Bootstrap
  BY DhtClientAssumption, LenProperties, ElementOfSeq
<1>2. t = f[last]
  BY DEF bootstrapped
<1>3. Filling(f, last, resolved, id)
  <2>1. PICK g : Filling(g, last, resolved, id)
    BY <1>1, Fills
  <2>2. g = [n \in 0..Len(bootstrap_nodes) |->
               IF n = 0 THEN [buckets |-> buckets, count |-> total_nodes]
               ELSE IF n \in resolved THEN added(g[n-1], n, id) ELSE g[n-1]]
    BY <2>1, Zenon DEF Filling, one_more
  <2>3. f = [n \in 0..Len(bootstrap_nodes) |->
               IF n = 0 THEN [buckets |-> buckets, count |-> total_nodes]
               ELSE IF n \in resolved THEN added(f[n-1], n, id) ELSE f[n-1]]
    BY <2>2, Zenon
  <2> QED
    BY <2>3, Zenon DEF Filling, one_more
<1> HIDE DEF f, last
<1>4. /\ f[0] = [buckets |-> buckets, count |-> total_nodes]
      /\ \A n \in 1..last : f[n] = one_more(f[n-1], n, resolved, id)
  <2>1. \A n \in 0..last : f[n] = IF n = 0 THEN [buckets |-> buckets, count |-> total_nodes]
                                   ELSE one_more(f[n-1], n, resolved, id)
    BY <1>3 DEF Filling
  <2> QED
    BY <1>1, <2>1
<1>5. ASSUME NEW n \in 1..last, NEW x, OK(x) PROVE OK(added(x, n, id))
  <2> DEFINE node == <<id[n], bootstrap_nodes[n]>>
             e == Table!new_entry(id[n], bootstrap_nodes[n])
             r == Table!insert_entry(x.buckets, e)
             y == added(x, n, id)
  <2>1. node \in KnownNodes /\ bootstrap_nodes[n] \in Bootstrap
    BY <1>1 DEF KnownNodes
  <2>2. e \in TableFacts!Node /\ e.addr = bootstrap_nodes[n]
    <3>1. /\ TableFacts!new_entry(node[1], node[2]) \in TableFacts!Node
          /\ TableFacts!new_entry(node[1], node[2]).addr = node[2]
      BY <2>1, SameTable, TableFacts!NewEntry
    <3>2. e = TableFacts!new_entry(node[1], node[2]) /\ node[2] = bootstrap_nodes[n]
      BY SameTable
    <3> QED
      BY <3>1, <3>2
  <2>3. r = TableFacts!insert_entry(x.buckets, e)
    BY SameTable
  <2>4. y.buckets = r.buckets /\ y.count = IF r.ok THEN x.count + 1 ELSE x.count
    BY DEF added
  <2> HIDE DEF e, r, y
  <2>5. /\ TableFacts!GoodTable(r.buckets)
        /\ r.ok => /\ TableFacts!TakesIn(r.buckets, x.buckets, e)
                   /\ TableFacts!node_count(r.buckets) <= TableFacts!node_count(x.buckets) + 1
        /\ ~r.ok => /\ TableFacts!node_count(r.buckets) <= TableFacts!node_count(x.buckets)
                    /\ \A z : TableFacts!Holds(r.buckets, z) <=> TableFacts!Holds(x.buckets, z)
        /\ r.ok \in BOOLEAN
    BY <1>5, <2>2, <2>3, SameTable, TableFacts!InsertsEntry
  <2>6. \A z : TableFacts!Holds(r.buckets, z) => z = e \/ TableFacts!Holds(x.buckets, z)
    BY <2>5 DEF TableFacts!TakesIn
  <2>7. /\ TableFacts!node_count(r.buckets) \in Nat
        /\ TableFacts!node_count(x.buckets) \in Nat
    BY <1>5, <2>5, SameTable, TableFacts!Places
  <2>8. y.count \in Nat /\ y.count >= TableFacts!node_count(y.buckets)
    BY <1>5, <2>4, <2>5, <2>7
  <2>9. OK(y)
    BY <1>5, <2>1, <2>2, <2>4, <2>5, <2>6, <2>8
  <2> QED
    BY <2>9 DEF y
<1>6. OK(f[0])
  BY <1>4 DEF TableFacts!TableInv, TableFacts!CountCoversNodes
<1> HIDE DEF OK
<1>7. \A n \in 0..last : OK(f[n])
  <2> DEFINE B == {n \in 0..last : ~OK(f[n])}
  <2> SUFFICES ASSUME B # {} PROVE FALSE
    OBVIOUS
  <2>1. B \in SUBSET Nat
    BY <1>1
  <2>2. PICK n \in B : \A k \in B : n <= k
    BY <2>1, SameTable, TableFacts!LeastExists
  <2>3. n \in 1..last /\ n - 1 \in 0..last /\ n - 1 \notin B
    BY <1>1, <1>6, <2>2
  <2>4. OK(f[n-1])
    BY <2>3
  <2>5. OK(f[n])
    BY <1>4, <1>5, <2>3, <2>4 DEF one_more
  <2> QED
    BY <2>2, <2>5
<1>8. OK(t)
  BY <1>1, <1>2, <1>7
<1> QED
  BY <1>8 DEF OK

-----------------------------------------------------------------------------
(* The steps that change the table.                                        *)

\* The entries of the table are what its buckets hold.
LEMMA Held ==
  TableFacts!TableInv => \A x : x \in Table!all_nodes <=> TableFacts!Holds(buckets, x)
BY SameTable, TableFacts!HeldEntries
   DEF TableFacts!TableInv, TableFacts!all_nodes, TableFacts!entry_at

\* insert brings in the address it is given.
LEMMA InsertKeepsGood ==
  ASSUME TableGood, NEW n \in KnownNodes, vouched(n[2]), Table!Insert(n[1], n[2])
  PROVE  TableGood'
<1>1. TableFacts!Insert(n[1], n[2]) /\ TableFacts!Next
  BY SameTable DEF TableFacts!Next
<1>2. TableFacts!TableInv' /\ TableFacts!CountCoversNodes'
  BY <1>1, SameTable, TableFacts!NextTable DEF TableGood
<1>3. \A x \in Table!all_nodes' : x \in Table!all_nodes \/ x.addr = n[2]
  BY <1>1, SameTable, TableFacts!InsertBringsOne DEF TableGood
<1>4. EntriesVouched'
  BY <1>3 DEF TableGood, EntriesVouched, vouched
<1> QED
  BY <1>2, <1>4 DEF TableGood

\* touch and mark_failed bring in no address.
LEMMA MarkKeepsGood ==
  ASSUME TableGood, NEW addr, Table!Touch(addr) \/ Table!MarkFailed(addr)
  PROVE  TableGood'
<1>1. TableFacts!Touch(addr) \/ TableFacts!MarkFailed(addr)
  BY SameTable
<1>2. /\ TableFacts!GoodTable(buckets')
      /\ TableFacts!node_count(buckets') <= TableFacts!node_count(buckets)
      /\ \A y : TableFacts!Holds(buckets', y) =>
           \E x : TableFacts!Holds(buckets, x) /\ y.addr = x.addr
  BY <1>1, SameTable, TableFacts!Marks DEF TableGood
<1>3. total_nodes' = total_nodes /\ now' = now
  BY DEF Table!Touch, Table!MarkFailed
<1>4. TableFacts!TableInv'
  BY <1>2, <1>3 DEF TableGood, TableFacts!TableInv
<1>5. TableFacts!CountCoversNodes'
  <2>1. TableFacts!node_count(buckets) \in Nat /\ TableFacts!node_count(buckets') \in Nat
    BY <1>2, SameTable, TableFacts!Places DEF TableGood, TableFacts!TableInv
  <2> QED
    BY <1>2, <1>3, <2>1 DEF TableGood, TableFacts!TableInv, TableFacts!CountCoversNodes
<1>6. \A y \in Table!all_nodes' : \E x \in Table!all_nodes : y.addr = x.addr
  <2>1. \A x : x \in Table!all_nodes <=> TableFacts!Holds(buckets, x)
    BY Held DEF TableGood
  <2>2. \A y : y \in Table!all_nodes' <=> TableFacts!Holds(buckets', y)
    BY <1>2, SameTable, TableFacts!HeldEntries DEF TableFacts!all_nodes, TableFacts!entry_at
  <2> QED
    BY <1>2, <2>1, <2>2
<1>7. EntriesVouched'
  BY <1>6 DEF TableGood, EntriesVouched
<1> QED
  BY <1>4, <1>5, <1>7 DEF TableGood

\* init brings in bootstrap nodes.
LEMMA JoinKeepsGood ==
  ASSUME TableGood, NEW c, NEW resolved, NEW id \in [DOMAIN bootstrap_nodes -> RandomIds],
         Join(c, resolved, id)
  PROVE  TableGood'
<1>1. PICK t : t = bootstrapped(resolved, id)
  OBVIOUS
<1>2. /\ TableFacts!GoodTable(t.buckets) /\ t.count \in Nat
      /\ t.count >= TableFacts!node_count(t.buckets)
      /\ \A x : TableFacts!Holds(t.buckets, x) =>
           TableFacts!Holds(buckets, x) \/ x.addr \in Bootstrap
  BY <1>1, Bootstraps DEF TableGood
<1>3. buckets' = t.buckets /\ total_nodes' = t.count /\ now' = now
  BY <1>1 DEF Join
<1>4. TableFacts!TableInv' /\ TableFacts!CountCoversNodes'
  BY <1>2, <1>3 DEF TableGood, TableFacts!TableInv, TableFacts!CountCoversNodes
<1>5. \A x \in Table!all_nodes' : x \in Table!all_nodes \/ x.addr \in Bootstrap
  <2>1. \A x : x \in Table!all_nodes <=> TableFacts!Holds(buckets, x)
    BY Held DEF TableGood
  <2>2. \A y : y \in Table!all_nodes' <=> TableFacts!Holds(buckets', y)
    BY <1>2, <1>3, SameTable, TableFacts!HeldEntries
       DEF TableFacts!all_nodes, TableFacts!entry_at
  <2> QED
    BY <1>2, <1>3, <2>1, <2>2
<1>6. EntriesVouched'
  BY <1>5 DEF TableGood, EntriesVouched
<1> QED
  BY <1>4, <1>6 DEF TableGood

\* Time changes no entry.
LEMMA IdleKeepsGood ==
  ASSUME TableGood, buckets' = buckets, total_nodes' = total_nodes, now' \in {now, now + 1}
  PROVE  TableGood'
<1>1. Table!all_nodes' = Table!all_nodes
  BY DEF Table!all_nodes, Table!entry_at, Table!places
<1>2. TableFacts!TableInv' /\ TableFacts!CountCoversNodes'
  BY DEF TableGood, TableFacts!TableInv, TableFacts!CountCoversNodes
<1> QED
  BY <1>1, <1>2 DEF TableGood, EntriesVouched

-----------------------------------------------------------------------------
(* The steps of a call.                                                    *)

\* The request whose turn it is.
LEMMA FirstRequest ==
  ASSUME CallsInv, NEW c \in Call, call[c].pc = "await"
  PROVE  /\ call[c].requests # <<>> /\ call[c].requests \in Seq(Request)
         /\ Len(call[c].requests) \in Nat /\ 1 \in 1..Len(call[c].requests)
         /\ call[c].requests[1] \in Request /\ vouched(call[c].requests[1].addr)
<1>1. CallInv(c, call[c], sent[c]) /\ call[c].requests \in Seq(Request) /\ call[c].requests # <<>>
  BY DEF CallsInv, CallInv, Local
<1>2. Len(call[c].requests) \in Nat /\ 1 \in 1..Len(call[c].requests)
  BY <1>1, EmptySeq
<1> QED
  BY <1>1, <1>2, ElementOfSeq DEF CallInv

\* Done with a request, after which t has been sent.
LEMMA PopKeeps ==
  ASSUME CallsInv, NEW c \in Call, call[c].pc = "await",
         NEW peers \in SUBSET Peer,
         Pop(c, [call[c] EXCEPT !.all_peers = peers]),
         NEW t \in SUBSET Message, t # {} => kind[c] = "announce", UsedOnce(t),
         \A m \in t : \/ m \in sent[c]
                       \/ /\ call[c].requests[1].state = "answered"
                          /\ m.request[1] = call[c].requests[1].n
                          /\ m.query = call[c].requests[1].query,
         sent' = [sent EXCEPT ![c] = t]
  PROVE  CallsInv'
<1> DEFINE local == [call[c] EXCEPT !.all_peers = peers]
           left == Tail(call[c].requests)
           enough == kind[c] = "announce" \/ Cardinality(peers) >= limit
           p == IF left = <<>> THEN "ready" ELSE "await"
           l == popped(call[c], peers, left, p)
<1>1. CallInv(c, call[c], sent[c]) /\ call[c] \in Local
  BY DEF CallsInv
<1>2. local.requests = call[c].requests /\ local.all_peers = peers
      /\ [local EXCEPT !.requests = left, !.pc = p] = l
  BY <1>1 DEF Local, popped
<1>3. call' = [call EXCEPT ![c] = IF left = <<>> /\ enough THEN returned ELSE l]
  BY <1>2 DEF Pop
<1> HIDE DEF local
<1>4. left \in Seq(Request) /\ p \in {"ready", "await"}
  BY FirstRequest, HeadTailProperties
<1> HIDE DEF left, p
<1>5. l \in Local /\ l.requests = left /\ l.asked = call[c].asked /\ l.pc = p
  BY <1>1, <1>4, PoppedLocal
<1> HIDE DEF l, enough
<1>6. CASE left = <<>> /\ enough
  <2>1. CallInv(c, returned, t)
    BY Finished
  <2> QED
    BY <1>3, <1>6, <2>1, OneCall
<1>7. CASE ~(left = <<>> /\ enough)
  <2>1. kind[c] = "lookup" \/ left # <<>>
    BY <1>7, DhtClientAssumption DEF enough
  <2>2. l.pc = IF left = <<>> THEN "ready" ELSE "await"
    BY <1>5 DEF p
  <2>3. CallInv(c, l, t)
    BY <1>1, <1>5, <2>1, <2>2, Pops DEF left
  <2>4. call' = [call EXCEPT ![c] = l]
    BY <1>3, <1>7
  <2> QED
    BY <2>3, <2>4, OneCall
<1> QED
  BY <1>6, <1>7

\* The end of a call that sends nothing.
LEMMA ReturnKeeps ==
  ASSUME CallsInv, NEW c \in Call, Return(c), sent' = sent
  PROVE  CallsInv'
<1>1. CallInv(c, call[c], sent[c])
  BY DEF CallsInv
<1>2. CallInv(c, returned, sent[c])
  BY <1>1, Finished DEF CallInv
<1> QED
  BY <1>2, OneSilent DEF Return

\* The requests of a call are for nodes of the table.
LEMMA AskKeeps ==
  ASSUME CallsInv, TableGood, NEW c \in Call, call[c].pc = "ready",
         NEW local \in Local, NEW entries, entries \in Seq(TableFacts!Node), entries # <<>>,
         \A i \in 1..Len(entries) :
           entries[i] \in Table!all_nodes /\ entries[i].addr \in Addr,
         Send(c, entries, local)
  PROVE  CallsInv'
<1>1. sent[c] = {}
  BY DEF CallsInv, CallInv
<1>2. \A i \in 1..Len(entries) : entries[i].addr \in Addr /\ vouched(entries[i].addr)
  BY DEF TableGood, EntriesVouched, vouched
<1> QED
  BY <1>1, <1>2, Sends

LEMMA RoundKeeps ==
  ASSUME CallsInv, TableGood, NEW c \in Call, Round(c)
  PROVE  CallsInv'
<1>1. PICK nodes, entries :
        /\ nodes = nearest_nodes(LookupWidth) /\ entries = to_query(c, nodes)
        /\ LET dist == Table!xor_distance(entries[1].id, infohash)
               stale == IF nearer(c, dist) THEN 0 ELSE call[c].stale + 1
           IN  IF call[c].round = max_query_rounds \/ entries = <<>> \/ stale >= 2
               THEN Return(c) /\ UNCHANGED <<tableVars, initialized, joined, sent>>
               ELSE Send(c, entries, [call[c] EXCEPT !.round = @ + 1, !.stale = stale,
                                        !.closest_distance = IF nearer(c, dist) THEN dist ELSE @])
  BY Zenon DEF Round
<1> DEFINE dist == Table!xor_distance(entries[1].id, infohash)
           stale == IF nearer(c, dist) THEN 0 ELSE call[c].stale + 1
           closest == IF nearer(c, dist) THEN dist ELSE call[c].closest_distance
           local == [call[c] EXCEPT !.round = @ + 1, !.stale = stale, !.closest_distance = closest]
<1>2. call[c].pc = "ready" /\ call[c] \in Local
  BY DEF Round, CallsInv
<1>3. CASE Return(c) /\ sent' = sent
  BY <1>3, ReturnKeeps
<1>4. CASE entries # <<>> /\ Send(c, entries, local)
  <2>1. /\ nodes \in Seq(TableFacts!Node)
        /\ \A i \in 1..Len(nodes) : nodes[i] \in Table!all_nodes
                                    /\ nodes[i].addr \in Addr /\ nodes[i].id \in Bits
    BY <1>1, DhtClientAssumption, Nearest DEF TableGood
  <2>2. /\ entries \in Seq(TableFacts!Node)
        /\ \A i \in 1..Len(entries) : \E j \in 1..Len(nodes) : entries[i] = nodes[j]
    BY <1>1, <2>1, FirstUnasked
  <2>3. \A i \in 1..Len(entries) : /\ entries[i] \in Table!all_nodes
                                  /\ entries[i].addr \in Addr /\ entries[i].id \in Bits
    BY <2>1, <2>2
  <2>4. 1 \in 1..Len(entries)
    BY <1>4, <2>2, EmptySeq
  <2>5. dist \in Bits
    BY <2>3, <2>4, DistanceBits, DhtClientAssumption
  <2> HIDE DEF dist
  <2>6. stale \in Nat /\ closest \in Bits
    BY <1>2, <2>5 DEF Local
  <2> HIDE DEF stale, closest
  <2>7. local \in Local
    BY <1>2, <2>6, RoundLocal, Zenon
  <2> HIDE DEF local
  <2> QED
    BY <1>2, <1>4, <2>2, <2>3, <2>7, AskKeeps
<1> QED
  BY <1>1, <1>3, <1>4

LEMMA AskForTokensKeeps ==
  ASSUME CallsInv, TableGood, NEW c \in Call, AskForTokens(c)
  PROVE  CallsInv'
<1>1. PICK nodes : /\ nodes = nearest_nodes(AnnounceWidth)
                   /\ \/ Return(c) /\ sent' = sent
                      \/ nodes # <<>> /\ Send(c, nodes, call[c])
  BY Zenon DEF AskForTokens
<1>2. CASE Return(c) /\ sent' = sent
  BY <1>2, ReturnKeeps
<1>3. CASE nodes # <<>> /\ Send(c, nodes, call[c])
  <2>1. /\ nodes \in Seq(TableFacts!Node)
        /\ \A i \in 1..Len(nodes) : nodes[i] \in Table!all_nodes /\ nodes[i].addr \in Addr
    BY <1>1, DhtClientAssumption, Nearest DEF TableGood
  <2>2. call[c].pc = "ready" /\ call[c] \in Local
    BY DEF AskForTokens, CallsInv
  <2> QED
    BY <1>3, <2>1, <2>2, AskKeeps
<1> QED
  BY <1>1, <1>2, <1>3

\* A request that is in no state to give up or to take an answer is none that waits.
LEMMA GiveUpKeeps ==
  ASSUME CallsInv, NEW c \in Call, NEW i \in Requests(c), GiveUp(c, i)
  PROVE  CallsInv' /\ call'[c].pc = call[c].pc
<1> DEFINE r == call[c].requests[i]
           x == [r EXCEPT !.state = "failed"]
           owed == call[c].asked
<1>1. call[c] \in Local /\ call[c].requests \in Seq(Request) /\ i \in 1..Len(call[c].requests)
  BY LenProperties DEF CallsInv, Requests, Local
<1>2. r \in Unanswered
  <2>1. r \in Request /\ r.state = "waiting"
    BY <1>1, ElementOfSeq DEF GiveUp
  <2> QED
    BY <2>1 DEF Request, Answered
<1>3. x \in Request /\ x.n = r.n /\ x.addr = r.addr /\ x.state = "failed"
  BY <1>2 DEF Unanswered, Request
<1>4. call' = [call EXCEPT ![c].asked = owed, ![c].requests[i] = x] /\ sent' = sent
  BY <1>1 DEF GiveUp, CallsInv, Local
<1>5. owed \in SUBSET call[c].asked
  OBVIOUS
<1> HIDE DEF x, owed
<1> QED
  BY <1>1, <1>3, <1>4, <1>5, Replaces

\* An answer is one of a node the call has asked.
LEMMA AnswerType ==
  ASSUME NEW c \in Call, NEW from \in Addr, NEW answer \in Answers(c, from)
  PROVE  answer \in Answer
<1>1. <<>> \in Seq(Contacts) /\ \A n \in Contacts : <<n>> \in Seq(Contacts)
  OBVIOUS
<1>2. /\ answer.from = from
      /\ answer.id \in {real_id[from], zero_id} /\ answer.token \in BOOLEAN
      /\ answer.peers \in SUBSET Peer /\ answer.nodes \in Seq(Contacts)
      /\ answer = [from |-> answer.from, id |-> answer.id, token |-> answer.token,
                   peers |-> answer.peers, nodes |-> answer.nodes]
  <2>1. CASE answer = [from |-> from, id |-> zero_id, token |-> FALSE, peers |-> {}, nodes |-> <<>>]
    BY <1>1, <2>1
  <2>2. CASE answer \in [from : {from}, id : {real_id[from]}, token : {TRUE},
                         peers : IF kind[c] = "lookup" THEN SUBSET Peer ELSE {{}},
                         nodes : {<<>>} \cup {<<n>> : n \in IF kind[c] = "lookup" THEN Contacts
                                                           ELSE {}}]
    BY <1>1, <2>2
  <2> QED
    BY <2>1, <2>2 DEF Answers
<1> QED
  BY <1>2 DEF Answer

LEMMA ReceiveKeeps ==
  ASSUME CallsInv, NEW c \in Call, NEW i \in Requests(c), NEW q \in call[c].asked,
         NEW answer \in Answers(c, q[2]), Receive(c, i, q, answer)
  PROVE  CallsInv' /\ call'[c].pc = call[c].pc
<1> DEFINE r == call[c].requests[i]
           x == answered(c, i, q, answer)
           owed == call[c].asked \ {q}
<1>1. call[c] \in Local /\ call[c].requests \in Seq(Request) /\ i \in 1..Len(call[c].requests)
  BY LenProperties DEF CallsInv, Requests, Local
<1>2. r.n \in Number /\ r.addr \in Addr
  <2>1. r \in Request
    BY <1>1, ElementOfSeq
  <2> QED
    BY <2>1 DEF Request, Answered, Unanswered
<1>3. q \in Asked /\ q[2] \in Addr
  BY <1>1 DEF Local, Asked
<1>4. answer \in Answer
  BY <1>3, AnswerType
<1>5. x \in Request /\ x.n = r.n /\ x.addr = r.addr /\ x.query = q
  BY <1>2, <1>3, <1>4 DEF answered, Request, Answered
<1>6. call' = [call EXCEPT ![c].asked = owed, ![c].requests[i] = x] /\ sent' = sent
  BY DEF Receive
<1>7. owed \in SUBSET call[c].asked /\ q \in call[c].asked \ owed
  OBVIOUS
<1> HIDE DEF x, owed
<1> QED
  BY <1>1, <1>5, <1>6, <1>7, Replaces

LEMMA LearnKeeps ==
  ASSUME CallsInv, TableGood, NEW c \in Call, Learn(c)
  PROVE  CallsInv' /\ call'[c].pc = call[c].pc /\ TableGood'
<1> DEFINE r == call[c].requests[1]
           a == [r.answer EXCEPT !.nodes = Tail(@)]
           x == [r EXCEPT !.answer = a]
           owed == call[c].asked
<1>1. call[c].pc = "await" /\ r.state = "answered" /\ r.answer.nodes # <<>>
  BY DEF Learn, TakeListed, Turn
<1>2. call[c] \in Local /\ 1 \in 1..Len(call[c].requests) /\ r \in Answered
  <2>1. call[c] \in Local /\ 1 \in 1..Len(call[c].requests) /\ r \in Request
    BY <1>1, FirstRequest DEF CallsInv
  <2> QED
    BY <1>1, <2>1 DEF Request, Unanswered
<1>3. /\ r.answer \in Answer /\ r.answer.nodes \in Seq(Contacts)
      /\ Tail(r.answer.nodes) \in Seq(Contacts) /\ Head(r.answer.nodes) \in Contacts
  BY <1>1, <1>2, HeadTailProperties DEF Answered, Answer
<1>4. a \in Answer
  BY <1>3 DEF Answer
<1>5. call' = [call EXCEPT ![c].asked = owed, ![c].requests[1] = x] /\ sent' = sent
  <2>1. call' = [call EXCEPT ![c].requests[1].answer.nodes = Tail(@)] /\ sent' = sent
    BY DEF Learn, TakeListed
  <2> QED
    BY <1>2, <2>1 DEF CallsInv, Local
<1> HIDE DEF a
<1>6. x \in Request /\ x.n = r.n /\ x.addr = r.addr /\ x.query = r.query
  BY <1>2, <1>4 DEF Answered, Request
<1>7. owed \in SUBSET call[c].asked
  OBVIOUS
<1> HIDE DEF x, owed
<1>8. CallsInv' /\ call'[c].pc = call[c].pc
  BY <1>1, <1>2, <1>5, <1>6, <1>7, Replaces
<1>9. TableGood'
  <2> DEFINE n == listed(c)
  <2>1. n \in Contacts /\ n \in KnownNodes
    BY <1>3 DEF listed, KnownNodes
  <2>2. CASE verify_node_id(n[1], n[2]) /\ Table!Insert(n[1], n[2])
    <3>1. n = <<n[1], n[2]>>
      BY <2>1, DhtClientAssumption
    <3>2. vouched(n[2])
      BY <2>2, <3>1 DEF verify_node_id, vouched
    <3> QED
      BY <2>1, <2>2, <3>2, InsertKeepsGood
  <2>3. CASE UNCHANGED tableVars
    BY <2>3, IdleKeepsGood DEF tableVars
  <2> QED
    BY <2>2, <2>3 DEF Learn
<1> QED
  BY <1>8, <1>9

LEMMA SuccessKeeps ==
  ASSUME CallsInv, TableGood, NEW c \in Call, Success(c)
  PROVE  CallsInv' /\ TableGood'
<1> DEFINE r == call[c].requests[1]
           peers == call[c].all_peers \cup r.answer.peers
<1>1. call[c].pc = "await" /\ r.state = "answered" /\ sent' = sent
  BY DEF Success, TakeAnswer, Turn
<1>2. r \in Answered /\ vouched(r.addr) /\ r.answer \in Answer /\ r.addr \in Addr
  <2>1. r \in Request /\ vouched(r.addr)
    BY <1>1, FirstRequest
  <2> QED
    BY <1>1, <2>1 DEF Request, Unanswered, Answered
<1>3. peers \in SUBSET Peer
  BY <1>2 DEF CallsInv, Local, Answer
<1>4. Pop(c, [call[c] EXCEPT !.all_peers = peers])
  BY DEF Success, TakeAnswer
<1>5. CallsInv'
  <2>1. CallInv(c, call[c], sent[c]) /\ sent' = [sent EXCEPT ![c] = sent[c]]
    BY <1>1 DEF CallsInv
  <2>2. /\ sent[c] \in SUBSET Message /\ UsedOnce(sent[c])
        /\ sent[c] # {} => kind[c] = "announce"
    BY <2>1 DEF CallInv
  <2> HIDE DEF peers
  <2> QED
    BY <1>1, <1>3, <1>4, <2>1, <2>2, PopKeeps
<1>6. TableGood'
  <2>1. CASE Table!Touch(r.addr)
    BY <2>1, MarkKeepsGood
  <2>2. CASE Table!Insert(r.answer.id, r.addr)
    <3> DEFINE n == <<r.answer.id, r.addr>>
    <3>1. n \in KnownNodes
      <4>1. CASE r.answer.id = zero_id
        BY <1>2, <4>1 DEF KnownNodes, zero_id
      <4>2. CASE r.answer.id # zero_id
        <5>1. PICK b \in Addr : r.answer.id = real_id[b]
          BY <1>2, <4>2 DEF Answer
        <5> HIDE DEF r
        <5> QED
          BY <1>2, <5>1 DEF KnownNodes
      <4> QED
        BY <4>1, <4>2
    <3>2. n[1] = r.answer.id /\ n[2] = r.addr
      OBVIOUS
    <3> QED
      BY <1>2, <2>2, <3>1, <3>2, InsertKeepsGood
  <2> QED
    BY <2>1, <2>2 DEF Success
<1> QED
  BY <1>5, <1>6

LEMMA FailureKeeps ==
  ASSUME CallsInv, TableGood, NEW c \in Call, Failure(c)
  PROVE  CallsInv' /\ TableGood'
<1> DEFINE peers == call[c].all_peers
<1>1. call[c].pc = "await" /\ sent' = sent /\ Pop(c, call[c])
  BY DEF Failure, TakeFailure, Turn
<1>2. CallInv(c, call[c], sent[c]) /\ sent' = [sent EXCEPT ![c] = sent[c]] /\ call[c] \in Local
  BY <1>1 DEF CallsInv
<1>3. call[c] = [call[c] EXCEPT !.all_peers = peers] /\ peers \in SUBSET Peer
  BY <1>2 DEF Local
<1>4. CallsInv'
  <2>1. /\ sent[c] \in SUBSET Message /\ UsedOnce(sent[c])
        /\ sent[c] # {} => kind[c] = "announce"
    BY <1>2 DEF CallInv
  <2>2. Pop(c, [call[c] EXCEPT !.all_peers = peers])
    BY <1>1, <1>3
  <2> QED
    BY <1>1, <1>2, <1>3, <2>1, <2>2, PopKeeps
<1>5. TableGood'
  <2>1. ASSUME NEW addr, Table!MarkFailed(addr) PROVE TableGood'
    BY <2>1, MarkKeepsGood
  <2>2. CASE UNCHANGED tableVars
    BY <2>2, IdleKeepsGood DEF tableVars
  <2> QED
    BY <2>1, <2>2 DEF Failure
<1> QED
  BY <1>4, <1>5

\* An announce_peer uses the answer that the request at its turn has taken.
LEMMA SendAnnounceKeeps ==
  ASSUME CallsInv, NEW c \in Call, SendAnnounce(c)
  PROVE  CallsInv'
<1> DEFINE r == call[c].requests[1]
           m == [request |-> <<r.n, r.addr>>, query |-> r.query]
           peers == call[c].all_peers
<1>1. /\ kind[c] = "announce" /\ call[c].pc = "await" /\ Pop(c, call[c])
      /\ \/ sent' = sent
         \/ r.state = "answered" /\ sent' = [sent EXCEPT ![c] = sent[c] \cup {m}]
  <2>1. /\ kind[c] = "announce" /\ call[c].pc = "await" /\ Pop(c, call[c])
        /\ \/ sent' = sent
           \/ /\ r.state = "answered"
              /\ sent' = [sent EXCEPT ![c] = IF r.answer.token THEN @ \cup {m} ELSE @]
    BY DEF SendAnnounce, Turn
  <2>2. sent = [sent EXCEPT ![c] = sent[c]]
    BY DEF CallsInv
  <2> HIDE DEF m
  <2> QED
    BY <2>1, <2>2
<1>2. /\ CallInv(c, call[c], sent[c]) /\ sent[c] = sent[c] /\ call[c] \in Local
      /\ sent[c] \in SUBSET Message /\ UsedOnce(sent[c])
  BY DEF CallsInv, CallInv
<1>3. Pop(c, [call[c] EXCEPT !.all_peers = peers]) /\ peers \in SUBSET Peer
  <2>1. call[c] = [call[c] EXCEPT !.all_peers = peers] /\ peers \in SUBSET Peer
    BY <1>2 DEF Local
  <2> QED
    BY <1>1, <2>1
<1>4. CASE sent' = sent
  <2>1. sent' = [sent EXCEPT ![c] = sent[c]]
    BY <1>4 DEF CallsInv
  <2> QED
    BY <1>1, <1>2, <1>3, <2>1, PopKeeps
<1>5. CASE r.state = "answered" /\ sent' = [sent EXCEPT ![c] = sent[c] \cup {m}]
  <2>1. r \in Answered /\ 1 \in 1..Len(call[c].requests)
    BY <1>1, <1>5, FirstRequest DEF Request, Unanswered
  <2>2. m \in Message /\ m.request[1] = r.n /\ m.query = r.query
    BY <2>1 DEF Answered, Message, Asked
  <2>3. \A k \in sent[c] : k.query # r.query /\ k.request[1] # r.n
    BY <1>2, <1>5, <2>1 DEF CallInv, Numbered, Taken
  <2> DEFINE t == sent[c] \cup {m}
  <2>4. t \in SUBSET Message
    BY <1>2, <2>2
  <2>5. UsedOnce(t)
    <3> HIDE DEF m, r
    <3>1. \A k \in sent[c] : k.query # m.query /\ k.request # m.request
      BY <2>2, <2>3
    <3> QED
      BY <1>2, <3>1 DEF UsedOnce
  <2>6. \A k \in t : k \in sent[c] \/ (r.state = "answered" /\ k.request[1] = r.n /\ k.query = r.query)
    <3> HIDE DEF m, r
    <3> QED
      BY <1>5, <2>2
  <2>7. sent' = [sent EXCEPT ![c] = t]
    BY <1>5
  <2> HIDE DEF t
  <2> QED
    BY <1>1, <1>3, <2>4, <2>5, <2>6, <2>7, PopKeeps
<1> QED
  BY <1>1, <1>4, <1>5

-----------------------------------------------------------------------------
(* The theorems.                                                           *)

\* The flag is set only when some call has put the bootstrap nodes there.
Joined == JoinedBeforeUse /\ (initialized => joined # {})

Inv == CallsInv /\ TableGood /\ Joined

\* Nothing has been asked, and the table is empty.
LEMMA InvInit == Init => Inv
<1> SUFFICES ASSUME Init PROVE Inv
  OBVIOUS
<1>1. new_call \in Local /\ new_call.requests = <<>> /\ new_call.pc = "idle"
  <2>1. far \in Bits
    BY DEF far, Bits
  <2>2. <<>> \in Seq(Request)
    BY EmptySeq
  <2> QED
    BY <2>1, <2>2 DEF new_call, Local
<1>2. Len(new_call.requests) = 0
  BY <1>1, EmptySeq
<1> HIDE DEF new_call
<1>3. \A c \in Call : call[c] = new_call /\ sent[c] = {}
  BY DEF Init
<1>4. ASSUME NEW c \in Call PROVE CallInv(c, new_call, {})
  BY <1>1, <1>2 DEF CallInv, Numbered, Taken, UsedOnce
<1>5. CallsInv
  BY <1>1, <1>3, <1>4 DEF Init, CallsInv
<1>6. TableGood
  <2>1. TableFacts!Init
    BY SameTable DEF Init
  <2>2. TableFacts!TableInv /\ TableFacts!CountCoversNodes /\ TableFacts!all_nodes = {}
    BY <2>1, SameTable, TableFacts!InitTable, TableFacts!InitHoldsNone
  <2> QED
    BY <2>2, SameTable DEF TableGood, EntriesVouched
<1>7. Joined
  BY <1>1, <1>3 DEF Init, Joined, JoinedBeforeUse, past_init
<1> QED
  BY <1>5, <1>6, <1>7 DEF Inv

\* The steps of a call that is past init, and those of init.
LEMMA InvNext == Inv /\ [Next]_vars => Inv'
<1> SUFFICES ASSUME Inv, [Next]_vars PROVE Inv'
  OBVIOUS
<1>0. CallsInv /\ TableGood /\ Joined
  BY DEF Inv
<1>1. ASSUME NEW c \in Call, call[c].pc \in {"ready", "await"},
             joined' = joined, initialized' = initialized
      PROVE  Joined'
  BY <1>0, <1>1 DEF Joined, JoinedBeforeUse, past_init
<1>2. ASSUME NEW c \in Call, call' = [call EXCEPT ![c] = call'[c]], call'[c].pc = call[c].pc,
             joined' = joined, initialized' = initialized
      PROVE  Joined'
  BY <1>0, <1>2 DEF Joined, JoinedBeforeUse, past_init, CallsInv
<1>3. ASSUME UNCHANGED tableVars PROVE TableGood'
  BY <1>0, <1>3, IdleKeepsGood DEF tableVars
<1>4. CASE Tick
  <2>1. CallsInv'
    BY <1>0, <1>4 DEF Tick, CallsInv
  <2>2. TableGood'
    BY <1>0, <1>4, IdleKeepsGood DEF Tick
  <2>3. Joined'
    BY <1>0, <1>4 DEF Tick, Joined, JoinedBeforeUse, past_init
  <2> QED
    BY <2>1, <2>2, <2>3 DEF Inv
<1>5. ASSUME NEW c \in Call, Start(c) PROVE Inv'
  <2> DEFINE p == IF initialized THEN "ready" ELSE "resolving"
  <2>1. /\ call[c].pc = "idle" /\ Go(c, p) /\ sent' = sent /\ UNCHANGED tableVars
        /\ joined' = joined /\ initialized' = initialized
    BY <1>5 DEF Start
  <2>2. p \in {"resolving", "ready"} /\ (p = "ready" => initialized)
    OBVIOUS
  <2> HIDE DEF p
  <2>3. CallsInv' /\ call'[c].pc = p
    BY <1>0, <2>1, <2>2, Moves
  <2>4. \A d \in Call : d # c => call'[d] = call[d]
    BY <1>0, <2>1 DEF Go, CallsInv
  <2>5. Joined'
    BY <1>0, <2>1, <2>2, <2>3, <2>4 DEF Joined, JoinedBeforeUse, past_init
  <2> QED
    BY <1>3, <2>1, <2>3, <2>5 DEF Inv
<1>6. ASSUME NEW c \in Call, NEW resolved \in SUBSET (DOMAIN bootstrap_nodes),
             NEW id \in [DOMAIN bootstrap_nodes -> RandomIds], Join(c, resolved, id)
      PROVE  Inv'
  <2>1. /\ call[c].pc = "resolving" /\ Go(c, "ready") /\ sent' = sent /\ joined' # {}
    BY <1>6 DEF Join, Resolved
  <2>2. CallsInv'
    BY <1>0, <2>1, Moves
  <2>3. TableGood'
    BY <1>0, <1>6, JoinKeepsGood
  <2> QED
    BY <2>1, <2>2, <2>3 DEF Inv, Joined, JoinedBeforeUse
<1>7. ASSUME NEW c \in Call, Round(c) PROVE Inv'
  <2>1. /\ call[c].pc = "ready" /\ UNCHANGED <<tableVars, initialized, joined>>
    BY <1>7 DEF Round, Send
  <2>2. CallsInv'
    BY <1>0, <1>7, RoundKeeps
  <2> QED
    BY <1>1, <1>3, <2>1, <2>2 DEF Inv
<1>8. ASSUME NEW c \in Call, Learn(c) PROVE Inv'
  <2>1. call[c].pc = "await" /\ joined' = joined /\ initialized' = initialized
    BY <1>8 DEF Learn, TakeListed, Turn
  <2> QED
    BY <1>0, <1>1, <1>8, <2>1, LearnKeeps DEF Inv
<1>9. ASSUME NEW c \in Call, Success(c) PROVE Inv'
  <2>1. call[c].pc = "await" /\ joined' = joined /\ initialized' = initialized
    BY <1>9 DEF Success, TakeAnswer, Turn
  <2> QED
    BY <1>0, <1>1, <1>9, <2>1, SuccessKeeps DEF Inv
<1>10. ASSUME NEW c \in Call, Failure(c) PROVE Inv'
  <2>1. call[c].pc = "await" /\ joined' = joined /\ initialized' = initialized
    BY <1>10 DEF Failure, TakeFailure, Turn
  <2> QED
    BY <1>0, <1>1, <1>10, <2>1, FailureKeeps DEF Inv
<1>11. ASSUME NEW c \in Call, AskForTokens(c) PROVE Inv'
  <2>1. /\ call[c].pc = "ready" /\ UNCHANGED <<tableVars, initialized, joined>>
    BY <1>11 DEF AskForTokens, Send
  <2>2. CallsInv'
    BY <1>0, <1>11, AskForTokensKeeps
  <2> QED
    BY <1>1, <1>3, <2>1, <2>2 DEF Inv
<1>12. ASSUME NEW c \in Call, SendAnnounce(c) PROVE Inv'
  <2>1. /\ call[c].pc = "await" /\ UNCHANGED <<tableVars, initialized, joined>>
    BY <1>12 DEF SendAnnounce, Turn
  <2>2. CallsInv'
    BY <1>0, <1>12, SendAnnounceKeeps
  <2> QED
    BY <1>1, <1>3, <2>1, <2>2 DEF Inv
<1>13. ASSUME NEW c \in Call, NEW i \in Requests(c), NEW q \in call[c].asked,
              NEW answer \in Answers(c, q[2]), Receive(c, i, q, answer)
       PROVE  Inv'
  <2>1. UNCHANGED <<tableVars, initialized, joined>>
    BY <1>13 DEF Receive
  <2>2. CallsInv' /\ call'[c].pc = call[c].pc
    BY <1>0, <1>13, ReceiveKeeps
  <2>3. call' = [call EXCEPT ![c] = call'[c]]
    BY <1>0, <1>13 DEF Receive, CallsInv
  <2> QED
    BY <1>2, <1>3, <2>1, <2>2, <2>3 DEF Inv
<1>14. ASSUME NEW c \in Call, NEW i \in Requests(c), GiveUp(c, i) PROVE Inv'
  <2>1. UNCHANGED <<tableVars, initialized, joined>>
    BY <1>14 DEF GiveUp
  <2>2. CallsInv' /\ call'[c].pc = call[c].pc
    BY <1>0, <1>14, GiveUpKeeps
  <2>3. call' = [call EXCEPT ![c] = call'[c]]
    BY <1>0, <1>14 DEF GiveUp, CallsInv
  <2> QED
    BY <1>2, <1>3, <2>1, <2>2, <2>3 DEF Inv
<1>15. CASE UNCHANGED vars
  <2>1. CallsInv'
    BY <1>0, <1>15 DEF vars, CallsInv
  <2>2. Joined'
    BY <1>0, <1>15 DEF vars, Joined, JoinedBeforeUse, past_init
  <2> QED
    BY <1>3, <1>15, <2>1, <2>2 DEF Inv, vars
<1> QED
  BY <1>4, <1>5, <1>6, <1>7, <1>8, <1>9, <1>10, <1>11, <1>12, <1>13, <1>14, <1>15 DEF Next

LEMMA InvAlways == Spec => []Inv
  BY InvInit, InvNext, PTL DEF Spec

\* The table is fit for use: some call has put the bootstrap nodes into it before
\* a request reads it, and no address enters it by a lookup that BEP 42 refuses
\* (init, add_node and mark_node_success in client.rs).
THEOREM TableAlwaysReady == Spec => []TableReady
<1>1. Inv => TableReady
  BY DEF Inv, Joined, TableGood, TableReady
<1> QED
  BY <1>1, InvAlways, PTL

\* The table keeps its own promises to this caller, who in init inserts several
\* nodes under one lock: no bucket grows past K, holds an address twice or is out
\* of order, and the cached number of nodes errs upwards only.
THEOREM TableAlwaysGood == Spec => [](Table!BucketsWellFormed /\ Table!CountCoversNodes)
<1>1. Inv => Table!BucketsWellFormed /\ Table!CountCoversNodes
  BY SameTable, TableFacts!TableWellFormed DEF Inv, TableGood
<1> QED
  BY <1>1, InvAlways, PTL

\* However answers and requests are mixed up, each answer is good for at most one
\* announce_peer and each request ends in at most one (announce in client.rs).
THEOREM TokensAlwaysUsedOnce == Spec => []TokensUsedOnce
<1>1. Inv => TokensUsedOnce
  BY DEF Inv, CallsInv, CallInv, UsedOnce, TokensUsedOnce
<1> QED
  BY <1>1, InvAlways, PTL

\* Only its last round ends a lookup that is between two rounds.
LEMMA EndsByRound ==
  ASSUME Inv, [Next]_vars, NEW c \in Call, kind[c] = "lookup",
         call[c].pc = "ready", call'[c].pc = "done"
  PROVE  Round(c)
<1>1. call \in [Call -> Local]
  BY DEF Inv, CallsInv
<1>2. ASSUME NEW d \in Call, d # c, NEW l, call' = [call EXCEPT ![d] = l] PROVE FALSE
  BY <1>1, <1>2
<1>3. ASSUME NEW d \in Call, \E l : call' = [call EXCEPT ![d] = l] PROVE d = c
  BY <1>2, <1>3
<1>4. \A d \in Call : \A s : Turn(d, s) => call[d].pc = "await"
  BY DEF Turn
<1>5. CASE Tick \/ UNCHANGED vars
  BY <1>5 DEF Tick, vars
<1>6. ASSUME NEW d \in Call, Start(d) PROVE FALSE
  <2>1. call[d].pc = "idle" /\ \E l : call' = [call EXCEPT ![d] = l]
    BY <1>6 DEF Start, Go
  <2> QED
    BY <1>3, <2>1
<1>7. ASSUME NEW d \in Call, Resolved(d) PROVE FALSE
  <2>1. call[d].pc = "resolving" /\ \E l : call' = [call EXCEPT ![d] = l]
    BY <1>7 DEF Resolved, Go
  <2> QED
    BY <1>3, <2>1
<1>8. ASSUME NEW d \in Call, Round(d) PROVE d = c
  <2>1. PICK entries, l : Return(d) \/ Send(d, entries, l)
    BY <1>8, Zenon DEF Round
  <2>2. \E x : call' = [call EXCEPT ![d] = x]
    BY <2>1 DEF Return, Send
  <2> QED
    BY <1>3, <2>2
<1>9. ASSUME NEW d \in Call, TakeListed(d) PROVE FALSE
  <2>1. call[d].pc = "await" /\ \E l : call' = [call EXCEPT ![d] = l]
    BY <1>4, <1>9 DEF TakeListed
  <2> QED
    BY <1>3, <2>1
<1>10. ASSUME NEW d \in Call, call[d].pc = "await", NEW l, Pop(d, l) PROVE FALSE
  <2>1. \E x : call' = [call EXCEPT ![d] = x]
    BY <1>10, Zenon DEF Pop
  <2> QED
    BY <1>3, <1>10, <2>1
<1>11. ASSUME NEW d \in Call, AskForTokens(d) PROVE FALSE
  <2>1. PICK entries, l : Return(d) \/ Send(d, entries, l)
    BY <1>11, Zenon DEF AskForTokens
  <2>2. kind[d] = "announce" /\ \E x : call' = [call EXCEPT ![d] = x]
    BY <1>11, <2>1 DEF AskForTokens, Return, Send
  <2> QED
    BY <1>3, <2>2
<1>12. ASSUME NEW d \in Call, NEW i \in Requests(d),
              \/ GiveUp(d, i)
              \/ \E q \in call[d].asked : \E answer \in Answers(d, q[2]) : Receive(d, i, q, answer)
       PROVE  FALSE
  <2>1. call'[d].pc = call[d].pc
    BY <1>12, GiveUpKeeps, ReceiveKeeps DEF Inv
  <2>2. \E x : call' = [call EXCEPT ![d] = x]
    BY <1>12 DEF GiveUp, Receive
  <2> QED
    BY <1>3, <2>1, <2>2
<1> QED
  BY <1>4, <1>5, <1>6, <1>7, <1>8, <1>9, <1>10, <1>11, <1>12
     DEF Next, Join, Learn, Success, TakeAnswer, Failure, TakeFailure, SendAnnounce

\* A call that has sent requests waits for them.
LEMMA SentAwaits ==
  ASSUME CallsInv, NEW c \in Call, NEW entries, NEW l, "pc" \in DOMAIN l, Send(c, entries, l)
  PROVE  call'[c].pc = "await"
<1>1. PICK q, addrs, owed : call' = [call EXCEPT ![c] =
        [l EXCEPT !.pc = "await", !.requests = q, !.queried = addrs, !.asked = owed]]
  BY Zenon DEF Send
<1>2. ASSUME NEW x, x = [l EXCEPT !.pc = "await", !.requests = q, !.queried = addrs, !.asked = owed]
      PROVE  x.pc = "await"
  BY <1>2
<1>3. call'[c] = [l EXCEPT !.pc = "await", !.requests = q, !.queried = addrs, !.asked = owed]
  BY <1>1 DEF CallsInv
<1> QED
  BY <1>2, <1>3

\* What the end of a lookup means for a node that is nearer than all it noted.
LEMMA RoundEndsAtNearest ==
  ASSUME Inv, NEW c \in Call, Round(c), call'[c].pc = "done",
         call[c].round < max_query_rounds, NEW e \in Table!healthy_nodes,
         Table!distance_less(Table!xor_distance(e.id, infohash), call[c].closest_distance),
         e.addr \notin call[c].queried,
         NEW nodes, nodes = nearest_nodes(LookupWidth)
  PROVE  /\ Len(nodes) = LookupWidth
         /\ \A f \in ToSet(nodes) :
              /\ f.addr \in call[c].queried
              /\ ~Table!distance_less(Table!xor_distance(e.id, infohash),
                                      Table!xor_distance(f.id, infohash))
<1> DEFINE d(x) == Table!xor_distance(x.id, infohash)
           entries == to_query(c, nodes)
<1>0. call[c] \in Local /\ call[c].closest_distance \in Bits
  BY DEF Inv, CallsInv, Local
<1>1. /\ nodes \in Seq(TableFacts!Node)
      /\ \A i \in 1..Len(nodes) : nodes[i] \in Table!healthy_nodes /\ nodes[i].id \in Bits
      /\ \A j, k \in 1..Len(nodes) : j < k => ~Table!distance_less(d(nodes[k]), d(nodes[j]))
      /\ \A f \in Table!healthy_nodes \ ToSet(nodes), g \in ToSet(nodes) :
           ~Table!distance_less(d(f), d(g))
      /\ Len(nodes) = LookupWidth \/ Table!healthy_nodes = ToSet(nodes)
  BY DhtClientAssumption, Nearest DEF Inv, TableGood
<1>2. Len(nodes) \in Nat /\ ToSet(nodes) = {nodes[i] : i \in 1..Len(nodes)}
  BY <1>1, LenProperties DEF ToSet
<1>3. /\ entries \in Seq(TableFacts!Node)
      /\ entries = <<>> => \A j \in 1..Len(nodes) : nodes[j].addr \in call[c].queried
      /\ entries # <<>> => \E j \in 1..Len(nodes) :
           /\ entries[1] = nodes[j]
           /\ \A i \in 1..Len(nodes) : i < j => nodes[i].addr \in call[c].queried
  BY <1>1, FirstUnasked
<1>4. entries = <<>> \/ ~nearer(c, d(entries[1]))
  <2> HIDE DEF entries
  <2> DEFINE dist == Table!xor_distance(entries[1].id, infohash)
             stale == IF nearer(c, dist) THEN 0 ELSE call[c].stale + 1
             closest == IF nearer(c, dist) THEN dist ELSE call[c].closest_distance
             local == [call[c] EXCEPT !.round = @ + 1, !.stale = stale, !.closest_distance = closest]
  <2>1. \/ call[c].round = max_query_rounds
        \/ entries = <<>>
        \/ stale >= 2
        \/ Send(c, entries, local)
    BY Zenon DEF Round, entries
  <2>2. ~Send(c, entries, local)
    <3> HIDE DEF stale, closest
    <3>1. "pc" \in DOMAIN call[c]
      BY <1>0 DEF Local
    <3>2. "pc" \in DOMAIN local
      BY <3>1
    <3> HIDE DEF local
    <3> QED
      BY <3>2, SentAwaits DEF Inv
  <2>3. call[c].round # max_query_rounds
    BY <1>0, DhtClientAssumption DEF Local
  <2> QED
    BY <2>1, <2>2, <2>3
<1> HIDE DEF entries
<1>5. CASE entries = <<>>
  <2>1. \A f \in ToSet(nodes) : f.addr \in call[c].queried
    BY <1>2, <1>3, <1>5
  <2>2. e \notin ToSet(nodes)
    BY <2>1
  <2> QED
    BY <1>1, <2>1, <2>2
<1>6. CASE entries # <<>>
  <2>1. PICK j \in 1..Len(nodes) :
          /\ entries[1] = nodes[j]
          /\ \A i \in 1..Len(nodes) : i < j => nodes[i].addr \in call[c].queried
    BY <1>3, <1>6
  <2>2. ~Table!distance_less(d(nodes[j]), call[c].closest_distance)
    BY <1>4, <1>6, <2>1 DEF nearer
  <2>3. nodes[j] \in ToSet(nodes) /\ nodes[j].id \in Bits
    BY <1>1, <1>2
  <2>4. ~Table!distance_less(d(e), d(nodes[j]))
    <3>1. CASE e \notin ToSet(nodes)
      BY <1>1, <2>3, <3>1
    <3>2. CASE e \in ToSet(nodes)
      <4>1. PICK i \in 1..Len(nodes) : e = nodes[i]
        BY <1>2, <3>2
      <4>2. ~(i < j)
        BY <2>1, <4>1
      <4>3. CASE i = j
        <5>1. d(nodes[j]) \in Bits
          BY <2>3, DistanceBits
        <5> QED
          BY <4>1, <4>3, <5>1, LessIsOrder
      <4>4. CASE j < i
        BY <1>1, <4>1, <4>4
      <4> QED
        BY <1>2, <4>2, <4>3, <4>4
    <3> QED
      BY <3>1, <3>2
  <2>5. e.id \in Bits
    BY HealthyIds DEF Inv, TableGood
  <2>6. d(e) \in Bits /\ d(nodes[j]) \in Bits
    BY <2>3, <2>5, DistanceBits
  <2> HIDE DEF d
  <2> QED
    BY <1>0, <2>2, <2>4, <2>6, LessIsOrder DEF d
<1> QED
  BY <1>5, <1>6

\* A lookup that ends on its own account has asked every healthy node that is
\* nearer to the infohash than the nearest one it noted, or all the LookupWidth
\* nearest, none of which is farther (discover_peers in client.rs).
THEOREM LookupEndsAtNearest == Spec => EndsAtNearest
<1> DEFINE Step == \A c \in Call, e \in Table!healthy_nodes :
       ( /\ kind[c] = "lookup"
         /\ call[c].pc = "ready" /\ call'[c].pc = "done"
         /\ call[c].round < max_query_rounds
         /\ Table!distance_less(Table!xor_distance(e.id, infohash), call[c].closest_distance) )
       => \/ e.addr \in call[c].queried
          \/ \E nodes \in {nearest_nodes(LookupWidth)} :
               /\ Len(nodes) = LookupWidth
               /\ \A f \in ToSet(nodes) :
                    /\ f.addr \in call[c].queried
                    /\ ~Table!distance_less(Table!xor_distance(e.id, infohash),
                                            Table!xor_distance(f.id, infohash))
<1>1. Inv /\ [Next]_vars => [Step]_vars
  BY EndsByRound, RoundEndsAtNearest
<1>2. EndsAtNearest <=> [][Step]_vars
  BY DEF EndsAtNearest
<1> QED
  BY <1>1, <1>2, InvAlways, PTL DEF Spec

=============================================================================
