---------------------------- MODULE RoutingTable ----------------------------
(***************************************************************************)
(* The Kademlia k-bucket routing table of src/discoverers/dht/             *)
(* routing_table.rs: a list of buckets, each a list of entries kept in     *)
(* ascending order of last_seen, and a cached number of nodes.             *)
(*                                                                         *)
(* Every operation runs under one write lock (parking_lot::RwLock), so one *)
(* operation is one action. Node ids keep their bits, because the buckets  *)
(* and find_closest are about bits; addresses are opaque. Sequences start  *)
(* at 1: bucket 0 of the code is buckets[1].                               *)
(***************************************************************************)
EXTENDS Integers, FiniteSets, SequencesExt

CONSTANTS
  IdBits,       \* length of a node id (160)
  own_id,       \* the id of this node
  Nodes,        \* the <<id, addr>> pairs the callers insert
  K,            \* entries per bucket (20)
  MaxBuckets,   \* MAX_BUCKETS (160)
  NodeTTL,      \* NODE_TTL_SECS (3600)
  MaxFailures,  \* MAX_FAILURES (3)
  U8Max,        \* where the u8 failure counter saturates (255)
  RefreshAge,   \* age at which refresh_candidates pings a node (300)
  MaxTime,      \* bound of the clock
  MaxTotal      \* bound of total_nodes, which repeated inserts make grow

Bits == [1..IdBits -> {0, 1}]
Id == {n[1] : n \in Nodes}
Addr == {n[2] : n \in Nodes}

ASSUME RoutingTableAssumption ==
  /\ IdBits \in Nat \ {0} /\ own_id \in Bits /\ Id \subseteq Bits
  /\ K \in Nat \ {0} /\ MaxBuckets \in 1..IdBits
  /\ NodeTTL \in Nat /\ RefreshAge \in Nat /\ MaxTime \in Nat /\ MaxTotal \in Nat
  /\ MaxFailures \in 1..U8Max /\ U8Max \in Nat

VARIABLES
  buckets,      \* sequence of [prefix_len, entries]
  total_nodes,  \* the cached count len() returns
  now           \* seconds since the table was created

vars == <<buckets, total_nodes, now>>

Entry == [id : Id, addr : Addr, last_seen : 0..MaxTime, failures : 0..U8Max]

-----------------------------------------------------------------------------
(* Distances between ids.                                                  *)

xor_distance(a, b) == [i \in 1..IdBits |-> (a[i] + b[i]) % 2]

distance_less(a, b) ==
  \E i \in 1..IdBits : a[i] < b[i] /\ \A j \in 1..(i-1) : a[j] = b[j]

common_prefix_len(a, b) ==
  LET dist == xor_distance(a, b)
  IN  CHOOSE n \in 0..IdBits : /\ \A j \in 1..n : dist[j] = 0
                               /\ n < IdBits => dist[n+1] = 1

-----------------------------------------------------------------------------
(* Entries and one bucket.                                                 *)

is_healthy(e) == e.failures < MaxFailures

\* The subtraction saturates at 0, so a clock behind last_seen is no expiry.
is_expired(e, t) == t - e.last_seen > NodeTTL

\* The members of S in an order: before[x] are those that come before x, and
\* as many as they are tell its place.
listing(S, before) ==
  [k \in 1..Cardinality(S) |-> CHOOSE x \in S : Cardinality(before[x]) = k - 1]

\* Vec::sort_by_key is stable: equal keys keep their order.
sort_by_last_seen(s) ==
  LET key(i) == s[i].last_seen
      before == [j \in DOMAIN s |-> {i \in DOMAIN s : \/ key(i) < key(j)
                                                      \/ key(i) = key(j) /\ i < j}]
      order == listing(DOMAIN s, before)
  IN  [k \in DOMAIN s |-> s[order[k]]]

\* Vec::retain: what is at the places in keep, in its order.
retain(s, keep) ==
  LET order == listing(keep, [j \in keep |-> {i \in keep : i < j}])
  IN  [k \in DOMAIN order |-> s[order[k]]]

bucket_find(b, addr) == SelectInSeq(b.entries, LAMBDA e : e.addr = addr)

\* Planted fault: a full bucket gives up its first entry, live or not.
slot_displaces(b, entry) ==
  IF bucket_find(b, entry.addr) # 0 THEN bucket_find(b, entry.addr)
  ELSE IF Len(b.entries) < K THEN Len(b.entries) + 1 ELSE 1

\* The place KBucket::insert writes the entry to: over the entry of the same
\* address, else at the end while there is room, else over the first entry
\* that is unhealthy or expired; 0 when the bucket refuses it.
slot(b, entry) ==
  IF bucket_find(b, entry.addr) # 0 THEN bucket_find(b, entry.addr)
  ELSE IF Len(b.entries) < K THEN Len(b.entries) + 1
  ELSE SelectInSeq(b.entries,
                   LAMBDA e : ~is_healthy(e) \/ is_expired(e, entry.last_seen))

\* KBucket::insert on a bucket that does not refuse the entry.
bucket_insert(b, entry) ==
  LET i == slot(b, entry)
      written == IF i > Len(b.entries) THEN Append(b.entries, entry)
                                       ELSE ReplaceAt(b.entries, i, entry)
  IN  [b EXCEPT !.entries = sort_by_last_seen(written)]

\* Planted fault: touch forgets to sort.
bucket_touch_unsorted(b, addr) ==
  LET i == bucket_find(b, addr)
  IN  [b EXCEPT !.entries[i].last_seen = now, !.entries[i].failures = 0]

bucket_touch(b, addr) ==
  LET i == bucket_find(b, addr)
  IN  [b EXCEPT !.entries = sort_by_last_seen(
         [@ EXCEPT ![i].last_seen = now, ![i].failures = 0])]

bucket_mark_failed(b, addr) ==
  LET i == bucket_find(b, addr)
  IN  [b EXCEPT !.entries[i].failures = Min({@ + 1, U8Max})]

bucket_evict(b) ==
  LET alive == {i \in DOMAIN b.entries :
                  is_healthy(b.entries[i]) /\ ~is_expired(b.entries[i], now)}
  IN  [b EXCEPT !.entries = retain(@, alive)]

-----------------------------------------------------------------------------
(* The table: which bucket, and the split of a full one.                   *)

bucket_contains(b, target) ==
  b.prefix_len = 0 \/ common_prefix_len(own_id, target) >= b.prefix_len

\* The first bucket that contains the target, else bucket 0 of the code.
find_bucket(bs, target) ==
  LET i == SelectInSeq(bs, LAMBDA b :
             /\ b.prefix_len <= common_prefix_len(own_id, target)
             /\ bucket_contains(b, target))
  IN  IF i = 0 THEN 1 ELSE i

\* Both halves get the longer prefix: the new bucket takes the entries near
\* own_id, the old one stays in its place with the others.
split_bucket(bs, i) ==
  LET new_prefix == bs[i].prefix_len + 1
      s == bs[i].entries
      near == {j \in DOMAIN s : common_prefix_len(own_id, s[j].id) >= new_prefix}
      half(part) == [prefix_len |-> new_prefix, entries |-> retain(s, part)]
      old == ReplaceAt(bs, i, half(DOMAIN s \ near))
      pos == SelectInSeq(old, LAMBDA b : b.prefix_len > new_prefix)
  IN  IF ~bucket_contains(bs[i], own_id) \/ bs[i].prefix_len >= MaxBuckets - 1
      THEN bs
      ELSE InsertAt(old, IF pos = 0 THEN Len(old) + 1 ELSE pos, half(near))

\* One attempt of insert_entry on the buckets bs.
attempt(bs, entry) ==
  LET i == find_bucket(bs, entry.id)
      ok == slot(bs[i], entry) # 0
  IN  [ok |-> ok,
       buckets |-> IF ok THEN ReplaceAt(bs, i, bucket_insert(bs[i], entry)) ELSE bs]

\* insert_entry: try, and if the bucket refuses, split it and try once more.
insert_entry(bs, entry) ==
  LET i == find_bucket(bs, entry.id)
      first == attempt(bs, entry)
  IN  IF first.ok \/ ~bucket_contains(bs[i], own_id) THEN first
      ELSE attempt(split_bucket(bs, i), entry)

\* What insert makes of an id and an address: an entry heard of just now.
new_entry(id, addr) == [id |-> id, addr |-> addr, last_seen |-> now, failures |-> 0]

-----------------------------------------------------------------------------
(* The operations.                                                         *)

Init ==
  /\ buckets = << [prefix_len |-> 0, entries |-> <<>>] >>
  /\ total_nodes = 0
  /\ now = 0

\* Planted fault: an insert that needed a split is not counted.
Insert_uncounted(id, addr) ==
  LET entry == new_entry(id, addr)
  IN  /\ total_nodes < MaxTotal
      /\ buckets' = insert_entry(buckets, entry).buckets
      /\ total_nodes' = IF attempt(buckets, entry).ok THEN total_nodes + 1 ELSE total_nodes
      /\ UNCHANGED now

Insert(id, addr) ==
  LET result == insert_entry(buckets, new_entry(id, addr))
  IN  /\ total_nodes < MaxTotal
      /\ buckets' = result.buckets
      /\ total_nodes' = IF result.ok THEN total_nodes + 1 ELSE total_nodes
      /\ UNCHANGED now

\* The first bucket that knows the address; 0 when none does.
holder(addr) == SelectInSeq(buckets, LAMBDA b : bucket_find(b, addr) # 0)

RemoveNode(addr) ==
  LET i == holder(addr) IN
  /\ i # 0
  /\ buckets' = [buckets EXCEPT ![i].entries = RemoveAt(@, bucket_find(buckets[i], addr))]
  /\ total_nodes' = Max({total_nodes - 1, 0})
  /\ UNCHANGED now

Touch(addr) ==
  LET i == holder(addr) IN
  /\ i # 0
  /\ buckets' = [buckets EXCEPT ![i] = bucket_touch(@, addr)]
  /\ UNCHANGED <<total_nodes, now>>

MarkFailed(addr) ==
  LET i == holder(addr) IN
  /\ i # 0
  /\ buckets' = [buckets EXCEPT ![i] = bucket_mark_failed(@, addr)]
  /\ UNCHANGED <<total_nodes, now>>

\* The places of the entries: bucket and index.
places(bs) == UNION {{i} \X (DOMAIN bs[i].entries) : i \in DOMAIN bs}

\* The order in which the buckets are gone through.
earlier(p, q) == \/ p[1] < q[1]
                 \/ p[1] = q[1] /\ p[2] < q[2]

node_count(bs) == Cardinality(places(bs))

EvictExpired ==
  LET kept == [i \in DOMAIN buckets |-> bucket_evict(buckets[i])]
      evicted == node_count(buckets) - node_count(kept)
  IN  /\ buckets' = kept
      /\ total_nodes' = Max({total_nodes - evicted, 0})
      /\ UNCHANGED now

Tick ==
  /\ now < MaxTime
  /\ now' = now + 1
  /\ UNCHANGED <<buckets, total_nodes>>

Next ==
  \/ \E n \in Nodes : Insert(n[1], n[2])
  \/ \E addr \in Addr : RemoveNode(addr) \/ Touch(addr) \/ MarkFailed(addr)
  \/ EvictExpired
  \/ Tick

Spec == Init /\ [][Next]_vars

-----------------------------------------------------------------------------
(* The queries.                                                            *)

entry_at(p) == buckets[p[1]].entries[p[2]]

healthy_places == {p \in places(buckets) : is_healthy(entry_at(p))}

\* Without their order, on which no caller depends.
all_nodes == {entry_at(p) : p \in places(buckets)}
healthy_nodes == {entry_at(p) : p \in healthy_places}

\* Planted fault: the list is cut before it is sorted.
find_closest_cut_first(target, count) ==
  LET S == healthy_places
      order == listing(S, [q \in S |-> {p \in S : earlier(p, q)}])
  IN  SubSeq([k \in DOMAIN order |-> entry_at(order[k])], 1, Min({count, Len(order)}))

\* The comparison of the code knows no equality, but the sort only asks what is
\* less and is stable: equal distances keep the order of the buckets.
find_closest(target, count) ==
  LET S == healthy_places
      d(p) == xor_distance(entry_at(p).id, target)
      before == [q \in S |-> {p \in S : \/ distance_less(d(p), d(q))
                                        \/ d(p) = d(q) /\ earlier(p, q)}]
      order == listing(S, before)
  IN  SubSeq([k \in DOMAIN order |-> entry_at(order[k])], 1, Min({count, Len(order)}))

\* Per bucket, the first healthy entry not heard of for RefreshAge.
refresh_candidates ==
  LET due(b) == SelectInSeq(b.entries, LAMBDA e :
                  is_healthy(e) /\ now - e.last_seen > RefreshAge)
  IN  {b.entries[due(b)].addr : b \in {c \in ToSet(buckets) : due(c) # 0}}

-----------------------------------------------------------------------------
(* Properties.                                                             *)

\* No bucket grows past K, none holds an address twice, and its entries are
\* in ascending order of last_seen, through inserts, touches, failures and
\* splits (KBucket: "按 last_seen 升序").
BucketsWellFormed ==
  \A i \in DOMAIN buckets :
    LET s == buckets[i].entries IN
    /\ Len(s) <= K
    /\ \A j, k \in DOMAIN s :
         j < k => s[j].last_seen <= s[k].last_seen /\ s[j].addr # s[k].addr

\* The list of buckets is sorted by prefix_len (RoutingTable: "按 prefix_len
\* 排序", split_bucket: "保持按 prefix_len 排序"). It is not: split_bucket makes
\* the prefix of the bucket in place longer and moves only the new one.
BucketsSorted ==
  \A i, j \in DOMAIN buckets : i < j => buckets[i].prefix_len <= buckets[j].prefix_len

\* The cached count errs upwards only: is_empty() never hides a node, and
\* the saturating subtractions of remove and evict_expired never saturate.
CountCoversNodes == total_nodes >= node_count(buckets)

\* find_closest returns as many healthy entries as it can, and leaves out no
\* healthy entry that is nearer to the target than one it returns.
FindClosestNearest ==
  \A target \in Id, count \in 1..K :
    LET r == find_closest(target, count)
        d(e) == xor_distance(e.id, target)
    IN  /\ Len(r) = Min({count, Cardinality(healthy_places)})
        /\ ToSet(r) \subseteq healthy_nodes
        /\ \A e \in healthy_nodes \ ToSet(r), f \in ToSet(r) : ~distance_less(d(e), d(f))

entries_of(addr) == {e \in all_nodes : e.addr = addr}

\* A node that answers is never displaced: an address leaves the table only by
\* remove, or when each of its entries was unhealthy or expired. Inserts into
\* full buckets and splits lose nobody else.
LiveNodeKept ==
  [][\A addr \in Addr :
       entries_of(addr) # {} /\ entries_of(addr)' = {} =>
         \/ RemoveNode(addr)
         \/ \A e \in entries_of(addr) : ~is_healthy(e) \/ is_expired(e, now)]_vars

=============================================================================
