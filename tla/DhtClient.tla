----------------------------- MODULE DhtClient -----------------------------
(***************************************************************************)
(* The DHT discoverer of src/discoverers/dht/client.rs: calls of           *)
(* discover_peers (an iterative Kademlia lookup) and of announce, over one *)
(* routing table that the first call fills with the bootstrap nodes.       *)
(*                                                                         *)
(* A call has a socket of its own, shared by its requests: each request    *)
(* takes the next packet that comes, whoever it is from and whichever      *)
(* request it answers. Packets may be lost, late by rounds and reordered.  *)
(* Each lock of the table is one action. A call is for one infohash, and   *)
(* all of them for the same one. The store and the tokens the discoverer   *)
(* also owns are used by no call, and maintenance is called by nothing. An *)
(* announce of a stop does nothing and is no call here.                    *)
(***************************************************************************)
EXTENDS Integers, Sequences, FiniteSets, SequencesExt

CONSTANTS
  Call, kind,          \* calls, and "lookup" or "announce" for each of them
  infohash,            \* the target, an id
  bootstrap_nodes,     \* sequence of addresses
  Remote,              \* the other addresses
  real_id,             \* the id each address answers with
  Contacts,            \* the <<id, addr>> pairs answers may list
  RandomIds,           \* ids that may be drawn for a bootstrap node
  Verified,            \* the <<id, addr>> pairs that satisfy BEP 42
  Peer, limit,
  max_concurrent_requests, max_query_rounds,
  LookupWidth, AnnounceWidth,                       \* 20 and 5
  IdBits, own_id, K, MaxBuckets, NodeTTL,           \* routing table
  MaxFailures, U8Max, RefreshAge, MaxTime, MaxTotal

Bootstrap == ToSet(bootstrap_nodes)
Addr == Bootstrap \cup Remote

Bits == [1..IdBits -> {0, 1}]

ASSUME DhtClientAssumption ==
  /\ kind \in [Call -> {"lookup", "announce"}]
  /\ bootstrap_nodes \in Seq(Bootstrap)
  /\ infohash \in Bits /\ real_id \in [Addr -> Bits]
  /\ RandomIds \subseteq Bits /\ Contacts \subseteq Bits \X Addr
  /\ {limit, max_concurrent_requests, max_query_rounds, AnnounceWidth, LookupWidth} \subseteq Nat \ {0}

VARIABLES
  buckets, total_nodes, now,   \* the routing table
  initialized,
  joined,    \* history: the calls that have run init to its end
  call,      \* per call: where it is and its local variables
  sent       \* per call: the announce_peer messages sent

tableVars == <<buckets, total_nodes, now>>
vars == <<tableVars, initialized, joined, call, sent>>

\* What calls put into the table: bootstrap nodes, listed nodes, and nodes that
\* were asked, under the id of whoever answered.
KnownNodes == Contacts \cup (RandomIds \X Bootstrap)
              \cup {<<real_id[b], a>> : a, b \in Addr}
              \cup {<<[i \in 1..IdBits |-> 0], a>> : a \in Addr}

Table == INSTANCE RoutingTable WITH Nodes <- KnownNodes

ASSUME TableAssumption == Table!RoutingTableAssumption

zero_id == [i \in 1..IdBits |-> 0]
far == [i \in 1..IdBits |-> 1]

\* A request: its round and place in it, its node, and, once it took an answer,
\* that answer and the request that brought it.
request(n, addr) == [n |-> n, addr |-> addr, state |-> "waiting"]

\* The local variables of a call; asked are the requests whose answer it has not
\* taken, as <<n, addr>>: under way, in its socket, or lost.
new_call == [pc |-> "idle", round |-> 0, queried |-> {}, closest_distance |-> far,
             stale |-> 0, requests |-> <<>>, all_peers |-> {}, asked |-> {}]

Init ==
  /\ Table!Init
  /\ initialized = FALSE
  /\ joined = {}
  /\ call = [c \in Call |-> new_call]
  /\ sent = [c \in Call |-> {}]

Go(c, pc) == call' = [call EXCEPT ![c].pc = pc]

\* A call that returns drops its socket and its local variables.
returned == [new_call EXCEPT !.pc = "done"]
Return(c) == call' = [call EXCEPT ![c] = returned]

-----------------------------------------------------------------------------
(* init                                                                    *)

\* Planted fault: the flag is set before the bootstrap nodes are there.
Start_flag_first(c) ==
  /\ call[c].pc = "idle"
  /\ Go(c, IF initialized THEN "ready" ELSE "resolving")
  /\ initialized' = TRUE
  /\ UNCHANGED <<tableVars, joined, sent>>

Start(c) ==
  /\ call[c].pc = "idle"
  /\ Go(c, IF initialized THEN "ready" ELSE "resolving")
  /\ UNCHANGED <<tableVars, initialized, joined, sent>>

\* The lookups of the host names are over.
Resolved(c) == call[c].pc = "resolving" /\ Go(c, "ready")

\* The table with the n-th address of the bootstrap in it.
added(table, n, id) ==
  LET r == Table!insert_entry(table.buckets, Table!new_entry(id[n], bootstrap_nodes[n]))
  IN  [buckets |-> r.buckets, count |-> IF r.ok THEN table.count + 1 ELSE table.count]

\* The table with those of the first addresses in it that were resolved.
bootstrapped(resolved, id) ==
  LET table[n \in 0..Len(bootstrap_nodes)] ==
        IF n = 0 THEN [buckets |-> buckets, count |-> total_nodes]
        ELSE IF n \in resolved THEN added(table[n-1], n, id) ELSE table[n-1]
  IN  table[Len(bootstrap_nodes)]

\* Some lookups may have failed; all addresses enter the table under one lock,
\* each with an id drawn at random. The flag follows at once: a call that would
\* read it in between does what one that read it before does.
Join(c, resolved, id) ==
  /\ Resolved(c)
  /\ buckets' = bootstrapped(resolved, id).buckets
  /\ total_nodes' = bootstrapped(resolved, id).count
  /\ initialized' = TRUE
  /\ joined' = joined \cup {c}
  /\ UNCHANGED <<now, sent>>

-----------------------------------------------------------------------------
(* The requests of a call and the network.                                 *)

nearest_nodes(count) == Table!find_closest(infohash, count)

\* The requests for the entries, sent at once. (A send that fails is a request
\* that nobody answers.)
Send(c, entries, local) ==
  LET requests == [i \in DOMAIN entries |-> request(<<local.round, i>>, entries[i].addr)]
  IN  /\ call' = [call EXCEPT ![c] = [local EXCEPT !.pc = "await", !.requests = requests,
                                       !.queried = @ \cup {r.addr : r \in ToSet(requests)},
                                       !.asked = @ \cup {<<r.n, r.addr>> : r \in ToSet(requests)}]]
      /\ UNCHANGED <<tableVars, initialized, joined, sent>>

\* What a node may answer: its id, peers, other nodes and a token, or something
\* parse_get_peers_response makes nothing of. It lists at most one contact;
\* peers and nodes are left out of the answers to an announce, which reads the
\* token only.
Answers(c, from) ==
  LET lookup == kind[c] = "lookup" IN
  [from : {from}, id : {real_id[from]}, token : {TRUE},
   peers : IF lookup THEN SUBSET Peer ELSE {{}},
   nodes : {<<>>} \cup {<<n>> : n \in IF lookup THEN Contacts ELSE {}}]
  \cup {[from |-> from, id |-> zero_id, token |-> FALSE, peers |-> {}, nodes |-> <<>>]}

\* The request i with the answer that the request q brought.
answered(c, i, q, answer) ==
  LET r == call[c].requests[i]
  IN  [n |-> r.n, addr |-> r.addr, state |-> "answered", query |-> q, answer |-> answer]

\* Planted fault: the answer stays in the socket after it was taken.
Receive_again(c, i, q, answer) ==
  /\ call[c].requests[i].state = "waiting"
  /\ q \in call[c].asked /\ answer.from = q[2]
  /\ call' = [call EXCEPT ![c].requests[i] = answered(c, i, q, answer)]
  /\ UNCHANGED <<tableVars, initialized, joined, sent>>

\* recv_from of a request that waits takes an answer of any node the call has
\* asked, in this round or in an earlier one. (When the answer came into the
\* socket makes no difference.)
Receive(c, i, q, answer) ==
  /\ call[c].requests[i].state = "waiting"
  /\ q \in call[c].asked /\ answer.from = q[2]
  /\ call' = [call EXCEPT ![c].asked = @ \ {q}, ![c].requests[i] = answered(c, i, q, answer)]
  /\ UNCHANGED <<tableVars, initialized, joined, sent>>

\* Planted fault: a request whose node owes an answer waits for it for ever.
GiveUp_never(c, i) ==
  /\ call[c].requests[i].state = "waiting"
  /\ call[c].requests[i].addr \notin {q[2] : q \in call[c].asked}
  /\ call' = [call EXCEPT ![c].requests[i].state = "failed"]
  /\ UNCHANGED <<tableVars, initialized, joined, sent>>

\* request_timeout, or an error of the socket.
GiveUp(c, i) ==
  /\ call[c].requests[i].state = "waiting"
  /\ call' = [call EXCEPT ![c].requests[i].state = "failed"]
  /\ UNCHANGED <<tableVars, initialized, joined, sent>>

\* The call waits for its requests in the order it made them.
Turn(c, state) ==
  /\ call[c].pc = "await"
  /\ call[c].requests[1].state = state

\* After the last request of a round: the next round, or the end.
Pop(c, local) ==
  LET left == Tail(local.requests)
      enough == kind[c] = "announce" \/ Cardinality(local.all_peers) >= limit
  IN  call' = [call EXCEPT ![c] =
        IF left = <<>> /\ enough THEN returned
        ELSE [local EXCEPT !.requests = left, !.pc = IF left = <<>> THEN "ready" ELSE "await"]]

-----------------------------------------------------------------------------
(* discover_peers                                                          *)

\* Of the nodes the first that have not been asked.
to_query(c, nodes) ==
  LET fresh == Table!retain(nodes, {i \in DOMAIN nodes : nodes[i].addr \notin call[c].queried})
  IN  SubSeq(fresh, 1, IF Len(fresh) < max_concurrent_requests
                       THEN Len(fresh) ELSE max_concurrent_requests)

\* Planted fault: the distances are swapped.
nearer_swapped(c, dist) == Table!distance_less(call[c].closest_distance, dist)

nearer(c, dist) == Table!distance_less(dist, call[c].closest_distance)

\* One round: ask the nearest nodes not asked yet. It is the end when there is
\* none, after max_query_rounds, or when for the second round in a row the
\* nearest of them is no nearer than the nearest so far.
Round(c) ==
  /\ kind[c] = "lookup"
  /\ call[c].pc = "ready"
  /\ \E nodes \in {nearest_nodes(LookupWidth)} : \E entries \in {to_query(c, nodes)} :
       LET dist == Table!xor_distance(entries[1].id, infohash)
           stale == IF nearer(c, dist) THEN 0 ELSE call[c].stale + 1
       IN  IF call[c].round = max_query_rounds \/ entries = <<>> \/ stale >= 2
           THEN Return(c) /\ UNCHANGED <<tableVars, initialized, joined, sent>>
           ELSE Send(c, entries, [call[c] EXCEPT !.round = @ + 1, !.stale = stale,
                                    !.closest_distance = IF nearer(c, dist) THEN dist ELSE @])

verify_node_id(id, addr) == <<id, addr>> \in Verified

\* The next node of the answer whose turn it is.
listed(c) == Head(call[c].requests[1].answer.nodes)

TakeListed(c) ==
  /\ kind[c] = "lookup" /\ Turn(c, "answered")
  /\ call[c].requests[1].answer.nodes # <<>>
  /\ call' = [call EXCEPT ![c].requests[1].answer.nodes = Tail(@)]

\* add_node, for a node that has not been asked.
Learn(c) ==
  /\ TakeListed(c)
  /\ IF listed(c)[2] \notin call[c].queried /\ verify_node_id(listed(c)[1], listed(c)[2])
     THEN Table!Insert(listed(c)[1], listed(c)[2]) ELSE UNCHANGED tableVars
  /\ UNCHANGED <<initialized, joined, sent>>

TakeAnswer(c) ==
  /\ kind[c] = "lookup" /\ Turn(c, "answered")
  /\ call[c].requests[1].answer.nodes = <<>>
  /\ Pop(c, [call[c] EXCEPT !.all_peers = @ \cup call[c].requests[1].answer.peers])

\* mark_node_success, for the node the request was sent to and with the id of
\* whoever answered.
Success(c) ==
  LET req == call[c].requests[1]
  IN  /\ TakeAnswer(c)
      /\ IF Table!holder(req.addr) # 0
         THEN Table!Touch(req.addr) ELSE Table!Insert(req.answer.id, req.addr)
      /\ UNCHANGED <<initialized, joined, sent>>

TakeFailure(c) ==
  /\ kind[c] = "lookup" /\ Turn(c, "failed")
  /\ Pop(c, call[c])

\* mark_node_failure
Failure(c) ==
  LET addr == call[c].requests[1].addr
  IN  /\ TakeFailure(c)
      /\ IF Table!holder(addr) # 0 THEN Table!MarkFailed(addr) ELSE UNCHANGED tableVars
      /\ UNCHANGED <<initialized, joined, sent>>

-----------------------------------------------------------------------------
(* announce                                                                *)

AskForTokens(c) ==
  /\ kind[c] = "announce"
  /\ call[c].pc = "ready"
  /\ \E nodes \in {nearest_nodes(AnnounceWidth)} :
       IF nodes = <<>>
       THEN Return(c) /\ UNCHANGED <<tableVars, initialized, joined, sent>>
       ELSE Send(c, nodes, call[c])

\* An answer with a token: announce_peer goes to the node the request was for.
\* A send that fails is left to the network to lose. (The answer to an
\* announce_peer has no token: a request that takes it is as good as failed.)
SendAnnounce(c) ==
  LET req == call[c].requests[1]
  IN  /\ kind[c] = "announce"
      /\ \/ /\ Turn(c, "answered")
            /\ sent' = [sent EXCEPT ![c] = IF req.answer.token
                          THEN @ \cup {[request |-> <<req.n, req.addr>>, query |-> req.query]} ELSE @]
         \/ Turn(c, "failed") /\ UNCHANGED sent
      /\ Pop(c, call[c])
      /\ UNCHANGED <<tableVars, initialized, joined>>

-----------------------------------------------------------------------------
Requests(c) == DOMAIN call[c].requests

Tick ==
  /\ now < MaxTime
  /\ now' = now + 1
  /\ UNCHANGED <<buckets, total_nodes, initialized, joined, call, sent>>

Next ==
  \/ Tick
  \/ \E c \in Call :
      \/ Start(c)
      \/ \E resolved \in SUBSET (DOMAIN bootstrap_nodes), id \in [DOMAIN bootstrap_nodes -> RandomIds] :
           Join(c, resolved, id)
      \/ Round(c) \/ Learn(c) \/ Success(c) \/ Failure(c)
      \/ AskForTokens(c) \/ SendAnnounce(c)
      \/ \E i \in Requests(c), q \in call[c].asked :
           \E answer \in Answers(c, q[2]) : Receive(c, i, q, answer)
      \/ \E i \in Requests(c) : GiveUp(c, i)

Spec == Init /\ [][Next]_vars

\* A call that has begun goes on, and its requests time out; nobody has to
\* answer. Of the steps that change the table the call's own part is named, for
\* the table's lock never keeps it from being taken.
Progress(c) ==
  \/ Resolved(c) \/ Round(c) \/ TakeListed(c) \/ TakeAnswer(c) \/ TakeFailure(c)
  \/ AskForTokens(c) \/ SendAnnounce(c)
  \/ \E i \in Requests(c) : GiveUp(c, i)

Fairness == \A c \in Call : WF_call(Progress(c))

FairSpec == Spec /\ Fairness

-----------------------------------------------------------------------------
past_init(c) == call[c].pc \in {"ready", "await", "done"}

\* No call looks into the table before some call has put the bootstrap nodes
\* there, although any number of first calls may resolve them side by side.
JoinedBeforeUse == (\E c \in Call : past_init(c)) => joined # {}

\* BEP 42: every address in the table is a bootstrap node or was listed under an
\* id that fits it. The id it is there with may be another one: a node that is
\* displaced while it is asked comes back by mark_node_success, unverified and
\* under the id of whoever answered.
EntriesVouched ==
  \A e \in Table!all_nodes : e.addr \in Bootstrap \/ \E n \in Verified : n[2] = e.addr

\* The table is fit for use: init has put a bootstrap node into it before a
\* request reads it, and no address enters by a lookup that BEP 42 refuses.
TableReady == JoinedBeforeUse /\ EntriesVouched

\* A lookup that ends on its own account has asked every healthy node of the
\* table that is nearer to the infohash than the nearest one it noted, or all
\* the LookupWidth nearest, none of which is farther.
EndsAtNearest ==
  [][\A c \in Call, e \in Table!healthy_nodes :
       ( /\ kind[c] = "lookup"
         /\ call[c].pc = "ready" /\ call'[c].pc = "done"
         /\ call[c].round < max_query_rounds
         /\ Table!distance_less(Table!xor_distance(e.id, infohash), call[c].closest_distance) )
       => \/ e.addr \in call[c].queried
          \/ \E nodes \in {nearest_nodes(LookupWidth)} :
               /\ Len(nodes) = LookupWidth
               /\ \A f \in ToSet(nodes) :
                    /\ f.addr \in call[c].queried
                    /\ ~Table!distance_less(Table!xor_distance(e.id, infohash),
                                            Table!xor_distance(f.id, infohash))]_vars

\* However answers and requests are mixed up, each answer is good for at most one
\* announce_peer, and each request ends in at most one: a node is announced to
\* no more often than it was asked, and its token presented no more often than
\* it answered.
TokensUsedOnce ==
  \A c \in Call : \A m, n \in sent[c] : m # n => m.query # n.query /\ m.request # n.request

\* Every call ends, whoever answers, lies or keeps silent: none is under way for
\* ever.
CallsEnd == \A c \in Call : []<>(call[c].pc \in {"idle", "done"})

=============================================================================
