-------------------------------- MODULE Krpc --------------------------------
(***************************************************************************)
(* The messages of the DHT, src/discoverers/dht/message.rs: bencode        *)
(* dictionaries that the program writes by hand, every key with its length *)
(* in front, and reads with a library. A node of this program, or another  *)
(* one, asks; the crawler hears the query, answers it, and the answer is   *)
(* read. What the crawler does besides is the subject of CrawlerNode.      *)
(***************************************************************************)
EXTENDS Integers, Sequences, SequencesExt

CONSTANTS
  V4Node, V6Node,   \* names of the nodes of the crawler's table, by family
  Target,           \* names of infohashes
  Port,             \* ports a peer announces
  MaxAnnounced      \* bound: peers announced in a behaviour

VARIABLES
  phase,        \* "idle", "asked", "ignored", "answered", "foreign", "read" or "refused"
  wire,         \* the message on its way
  asked,        \* what the query means
  heard,        \* what the crawler made of it: parse_query
  meant,        \* the nodes the crawler put in its answer
  read,         \* what the asking node made of the answer
  held_token,   \* the token last read, if any
  stored,       \* infohash |-> addresses the crawler has for it
  announcing,   \* history: what a query with the crawler's token announces
  announced     \* history: the same of the queries that reached the crawler

krpcVars == <<phase, wire, asked, heard, meant, read, held_token, stored, announcing, announced>>

-----------------------------------------------------------------------------
(***************************************************************************)
(* Byte strings are sequences of pairs of bytes: an id has ten of them, an *)
(* IPv4 address two, an IPv6 address eight, a port one.                    *)
(***************************************************************************)
units(what, name, n) == [k \in 1..n |-> <<what, name, k>>]
port_unit(n) == <<"port", "", n>>
zero_id == units("id", "0", 10)
id_of(name) == units("id", name, 10)
addr_of(name, n) == [v6 |-> name \in V6Node,
                     ip |-> units("ip", name, IF name \in V6Node THEN 8 ELSE 2),
                     port |-> port_unit(n)]
node_of(name) == [id |-> id_of(name), addr |-> addr_of(name, 1)]

crawler_id == id_of("crawler")
good_token == units("token", "good", 4)
old_token == units("token", "old", 4)

-----------------------------------------------------------------------------
(***************************************************************************)
(* Bencode. A text whose length is written wrong shifts all that follows:  *)
(* the message cannot be read.                                             *)
(***************************************************************************)
Bytes(b) == [kind |-> "bytes", v |-> b]
Number(i) == [kind |-> "int", v |-> i]
List(l) == [kind |-> "list", v |-> l]
Dict(d) == [kind |-> "dict", v |-> d]
Text(n, s) == [kind |-> IF Len(s) = n THEN "bytes" ELSE "?", v |-> s]
field(n, key, value) ==
  [key |-> IF Len(key) = n THEN key ELSE "?", value |-> value]

sound(d) == \A i \in DOMAIN d : d[i].key # "?" /\ d[i].value.kind # "?"

\* from_bytes and as_dict: the dictionary, if it can be read.
from_bytes(m) ==
  IF /\ sound(m)
     /\ \A i \in DOMAIN m : m[i].value.kind = "dict" => sound(m[i].value.v)
  THEN {m} ELSE {}

\* dict.get(key) with as_bytes, as_int, as_list or as_dict: an option.
get(d, key, kind) ==
  {d[i].value.v : i \in {j \in DOMAIN d : d[j].key = key /\ d[j].value.kind = kind}}

unwrap_or(option, default) ==
  IF option = {} THEN default ELSE CHOOSE x \in option : TRUE

query(args, q, tid) ==
  <<field(1, "a", Dict(args)), field(1, "q", q), field(1, "t", Bytes(tid)),
    field(1, "y", Text(1, "q"))>>

response(r, tid) ==
  <<field(1, "r", Dict(r)), field(1, "t", Bytes(tid)), field(1, "y", Text(1, "r"))>>

id_field(id) == field(2, "id", Bytes(id))

-----------------------------------------------------------------------------
\* Compact nodes and peers. A rest shorter than one of them is dropped.
chunks(data, n) == [k \in 1..(Len(data) \div n) |-> SubSeq(data, (k - 1) * n + 1, k * n)]

compact_addr(a) == a.ip \o <<a.port>>
compact(node) == node.id \o compact_addr(node.addr)

parse_compact_nodes(data) ==
  [k \in DOMAIN chunks(data, 13) |->
     LET c == chunks(data, 13)[k] IN
     [id |-> SubSeq(c, 1, 10), addr |-> [v6 |-> FALSE, ip |-> SubSeq(c, 11, 12), port |-> c[13]]]]

parse_compact_nodes6(data) ==
  [k \in DOMAIN chunks(data, 19) |->
     LET c == chunks(data, 19)[k] IN
     [id |-> SubSeq(c, 1, 10), addr |-> [v6 |-> TRUE, ip |-> SubSeq(c, 11, 18), port |-> c[19]]]]

parse_compact_peers(data) ==
  LET peer(c) == [v6 |-> FALSE, ip |-> SubSeq(c, 1, 2), port |-> c[3]]
      cs == chunks(data, 3)
  IN  SelectSeq([k \in DOMAIN cs |-> peer(cs[k])], LAMBDA a : a.port # port_unit(0))

FlatMap(Op(_), s) == FlattenSeq([i \in DOMAIN s |-> Op(s[i])])

-----------------------------------------------------------------------------
\* The queries.
build_ping(tid, id) == query(<<id_field(id)>>, Text(4, "ping"), tid)

build_get_peers(tid, id, info_hash) ==
  query(<<id_field(id), field(9, "info_hash", Bytes(info_hash))>>, Text(9, "get_peers"), tid)

\* Called by nobody: the length of its key is wrong.
build_find_node(tid, id, target) ==
  query(<<id_field(id), field(9, "target", Bytes(target))>>, Text(9, "find_node"), tid)

build_announce_peer(tid, id, info_hash, port, token) ==
  query(<<id_field(id), field(12, "implied_port", Number(0)),
          field(9, "info_hash", Bytes(info_hash)),
          field(4, "port", Number(port)), field(5, "token", Bytes(token))>>,
        Text(13, "announce_peer"), tid)

build_sample_infohashes(tid, id, target) ==
  query(<<id_field(id), field(6, "target", Bytes(target))>>, Text(17, "sample_infohashes"), tid)

methods == {"ping", "find_node", "get_peers", "announce_peer", "sample_infohashes"}

\* An info_hash of another length is ignored.
parse_query(data) ==
  UNION {
    {[tid |-> unwrap_or(get(d, "t", "bytes"), <<>>), method |-> q,
      infohash |-> {h \in UNION {get(a, "info_hash", "bytes") : a \in get(d, "a", "dict")} :
                      Len(h) = 10}] :
       q \in methods \cap get(d, "q", "bytes")} :
    d \in {x \in from_bytes(data) : "q" \in get(x, "y", "bytes")}}

id_or_zero(option) == unwrap_or({id \in option : Len(id) = 10}, zero_id)

\* The port is cut to sixteen bits.
parse_announce_peer(data) ==
  UNION {
    {[tid |-> unwrap_or(get(d, "t", "bytes"), <<>>),
      id |-> id_or_zero(get(a, "id", "bytes")),
      info_hash |-> id_or_zero(get(a, "info_hash", "bytes")),
      port |-> unwrap_or(get(a, "port", "int"), 0) % (2 ^ 16),
      token |-> unwrap_or(get(a, "token", "bytes"), <<>>),
      implied_port |-> unwrap_or(get(a, "implied_port", "int"), 0) # 0] :
       a \in get(d, "a", "dict")} :
    d \in {x \in from_bytes(data) :
             "q" \in get(x, "y", "bytes") /\ "announce_peer" \in get(x, "q", "bytes")}}

-----------------------------------------------------------------------------
\* The answers.
build_ping_response(tid, id) == response(<<id_field(id)>>, tid)

build_announce_peer_response(tid, id) == response(<<id_field(id)>>, tid)

build_find_node_response(tid, id) ==
  response(<<id_field(id), field(5, "nodes", Bytes(<<>>))>>, tid)

\* Planted fault: IPv6 nodes are put among the IPv4 nodes.
build_find_node_response_with_nodes_one_list(tid, id, nodes) ==
  response(<<id_field(id), field(5, "nodes", Bytes(FlatMap(compact, nodes)))>>, tid)

build_find_node_response_with_nodes(tid, id, nodes) ==
  LET v4 == FlatMap(compact, SelectSeq(nodes, LAMBDA n : ~n.addr.v6))
      v6 == FlatMap(compact, SelectSeq(nodes, LAMBDA n : n.addr.v6))
  IN  response(<<id_field(id), field(5, "nodes", Bytes(v4))>>
                 \o (IF v6 = <<>> THEN <<>> ELSE <<field(6, "nodes6", Bytes(v6))>>), tid)

\* Called by nobody: r is closed before the token, the message before t and y.
build_get_peers_response(tid, id, token) ==
  <<field(1, "r", Dict(<<id_field(id), field(5, "nodes", Bytes(<<>>))>>)),
    field(5, "token", Bytes(token))>>

\* IPv6 peers are left out; of an IPv6 node only the id is written.
build_get_peers_response_full(tid, id, token, peers, nodes) ==
  LET v4 == SelectSeq(peers, LAMBDA a : ~a.v6)
      short(n) == IF n.addr.v6 THEN n.id ELSE compact(n)
      found == IF peers # <<>>
               THEN field(6, "values", List([i \in DOMAIN v4 |-> compact_addr(v4[i])]))
               ELSE field(5, "nodes", Bytes(FlatMap(short, nodes)))
  IN  response(<<id_field(id), found, field(5, "token", Bytes(token))>>, tid)

build_sample_infohashes_response(tid, id, interval, num, samples) ==
  response(<<id_field(id), field(8, "interval", Number(interval)), field(3, "num", Number(num)),
             field(7, "samples", Bytes(samples))>>, tid)

build_error_response(tid, code, message) ==
  <<field(1, "e", List(<<code, message>>)), field(1, "t", Bytes(tid)), field(1, "y", Text(1, "e"))>>

-----------------------------------------------------------------------------
\* What the asking node reads. A transaction id is cut to two bytes.
two_bytes(t) == IF t # <<>> THEN SubSeq(t, 1, 1) ELSE units("tid", "0", 1)

\* The parts of a response: y = "r", and t and r are there.
responses(data) ==
  UNION {{[tid |-> two_bytes(t), r |-> r] : t \in get(d, "t", "bytes"), r \in get(d, "r", "dict")} :
           d \in {x \in from_bytes(data) : "r" \in get(x, "y", "bytes")}}

\* nodes6 is not read.
parse_get_peers_response(data) ==
  {[tid |-> m.tid,
    node_id |-> id_or_zero(get(m.r, "id", "bytes")),
    token |-> get(m.r, "token", "bytes"),
    values |-> FlatMap(parse_compact_peers, unwrap_or(get(m.r, "values", "list"), <<>>)),
    nodes |-> parse_compact_nodes(unwrap_or(get(m.r, "nodes", "bytes"), <<>>))] :
     m \in responses(data)}

parse_find_node_response(data) ==
  {[tid |-> m.tid,
    nodes |-> parse_compact_nodes(unwrap_or(get(m.r, "nodes", "bytes"), <<>>))
                \o parse_compact_nodes6(unwrap_or(get(m.r, "nodes6", "bytes"), <<>>))] :
     m \in responses(data)}

\* y is not looked at.
parse_sample_infohashes_response(data) ==
  UNION {{[tid |-> t, interval |-> unwrap_or(get(r, "interval", "int"), 30),
           num |-> unwrap_or(get(r, "num", "int"), 0),
           samples |-> unwrap_or(get(r, "samples", "bytes"), <<>>)] :
             t \in get(d, "t", "bytes"), r \in get(d, "r", "dict")} :
           d \in from_bytes(data)}

-----------------------------------------------------------------------------
none == {}

Init ==
  /\ phase = "idle" /\ wire = <<>>
  /\ asked = none /\ heard = none /\ meant = <<>> /\ read = none
  /\ held_token = none
  /\ stored = [h \in Target |-> <<>>]
  /\ announcing = {}
  /\ announced = [h \in Target |-> {}]

tid_two == units("tid", "a", 1)
tids == {<<>>, tid_two, units("tid", "b", 2)}

Send(message, tid, method, infohash, announces) ==
  /\ phase \in {"idle", "ignored", "read", "refused"}
  /\ phase' = "asked" /\ wire' = message
  /\ asked' = {[tid |-> tid, method |-> method, infohash |-> infohash]}
  /\ heard' = none /\ meant' = <<>> /\ read' = none
  /\ announcing' = announces
  /\ UNCHANGED <<held_token, stored, announced>>

AskPing == Send(build_ping(tid_two, id_of("us")), tid_two, "ping", {}, {})

AskGetPeers(h) ==
  Send(build_get_peers(tid_two, id_of("us"), id_of(h)), tid_two, "get_peers", {id_of(h)}, {})

\* Another node asks: its message is well formed.
AskFindNode(tid) ==
  Send(query(<<id_field(id_of("other")), field(6, "target", Bytes(zero_id))>>,
             Text(9, "find_node"), tid), tid, "find_node", {}, {})

AskFindNodeOurselves ==
  Send(build_find_node(tid_two, id_of("us"), zero_id), tid_two, "find_node", {}, {})

AskSamples(tid) ==
  Send(build_sample_infohashes(tid, id_of("us"), zero_id), tid, "sample_infohashes", {}, {})

\* The announce with the token read, or with one that is no longer valid.
AskAnnounce(h, port, token) ==
  /\ token \in held_token \cup {old_token}
  /\ Cardinality(announced[h]) < MaxAnnounced
  /\ Send(build_announce_peer(tid_two, id_of("us"), id_of(h), port, token),
          tid_two, "announce_peer", {id_of(h)},
          IF token = good_token THEN {<<h, addr_of("us", port)>>} ELSE {})

tables == {<<>>} \cup {<<node_of(a)>> : a \in V4Node \cup V6Node}
            \cup {<<node_of(a), node_of(b)>> : a \in V4Node \cup V6Node, b \in V4Node}

samples(s) == FlatMap(id_of, s)

\* handle_message as far as the messages go: what is not understood is not
\* answered. The address announced is the sender's with the port of the message.
Answer(nodes) ==
  /\ phase = "asked"
  /\ heard' = parse_query(wire)
  /\ meant' = nodes
  /\ \E q \in parse_query(wire) :
       \/ /\ q.method = "ping"
          /\ wire' = build_ping_response(q.tid, crawler_id)
          /\ UNCHANGED stored
       \/ /\ q.method = "find_node"
          /\ wire' = IF nodes = <<>>
                     THEN build_find_node_response(q.tid, crawler_id)
                     ELSE build_find_node_response_with_nodes(q.tid, crawler_id, nodes)
          /\ UNCHANGED stored
       \/ /\ q.method = "get_peers"
          /\ \E h \in Target :
               /\ q.infohash = {id_of(h)}
               /\ wire' = build_get_peers_response_full(q.tid, crawler_id, good_token, stored[h],
                                                        IF stored[h] = <<>> THEN nodes ELSE <<>>)
          /\ UNCHANGED stored
       \/ /\ q.method = "announce_peer"
          /\ \E p \in parse_announce_peer(wire) :
               /\ wire' = build_announce_peer_response(p.tid, crawler_id)
               /\ stored' = [h \in Target |->
                    IF p.token = good_token /\ p.info_hash = id_of(h)
                      /\ ~Contains(stored[h], addr_of("us", p.port))
                    THEN Append(stored[h], addr_of("us", p.port)) ELSE stored[h]]
       \/ /\ q.method = "sample_infohashes"
          /\ LET known == SetToSeq({h \in Target : stored[h] # <<>>}) IN
             wire' = build_sample_infohashes_response(q.tid, crawler_id, 30, Len(known), samples(known))
          /\ UNCHANGED stored
  /\ phase' = "answered"
  /\ announced' = [h \in Target |-> announced[h] \cup {x[2] : x \in {y \in announcing : y[1] = h}}]
  /\ UNCHANGED <<asked, read, held_token, announcing>>

\* A message that parse_query refuses is not answered.
Ignore ==
  /\ phase = "asked"
  /\ parse_query(wire) = {}
  /\ phase' = "ignored"
  /\ UNCHANGED <<wire, asked, heard, meant, read, held_token, stored, announcing, announced>>

\* Something else comes instead of the answer: an error, a query, or the
\* message of the builder that nobody calls.
AnswerForeign ==
  /\ phase = "asked"
  /\ wire' \in {build_error_response(tid_two, 203, "Server error"),
                build_ping(tid_two, id_of("other")),
                build_get_peers_response(tid_two, crawler_id, good_token)}
  /\ phase' = "foreign"
  /\ UNCHANGED <<asked, heard, meant, read, held_token, stored, announcing, announced>>

\* The asking node reads what comes as the answer to what it asked.
Read ==
  /\ phase \in {"answered", "foreign"}
  /\ \E q \in asked :
       /\ read' = CASE q.method = "get_peers" -> parse_get_peers_response(wire)
                    [] q.method = "find_node" -> parse_find_node_response(wire)
                    [] q.method = "sample_infohashes" -> parse_sample_infohashes_response(wire)
                    [] OTHER -> none
       /\ held_token' = IF q.method = "get_peers"
                        THEN UNION {m.token : m \in parse_get_peers_response(wire)}
                        ELSE held_token
  /\ phase' = IF phase = "answered" THEN "read" ELSE "refused"
  /\ UNCHANGED <<wire, asked, heard, meant, stored, announcing, announced>>

Next ==
  \/ AskPing \/ AskFindNodeOurselves
  \/ \E h \in Target : AskGetPeers(h)
  \/ \E tid \in tids : AskFindNode(tid) \/ AskSamples(tid)
  \/ \E h \in Target, port \in Port, token \in {good_token, old_token} :
       AskAnnounce(h, port, token)
  \/ \E nodes \in tables : Answer(nodes)
  \/ Ignore \/ AnswerForeign
  \/ Read

-----------------------------------------------------------------------------
\* Every query is heard as it was meant, but for build_find_node's, which
\* cannot be read at all.
HeardAsMeant ==
  /\ phase \in {"answered", "read"} => heard = asked
  /\ phase = "ignored" => wire = build_find_node(tid_two, id_of("us"), zero_id)

v4_only(nodes) == SelectSeq(nodes, LAMBDA n : ~n.addr.v6)
v6_only(nodes) == SelectSeq(nodes, LAMBDA n : n.addr.v6)
known_targets == {h \in Target : announced[h] # {}}

\* The answer is read as it was meant: who asks for an infohash gets every
\* address announced for it with the crawler's token, but for those with port
\* zero, or the crawler's nodes if it has none; find_node gives the IPv4 nodes
\* and then the IPv6 nodes; samples are whole infohashes. For get_peers the
\* nodes must be IPv4, and those of the crawler are: its socket is.
AnswerAsMeant(q, m) ==
  /\ q.method = "get_peers" => \E h \in Target :
       /\ q.infohash = {id_of(h)}
       /\ m.tid = q.tid /\ m.node_id = crawler_id /\ m.token = {good_token}
       /\ ToSet(m.values) = {a \in announced[h] : a.port # port_unit(0)}
       /\ v6_only(meant) = <<>> => m.nodes = IF announced[h] = {} THEN meant ELSE <<>>
  /\ q.method = "find_node" =>
       m.tid = two_bytes(q.tid) /\ m.nodes = v4_only(meant) \o v6_only(meant)
  /\ q.method = "sample_infohashes" =>
       /\ m.tid = q.tid /\ m.num = Cardinality(known_targets)
       /\ ToSet(chunks(m.samples, 10)) = {id_of(h) : h \in known_targets}

\* A node and the crawler understand each other: queries are heard and answers
\* read as they were meant, and nothing but a response is taken for an answer.
Understood ==
  /\ HeardAsMeant
  /\ phase = "read" => \A q \in asked : \/ q.method \in {"ping", "announce_peer"}
                                         \/ \E m \in read : AnswerAsMeant(q, m)
  /\ phase = "refused" => read = none

=============================================================================
