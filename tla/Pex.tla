-------------------------------- MODULE Pex --------------------------------
(***************************************************************************)
(* The PEX discoverer of src/discoverers/pex: the peers it is connected    *)
(* to, the peers it knows, and the exchanges discover_peers starts with    *)
(* every peer that is due (client.rs), each over a connection of its own   *)
(* with the messages of message.rs.                                        *)
(*                                                                         *)
(* An exchange is a spawned task: it goes on when the request that started *)
(* it is dropped by the timeout of discover_all. A message is abstracted   *)
(* to what parse makes of it. Each Task stands for one request.            *)
(***************************************************************************)
EXTENDS Integers, FiniteSets, FiniteSetsExt

CONSTANTS
  Peer,                 \* addresses we may be connected to
  Addr,                 \* addresses ut_pex messages carry
  Task,
  max_connected_peers,
  pex_request_interval,
  PeerTTL,              \* PeerInfo::is_expired
  MaxSkipped,           \* messages read for the extension handshake (5)
  OurId,                \* the id we give ut_pex in our handshake (1)
  PeerIds,              \* the ids other clients give it
  MaxTime               \* bound of the clock

None == -1   \* neither a time nor an id

VARIABLES
  connected_peers,  \* peer |-> [last_pex_exchange, supports_pex, ut_pex_id]
  known_peers,      \* addr |-> when it was first heard of
  calls,            \* per request: "idle", "joining", "returned" or "dropped"
  exchange,         \* per request and peer: the exchange it started
  wanted,           \* history: the peers whose connection was not removed since
  now

pexVars == <<connected_peers, known_peers, calls, exchange, wanted, now>>

Keep(f, S) == [x \in S |-> f[x]]

no_exchange == [pc |-> "none"]

Init ==
  /\ connected_peers = [p \in {} |-> 0]
  /\ known_peers = [a \in {} |-> 0]
  /\ calls = [t \in Task |-> "idle"]
  /\ exchange = [t \in Task |-> [p \in Peer |-> no_exchange]]
  /\ wanted = {}
  /\ now = 0

-----------------------------------------------------------------------------
new_connection == [last_pex_exchange |-> None, supports_pex |-> TRUE, ut_pex_id |-> None]

\* A full table refuses even to renew a record it has.
AddConnectedPeer(p) ==
  /\ Cardinality(DOMAIN connected_peers) < max_connected_peers
  /\ connected_peers' = [q \in DOMAIN connected_peers \cup {p} |->
                           IF q = p THEN new_connection ELSE connected_peers[q]]
  /\ wanted' = wanted \cup {p}
  /\ UNCHANGED <<known_peers, calls, exchange, now>>

RemoveConnectedPeer(p) ==
  /\ connected_peers' = Keep(connected_peers, DOMAIN connected_peers \ {p})
  /\ wanted' = wanted \ {p}
  /\ UNCHANGED <<known_peers, calls, exchange, now>>

peers_due_for_pex ==
  {p \in DOMAIN connected_peers :
     LET c == connected_peers[p] IN
     /\ c.supports_pex
     /\ c.last_pex_exchange # None => now - c.last_pex_exchange >= pex_request_interval}

unexpired == {a \in DOMAIN known_peers : now - known_peers[a] <= PeerTTL}

\* discover_peers up to its first await: drop what has expired, start an
\* exchange with every peer that is due. A second request may do the same
\* before the first exchange is over.
Discover(t) ==
  /\ calls[t] = "idle"
  /\ known_peers' = Keep(known_peers, unexpired)
  /\ exchange' = [exchange EXCEPT ![t] = [p \in Peer |->
       IF p \in peers_due_for_pex THEN [pc |-> "connect"] ELSE no_exchange]]
  /\ calls' = [calls EXCEPT ![t] = "joining"]
  /\ UNCHANGED <<connected_peers, wanted, now>>

-----------------------------------------------------------------------------
(* exchange_with_peer. p may have been removed, or removed and added again,  *)
(* since the exchange started.                                               *)

At(t, p, pc) == exchange[t][p].pc = pc
Goes(t, p, x) == exchange' = [exchange EXCEPT ![t][p] = x]
Ends(t, p, new_peers) == Goes(t, p, [pc |-> "ended", new_peers |-> new_peers])

\* get_mut: a record is changed only where there is one.
Note(p, record) ==
  connected_peers' = [q \in DOMAIN connected_peers |->
                        IF q = p THEN record ELSE connected_peers[q]]

Refused(p) == Note(p, [connected_peers[p] EXCEPT !.supports_pex = FALSE])

\* A connection, a write or a read fails, or its timeout is over; so does a
\* handshake that cannot be parsed or is for another infohash.
ExchangeFails(t, p) ==
  /\ \E pc \in {"connect", "handshake", "extension", "send"} : At(t, p, pc)
  /\ Ends(t, p, {})
  /\ UNCHANGED <<connected_peers, known_peers, calls, wanted, now>>

Connects(t, p) ==
  /\ At(t, p, "connect")
  /\ Goes(t, p, [pc |-> "handshake"])
  /\ UNCHANGED <<connected_peers, known_peers, calls, wanted, now>>

\* The answer to our handshake, for our infohash.
Handshake(t, p, supports_extension) ==
  /\ At(t, p, "handshake")
  /\ IF supports_extension
     THEN /\ Goes(t, p, [pc |-> "extension", skipped |-> 0])
          /\ UNCHANGED connected_peers
     ELSE Ends(t, p, {}) /\ Refused(p)
  /\ UNCHANGED <<known_peers, calls, wanted, now>>

\* A message that is no extension handshake: the last of MaxSkipped counts as
\* a refusal. There is no timeout around the read.
SkipMessage(t, p) ==
  /\ At(t, p, "extension")
  /\ IF exchange[t][p].skipped + 1 < MaxSkipped
     THEN Goes(t, p, [exchange[t][p] EXCEPT !.skipped = @ + 1]) /\ UNCHANGED connected_peers
     ELSE Ends(t, p, {}) /\ Refused(p)
  /\ UNCHANGED <<known_peers, calls, wanted, now>>

\* What parse makes of an extension handshake: the id its dictionary m gives
\* ut_pex. There is none when it names no ut_pex or is no dictionary.
ut_pex_ids == PeerIds \cup {None}

\* The extension handshake, with the id of ut_pex or without it.
ExtensionHandshake(t, p, id) ==
  /\ At(t, p, "extension")
  /\ IF id = None THEN Ends(t, p, {}) /\ Refused(p)
     ELSE /\ Goes(t, p, [pc |-> "send", ut_pex_id |-> id])
          /\ Note(p, [connected_peers[p] EXCEPT !.ut_pex_id = id])
  /\ UNCHANGED <<known_peers, calls, wanted, now>>

\* We send (some of) the peers we know.
SendKnown(t, p) ==
  /\ At(t, p, "send")
  /\ Goes(t, p, [exchange[t][p] EXCEPT !.pc = "receive"])
  /\ UNCHANGED <<connected_peers, known_peers, calls, wanted, now>>

\* Planted fault: the record is put back for a peer that was removed.
Exchanged_inserts(p) ==
  LET old == IF p \in DOMAIN connected_peers THEN connected_peers[p] ELSE new_connection
  IN  connected_peers' = [q \in DOMAIN connected_peers \cup {p} |->
                            IF q = p THEN [old EXCEPT !.last_pex_exchange = now]
                            ELSE connected_peers[q]]

Exchanged(p) == Note(p, [connected_peers[p] EXCEPT !.last_pex_exchange = now])

\* What parse makes of a ut_pex message: the peers it adds, of which there are
\* none when it is no dictionary. The peers it drops are not looked at.
added_peers == SUBSET Addr

\* A ut_pex message. It is taken if it carries the id the other client gave
\* to ut_pex; a client that uses the id we gave it is only heard when the two
\* are the same. Any other message is skipped.
ReceivePex(t, p, id, added) ==
  /\ At(t, p, "receive")
  /\ id = exchange[t][p].ut_pex_id
  /\ Ends(t, p, added)
  /\ Exchanged(p)
  /\ UNCHANGED <<known_peers, calls, wanted, now>>

\* Planted fault: a silent peer is waited for.
ReceiveEnds_on_close(t, p) ==
  /\ At(t, p, "receive")
  /\ p \notin DOMAIN connected_peers
  /\ Ends(t, p, {})
  /\ Exchanged(p)
  /\ UNCHANGED <<known_peers, calls, wanted, now>>

\* Two seconds of silence, three seconds of other messages, or an error: the
\* exchange is over, and counts as one.
ReceiveEnds(t, p) ==
  /\ At(t, p, "receive")
  /\ Ends(t, p, {})
  /\ Exchanged(p)
  /\ UNCHANGED <<known_peers, calls, wanted, now>>

-----------------------------------------------------------------------------
\* The request takes the result of one exchange: add_known_peers keeps the
\* record of a peer it knows.
Join(t, p) ==
  /\ calls[t] = "joining" /\ At(t, p, "ended")
  /\ known_peers' = [a \in DOMAIN known_peers \cup exchange[t][p].new_peers |->
                       IF a \in DOMAIN known_peers THEN known_peers[a] ELSE now]
  /\ Goes(t, p, no_exchange)
  /\ UNCHANGED <<connected_peers, calls, wanted, now>>

\* All exchanges are joined: the request returns what is known, by priority.
Return(t) ==
  /\ calls[t] = "joining" /\ \A p \in Peer : At(t, p, "none")
  /\ calls' = [calls EXCEPT ![t] = "returned"]
  /\ UNCHANGED <<connected_peers, known_peers, exchange, wanted, now>>

\* discover_all drops the request: its exchanges go on, their results are lost.
DropRequest(t) ==
  /\ calls[t] = "joining"
  /\ calls' = [calls EXCEPT ![t] = "dropped"]
  /\ UNCHANGED <<connected_peers, known_peers, exchange, wanted, now>>

Tick ==
  /\ now < MaxTime
  /\ now' = now + 1
  /\ UNCHANGED <<connected_peers, known_peers, calls, exchange, wanted>>

Next ==
  \/ \E p \in Peer : AddConnectedPeer(p) \/ RemoveConnectedPeer(p)
  \/ \E t \in Task :
       \/ Discover(t) \/ Return(t) \/ DropRequest(t)
       \/ \E p \in Peer :
            \/ ExchangeFails(t, p) \/ Connects(t, p)
            \/ \E supports_extension \in BOOLEAN : Handshake(t, p, supports_extension)
            \/ SkipMessage(t, p)
            \/ \E id \in ut_pex_ids : ExtensionHandshake(t, p, id)
            \/ SendKnown(t, p)
            \/ \E id \in PeerIds \cup {OurId}, added \in added_peers :
                 ReceivePex(t, p, id, added)
            \/ ReceiveEnds(t, p)
            \/ Join(t, p)
  \/ Tick

-----------------------------------------------------------------------------
\* A peer whose connection was removed stays out until it is added again:
\* no exchange that was under way, finished or refused, brings it back.
DisconnectedStayOut == DOMAIN connected_peers \subseteq wanted

\* An exchange ends unless the peer falls silent before its extension
\* handshake, and a request returns, is dropped, or waits for such a peer.
ExchangesEnd ==
  \A t \in Task :
    /\ \A p \in Peer : ~At(t, p, "none") ~>
         At(t, p, "none") \/ At(t, p, "ended") \/ At(t, p, "extension")
    /\ calls[t] = "joining" ~>
         calls[t] # "joining" \/ \E p \in Peer : At(t, p, "extension")

=============================================================================
