--------------------------- MODULE PeerDirectory ---------------------------
(***************************************************************************)
(* What the DHT peer store promises to those who ask it: a directory of    *)
(* peers that announced themselves, each of which is there for PeerTTL     *)
(* seconds after its last announce, to the second, unless so many others   *)
(* announce themselves for its infohash that it is the oldest of too many. *)
(*                                                                         *)
(* There is no sweep, no count and no expired entry that takes up room:    *)
(* those belong to DhtStore, which implements this specification.          *)
(***************************************************************************)
EXTENDS Integers, FiniteSets, Functions

CONSTANTS
  Infohash, Addr,
  PeerTTL,
  Capacity,     \* members an infohash may have
  MaxTime       \* bound of the clock

VARIABLES
  members,      \* <<infohash, addr>> |-> when it last announced itself
  now

Init ==
  /\ members = [p \in {} |-> 0]
  /\ now = 0

of(ih) == {p \in DOMAIN members : p[1] = ih}

oldest(ih) == {p \in of(ih) : \A q \in of(ih) : members[p] <= members[q]}

\* A member renews its time, and so does a newcomer while there is room.
\* Otherwise the oldest member makes room for it.
Announce(ih, addr) ==
  \E left \in SUBSET DOMAIN members :
    /\ IF <<ih, addr>> \in DOMAIN members \/ Cardinality(of(ih)) < Capacity
       THEN left = DOMAIN members
       ELSE \E victim \in oldest(ih) : left = DOMAIN members \ {victim}
    /\ members' = [p \in left \cup {<<ih, addr>>} |->
                     IF p = <<ih, addr>> THEN now ELSE members[p]]
    /\ UNCHANGED now

\* Members leave the moment their time is over.
Tick ==
  /\ now < MaxTime
  /\ now' = now + 1
  /\ members' = Restrict(members, {p \in DOMAIN members : now + 1 - members[p] <= PeerTTL})

Next ==
  \/ \E ih \in Infohash, addr \in Addr : Announce(ih, addr)
  \/ Tick

Spec == Init /\ [][Next]_<<members, now>>

=============================================================================
