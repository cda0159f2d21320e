------------------------------- MODULE Swarm -------------------------------
(***************************************************************************)
(* What the super tracker promises of the peers it hands out: a client     *)
(* that announces itself is there as a member from then on until it stops  *)
(* or has been quiet for PeerTTL seconds, and no member that has been      *)
(* quiet for PeerTTL + Grace is left. Between the two it may leave at any  *)
(* time, alone or with others that are due.                                *)
(*                                                                         *)
(* There are no packets, connection ids or sweeps: those belong to         *)
(* SuperTracker, which implements this specification.                      *)
(***************************************************************************)
EXTENDS Integers, Functions

CONSTANTS
  Client,
  Place,        \* client |-> the member it is known as; clients may share one
  PeerTTL,
  Grace,        \* how long a member that is due may stay
  MaxTime       \* bound of the clock

VARIABLES
  members,      \* member |-> when it was last heard
  said,         \* client |-> when it last announced itself, unless it stopped since
  now

Init ==
  /\ members = [m \in {} |-> 0]
  /\ said = [c \in {} |-> 0]
  /\ now = 0

Without(f, S) == Restrict(f, DOMAIN f \ S)

At(f, x) == [y \in DOMAIN f \cup {x} |-> IF y = x THEN now ELSE f[y]]

Announce(c) ==
  /\ members' = At(members, Place[c])
  /\ said' = At(said, c)
  /\ UNCHANGED now

Stop(c) ==
  /\ members' = Without(members, {Place[c]})
  /\ said' = Without(said, {c})
  /\ UNCHANGED now

quiet(time) == {m \in DOMAIN members : now - members[m] >= time}

Leave ==
  /\ \E due \in SUBSET quiet(PeerTTL) : members' = Without(members, due)
  /\ UNCHANGED <<said, now>>

\* Time waits for those who have to leave.
Tick ==
  /\ now < MaxTime
  /\ quiet(PeerTTL + Grace - 1) = {}
  /\ now' = now + 1
  /\ UNCHANGED <<members, said>>

Next ==
  \/ \E c \in Client : Announce(c) \/ Stop(c)
  \/ Leave
  \/ Tick

Spec == Init /\ [][Next]_<<members, said, now>>

=============================================================================
