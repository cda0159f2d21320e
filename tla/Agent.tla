------------------------------- MODULE Agent -------------------------------
(***************************************************************************)
(* Agent mode, src/agent.rs: run_agent finds a master, registers and keeps *)
(* a WebSocket connection to it; connect_and_run reads the connection and  *)
(* starts a heartbeat task for it. The tasks share the flag connected.     *)
(*                                                                         *)
(* Time is what is left of each sleep. Messages change nothing yet (their  *)
(* handlers are TODO), and heartbeats are only logged.                     *)
(***************************************************************************)
EXTENDS Integers, FiniteSets

CONSTANTS
  reconnect_interval, heartbeat_interval,
  MaxConnections    \* bound of the connections

Free == -1

VARIABLES
  agent,       \* run_agent: "start", "announce", "connect", "register", "read", "sleep", "ended"
  agentSleep,  \* what is left of the sleep before a reconnect
  connected,
  heartbeats,  \* connection |-> what is left of its task's sleep, or Free: no task
  connections  \* how many there were

agentVars == <<agent, agentSleep, connected, heartbeats, connections>>

Connection == 1..MaxConnections

Init ==
  /\ agent = "start" /\ agentSleep = 0
  /\ connected = FALSE
  /\ heartbeats = [c \in Connection |-> Free]
  /\ connections = 0

\* The hosts and ports scanned, in order: the first that answers is the master.
Scanned == 1..2
discover_master_on_lan(answering) == {p \in Scanned : p \in answering /\ \A q \in answering : p <= q}

\* The master of the configuration is taken, or one of the local network;
\* without one the agent ends.
FindMaster(configured, auto_discover_master, answering) ==
  /\ agent = "start"
  /\ agent' = IF configured \/ (auto_discover_master /\ discover_master_on_lan(answering) # {})
              THEN "announce" ELSE "ended"
  /\ UNCHANGED <<agentSleep, connected, heartbeats, connections>>

\* register_node by HTTP: it may fail, and the agent goes on all the same.
RegisterNode ==
  /\ agent = "announce"
  /\ agent' = "connect"
  /\ UNCHANGED <<agentSleep, connected, heartbeats, connections>>

Connect ==
  /\ agent = "connect" /\ connections < MaxConnections
  /\ agent' = "register"
  /\ connected' = TRUE
  /\ connections' = connections + 1
  /\ UNCHANGED <<agentSleep, heartbeats>>

\* The register message is sent, and the heartbeat task started.
Register ==
  /\ agent = "register"
  /\ agent' = "read"
  /\ heartbeats' = [heartbeats EXCEPT ![connections] = heartbeat_interval]
  /\ UNCHANGED <<agentSleep, connected, connections>>

\* Connecting, writing or reading fails: connect_and_run returns the error
\* and leaves its task alone; run_agent clears the flag and sleeps.
ConnectionFails ==
  /\ agent \in {"connect", "register", "read"}
  /\ agent' = "sleep"
  /\ agentSleep' = reconnect_interval
  /\ connected' = FALSE
  /\ UNCHANGED <<heartbeats, connections>>

Reconnect ==
  /\ agent = "sleep" /\ agentSleep = 0
  /\ agent' = "connect"
  /\ UNCHANGED <<agentSleep, connected, heartbeats, connections>>

\* Planted fault: the flag stays.
ConnectionEnds_connected ==
  /\ agent = "read"
  /\ agent' = "ended"
  /\ heartbeats' = [heartbeats EXCEPT ![connections] = Free]
  /\ UNCHANGED <<agentSleep, connected, connections>>

\* A close frame or the end of the stream: the task of this connection is
\* aborted, and the agent ends; it does not connect again.
ConnectionEnds ==
  /\ agent = "read"
  /\ agent' = "ended"
  /\ heartbeats' = [heartbeats EXCEPT ![connections] = Free]
  /\ connected' = FALSE
  /\ UNCHANGED <<agentSleep, connections>>

\* A task wakes: it ends when the flag is down, whichever connection set it.
Heartbeat(c) ==
  /\ heartbeats[c] = 0
  /\ heartbeats' = [heartbeats EXCEPT ![c] = IF connected THEN heartbeat_interval ELSE Free]
  /\ UNCHANGED <<agent, agentSleep, connected, connections>>

Tick ==
  /\ agent = "sleep" => agentSleep > 0
  /\ \A c \in Connection : heartbeats[c] # 0
  /\ agent \in {"connect", "sleep", "read", "ended"}
  /\ agentSleep' = IF agentSleep > 0 THEN agentSleep - 1 ELSE 0
  /\ heartbeats' = [c \in Connection |-> IF heartbeats[c] > 0 THEN heartbeats[c] - 1 ELSE Free]
  /\ UNCHANGED <<agent, connected, connections>>

Next ==
  \/ \E configured, auto \in BOOLEAN, answering \in SUBSET Scanned :
       FindMaster(configured, auto, answering)
  \/ RegisterNode
  \/ Connect \/ Register \/ ConnectionFails \/ Reconnect \/ ConnectionEnds
  \/ \E c \in Connection : Heartbeat(c)
  \/ Tick

-----------------------------------------------------------------------------
tasks == {c \in Connection : heartbeats[c] # Free}

\* Tasks of broken connections live on when a new connection comes before
\* they wake (the default intervals allow it). But while there is no
\* connection, because the master is away or the agent has ended, they all
\* end, whatever connection they were started for.
HeartbeatsStop ==
  agent \notin {"register", "read"} ~> agent \in {"register", "read"} \/ tasks = {}

=============================================================================
