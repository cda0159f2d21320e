-------------------------- MODULE CrawlerLifecycle --------------------------
(***************************************************************************)
(* start and stop of the crawler (src/crawler/engine.rs) and the loops     *)
(* they start and stop: the running flag, and the shutdown signal, a       *)
(* tokio Notify whose notify_waiters wakes the loops that are waiting at   *)
(* that moment and leaves nothing behind for the others.                   *)
(*                                                                         *)
(* A loop waits for the signal only in its select!: while it binds its     *)
(* socket, bootstraps, answers a packet or does its periodic work, it does *)
(* not. What those do is the subject of CrawlerNode.                       *)
(***************************************************************************)
EXTENDS Integers, FiniteSets

CONSTANTS
  Caller,      \* threads that call start and stop
  MaxLoops     \* bound of the loops spawned

ASSUME LifecycleAssumption == MaxLoops \in Nat

VARIABLES
  running,     \* CrawlerState::running
  loop,        \* per loop spawned: "binding", "busy" (bootstrap, packet or
               \* periodic work), "select", "woken" or "ended"
  pc           \* per caller: "idle", "starting" (running is set, the loop is
               \* not spawned yet) or "stopping" (running is reset, the signal
               \* is not sent yet)

vars == <<running, loop, pc>>

Loop == DOMAIN loop

\* The bound of the loops counts the spawn a caller is about to make.
planned == Cardinality(Loop) + Cardinality({c \in Caller : pc[c] = "starting"})

Init ==
  /\ running = FALSE
  /\ loop = [l \in {} |-> "ended"]
  /\ pc = [c \in Caller |-> "idle"]

-----------------------------------------------------------------------------
(* start and stop. A start that finds the crawler running, and a stop that *)
(* finds it stopped, return at once.                                       *)

StartSet(c) ==
  /\ pc[c] = "idle"
  /\ ~running
  /\ planned < MaxLoops
  /\ running' = TRUE
  /\ pc' = [pc EXCEPT ![c] = "starting"]
  /\ UNCHANGED loop

StartSpawn(c) ==
  /\ pc[c] = "starting"
  /\ pc' = [pc EXCEPT ![c] = "idle"]
  /\ loop' = [l \in Loop \cup {Cardinality(Loop) + 1} |->
                IF l \in Loop THEN loop[l] ELSE "binding"]
  /\ UNCHANGED running

StopReset(c) ==
  /\ pc[c] = "idle"
  /\ running
  /\ running' = FALSE
  /\ pc' = [pc EXCEPT ![c] = "stopping"]
  /\ UNCHANGED loop

\* notify_waiters
StopNotify(c) ==
  /\ pc[c] = "stopping"
  /\ pc' = [pc EXCEPT ![c] = "idle"]
  /\ loop' = [l \in Loop |-> IF loop[l] = "select" THEN "woken" ELSE loop[l]]
  /\ UNCHANGED running

-----------------------------------------------------------------------------
(* crawl_loop.                                                             *)

Step(l, from, to) ==
  /\ loop[l] = from
  /\ loop' = [loop EXCEPT ![l] = to]
  /\ UNCHANGED pc

Bound(l) == Step(l, "binding", "busy") /\ UNCHANGED running

\* Planted fault: a loop that cannot bind leaves the flag alone.
BindFailed_silent(l) == Step(l, "binding", "ended") /\ UNCHANGED running

BindFailed(l) == Step(l, "binding", "ended") /\ running' = FALSE

\* The work at hand is done: next iteration of the loop.
Wait(l) == Step(l, "busy", "select") /\ UNCHANGED running

\* A packet, or a second without one.
Work(l) == Step(l, "select", "busy") /\ UNCHANGED running

End(l) == Step(l, "woken", "ended") /\ UNCHANGED running

LoopProgress(l) == Bound(l) \/ BindFailed(l) \/ Wait(l) \/ End(l)

Next ==
  \/ \E c \in Caller : StartSet(c) \/ StartSpawn(c) \/ StopReset(c) \/ StopNotify(c)
  \/ \E l \in Loop : LoopProgress(l) \/ Work(l)

-----------------------------------------------------------------------------
alive(l) == loop[l] \in {"binding", "busy", "select"}

\* A crawler that says it is running has a loop that no signal has reached, or
\* is about to get one: however starts, stops, lost signals and failed binds
\* follow each other. It takes callers that do not overlap: a signal that one
\* caller is late to send may meet the loop another one has just started.
RunningHasLoop ==
  running => (\E l \in Loop : alive(l)) \/ (\E c \in Caller : pc[c] = "starting")

=============================================================================
