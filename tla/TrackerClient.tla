--------------------------- MODULE TrackerClient ---------------------------
(***************************************************************************)
(* The tracker discoverer of src/discoverers/tracker/client.rs: requests   *)
(* to all active trackers, and for each tracker the failures in a row that *)
(* disable it until a cooldown is over.                                    *)
(*                                                                         *)
(* Several calls of discover_peers may be under way. Each waits for its    *)
(* requests in the order of the tracker list and records a result when its *)
(* turn comes, whatever the order of the answers; the caller's own timeout *)
(* (discover_all) may drop the call with results unrecorded.               *)
(*                                                                         *)
(* Time is the age of each tracker's last failure, counted up to the       *)
(* cooldown, so that the model has no end of time. announce only reads the *)
(* active list and is left out; scrape recovers trackers like a call.      *)
(* Discoverers puts the steps into a specification.                        *)
(***************************************************************************)
EXTENDS Integers, Sequences, SequencesExt

CONSTANTS
  trackers,                  \* the list of tracker urls
  Call,                      \* calls that may be under way together
  max_concurrent_requests,
  max_consecutive_failures,
  cooldown_duration,
  MaxFailures                \* bound of consecutive_failures

Tracker == {trackers[i] : i \in DOMAIN trackers}

VARIABLES
  states,  \* per tracker: TrackerState, with the age of last_failure_at
  call     \* per call: the requests it waits for, and the results so far

vars == <<states, call>>

idle == [todo |-> <<>>, results |-> [t \in {} |-> TRUE]]

Init ==
  /\ states = [t \in Tracker |->
                 [consecutive_failures |-> 0, age |-> cooldown_duration, disabled |-> FALSE]]
  /\ call = [c \in Call |-> idle]

-----------------------------------------------------------------------------
\* Planted fault: the count of failures outlives the cooldown.
recover_cooldown_trackers_keeps_count(ss) ==
  [t \in Tracker |-> IF ss[t].disabled /\ ss[t].age >= cooldown_duration
                     THEN [ss[t] EXCEPT !.disabled = FALSE] ELSE ss[t]]

\* Planted fault: disabled trackers stay disabled.
recover_cooldown_trackers_never(ss) == ss

recover_cooldown_trackers(ss) ==
  [t \in Tracker |-> IF ss[t].disabled /\ ss[t].age >= cooldown_duration
                     THEN [ss[t] EXCEPT !.disabled = FALSE, !.consecutive_failures = 0]
                     ELSE ss[t]]

\* Planted fault: a tracker with a failure on record is passed over.
active_trackers_flawless(ss) == SelectSeq(trackers, LAMBDA t : ss[t].consecutive_failures = 0)

active_trackers(ss) == SelectSeq(trackers, LAMBDA t : ~ss[t].disabled)

\* The start of discover_peers, up to the requests it spawns. With no active
\* tracker the call is over.
Discover(c) ==
  LET recovered == recover_cooldown_trackers(states)
      active == active_trackers(recovered)
      asked == SubSeq(active, 1, IF Len(active) < max_concurrent_requests
                                 THEN Len(active) ELSE max_concurrent_requests)
  IN  /\ call[c] = idle
      /\ states' = recovered
      /\ call' = [call EXCEPT ![c].todo = asked]

\* scrape records no results.
Scrape ==
  /\ states' = recover_cooldown_trackers(states)
  /\ UNCHANGED call

\* A request of the call ends, with peers or with an error.
Finish(c, t, ok) ==
  /\ Contains(call[c].todo, t)
  /\ t \notin DOMAIN call[c].results
  /\ call' = [call EXCEPT ![c].results =
                [u \in DOMAIN @ \cup {t} |-> IF u = t THEN ok ELSE @[u]]]
  /\ UNCHANGED states

record_result(s, success) ==
  IF success THEN [s EXCEPT !.consecutive_failures = 0, !.disabled = FALSE]
  ELSE [s EXCEPT !.consecutive_failures = @ + 1, !.age = 0,
                 !.disabled = @ \/ s.consecutive_failures + 1 >= max_consecutive_failures]

\* The call takes the result of the request it waits for and goes on to the
\* next; after the last one it returns.
Record(c) ==
  LET t == Head(call[c].todo)
      results == call[c].results
  IN  /\ call[c].todo # <<>>
      /\ t \in DOMAIN results
      /\ states[t].consecutive_failures < MaxFailures
      /\ states' = [states EXCEPT ![t] = record_result(@, results[t])]
      /\ call' = [call EXCEPT ![c] =
                    IF Len(@.todo) = 1 THEN idle
                    ELSE [todo |-> Tail(@.todo),
                          results |-> [u \in DOMAIN results \ {t} |-> results[u]]]]

\* The timeout of discover_all drops the call.
Timeout(c) ==
  /\ call[c] # idle
  /\ call' = [call EXCEPT ![c] = idle]
  /\ UNCHANGED states

Tick ==
  /\ states' = [t \in Tracker |->
                  [states[t] EXCEPT !.age = IF @ < cooldown_duration THEN @ + 1 ELSE @]]
  /\ UNCHANGED call

DiscoverSome == \E c \in Call : Discover(c)

Next ==
  \/ DiscoverSome \/ Scrape
  \/ \E c \in Call :
       \/ \E t \in Tracker, ok \in BOOLEAN : Finish(c, t, ok)
       \/ Record(c)
       \/ Timeout(c)
  \/ Tick

-----------------------------------------------------------------------------
TypeOK ==
  /\ states \in [Tracker -> [consecutive_failures : 0..MaxFailures,
                             age : 0..cooldown_duration, disabled : BOOLEAN]]
  /\ \A c \in Call : /\ ToSet(call[c].todo) \subseteq Tracker
                     /\ DOMAIN call[c].results \subseteq ToSet(call[c].todo)

\* A tracker is disabled exactly when it has failed often enough in a row,
\* through late results of overlapping calls, successes of a tracker disabled
\* meanwhile and recoveries: none is disabled without reason, and none that
\* recovers is one failure away from being disabled again.
DisabledIffFailing ==
  \A t \in Tracker :
    states[t].disabled <=> states[t].consecutive_failures >= max_consecutive_failures

\* A disabled tracker is enabled again, although results of calls from before
\* it was disabled may restart its cooldown.
DisabledRecovers == \A t \in Tracker : states[t].disabled ~> ~states[t].disabled

\* A tracker that is not disabled is asked again and again. The list has to fit
\* into max_concurrent_requests: the code takes that many from the front of the
\* active list and never comes to the rest.
EnabledIsAsked ==
  \A t \in Tracker :
    []<>(states[t].disabled \/ \E c \in Call : Contains(call[c].todo, t))

=============================================================================
