-------------------------- MODULE UdpTrackerClient --------------------------
(***************************************************************************)
(* One announce to a UDP tracker (BEP 15), src/discoverers/tracker/udp.rs: *)
(* a connect stage that asks for a connection id and an announce stage     *)
(* that uses it. Each stage has its own transaction id, its own retries    *)
(* and its own "overall" timeout.                                          *)
(*                                                                         *)
(* The socket is connected, so every packet comes from the tracker. The    *)
(* network loses, delays, duplicates and reorders them: a packet once sent *)
(* may be received any number of times, or never.                          *)
(***************************************************************************)
EXTENDS Integers, FiniteSets, FiniteSetsExt

CONSTANTS
  overall_timeout,
  INITIAL_TIMEOUT,
  MAX_RETRIES,
  Id,               \* connection ids the tracker may hand out
  Junk,             \* the number in the place of the id of an error packet
  MaxDelay          \* bound of the time lost between two waits

VARIABLES
  stage,    \* "connect", "announce", "returned" or "failed"
  waiting,  \* in recv, as opposed to about to send
  attempt,
  timeout,  \* of the next wait; doubles
  wait,     \* what is left of this wait
  elapsed,  \* since the start of the stage
  connection_id,
  packets,  \* everything the tracker ever sent: [tid, action, id]
  issued,   \* history: the connection ids handed out
  total,    \* history: how long the call takes
  delays    \* history: how much of it was not spent waiting

udpVars == <<stage, waiting, attempt, timeout, wait, elapsed, connection_id,
             packets, issued, total, delays>>

Init ==
  /\ stage = "connect" /\ waiting = FALSE
  /\ attempt = 0 /\ timeout = INITIAL_TIMEOUT /\ wait = 0 /\ elapsed = 0
  /\ connection_id = Junk
  /\ packets = {} /\ issued = {}
  /\ total = 0 /\ delays = 0

calling == stage \in {"connect", "announce"}

\* Start of a stage of send_with_retry.
Enter(s, id) ==
  /\ stage' = s
  /\ connection_id' = id
  /\ waiting' = FALSE /\ attempt' = 0 /\ timeout' = INITIAL_TIMEOUT
  /\ wait' = 0 /\ elapsed' = 0

\* What the tracker makes of a request: an answer, or an error packet with the
\* transaction id of the request.
answers ==
  LET packet(action, id) == [tid |-> stage, action |-> action, id |-> id]
  IN  {packet("error", Junk)} \cup
      IF stage = "connect" THEN {packet("connect", id) : id \in Id}
      ELSE {packet("announce", Junk) : x \in {connection_id} \cap issued}

\* Planted fault: a wait is not bounded by what is left.
wait_timeout_full == timeout

wait_timeout == Min({timeout, overall_timeout - elapsed})

\* One more try: the request goes out (and may be lost, or answered).
Send ==
  /\ calling /\ ~waiting
  /\ attempt < MAX_RETRIES /\ elapsed <= overall_timeout
  /\ attempt' = attempt + 1
  /\ wait' = wait_timeout
  /\ waiting' = TRUE
  /\ \E lost \in BOOLEAN, a \in answers :
       /\ packets' = IF lost THEN packets ELSE packets \cup {a}
       /\ issued' = IF ~lost /\ a.action = "connect" THEN issued \cup {a.id} ELSE issued
  /\ UNCHANGED <<stage, timeout, elapsed, connection_id, total, delays>>

\* The retries or the time of this stage are used up.
GiveUp ==
  /\ calling /\ ~waiting
  /\ attempt = MAX_RETRIES \/ elapsed > overall_timeout
  /\ stage' = "failed"
  /\ UNCHANGED <<waiting, attempt, timeout, wait, elapsed, connection_id,
                 packets, issued, total, delays>>

\* The request cannot be sent (an earlier one found the port closed, say), which
\* ends the call.
SendFails ==
  /\ calling /\ ~waiting
  /\ attempt < MAX_RETRIES /\ elapsed <= overall_timeout
  /\ stage' = "failed"
  /\ UNCHANGED <<waiting, attempt, timeout, wait, elapsed, connection_id,
                 packets, issued, total, delays>>

\* The wait is over, recv fails (the port is closed) or the packet is shorter
\* than a header: try again and wait twice as long.
Again ==
  /\ calling /\ waiting
  /\ waiting' = FALSE
  /\ timeout' = 2 * timeout
  /\ UNCHANGED <<stage, attempt, wait, elapsed, connection_id, packets, issued, total, delays>>

\* A packet with another transaction id, such as a late answer to the stage
\* before: try again at once; the wait does not double, the try is used up.
ReceiveForeign(m) ==
  /\ calling /\ waiting /\ m \in packets
  /\ m.tid # stage
  /\ waiting' = FALSE
  /\ UNCHANGED <<stage, attempt, timeout, wait, elapsed, connection_id,
                 packets, issued, total, delays>>

\* connect: the id of a connect answer; any other answer, or one that is too
\* short, ends the call.
ReceiveConnect(m) ==
  /\ stage = "connect" /\ waiting /\ m \in packets
  /\ m.tid = stage
  /\ IF m.action = "connect" THEN Enter("announce", m.id) ELSE Enter("failed", Junk)
  /\ UNCHANGED <<packets, issued, total, delays>>

\* do_announce: the peers of an announce answer, or the tracker's error.
ReceiveAnnounce(m) ==
  /\ stage = "announce" /\ waiting /\ m \in packets
  /\ m.tid = stage
  /\ stage' = IF m.action = "announce" THEN "returned" ELSE "failed"
  /\ UNCHANGED <<waiting, attempt, timeout, wait, elapsed, connection_id,
                 packets, issued, total, delays>>

Tick ==
  /\ calling
  /\ \/ waiting /\ wait > 0 /\ wait' = wait - 1 /\ UNCHANGED delays
     \/ ~waiting /\ delays < MaxDelay /\ delays' = delays + 1 /\ UNCHANGED wait
  /\ elapsed' = elapsed + 1
  /\ total' = total + 1
  /\ UNCHANGED <<stage, waiting, attempt, timeout, connection_id, packets, issued>>

Next ==
  \/ Send \/ SendFails \/ GiveUp \/ Again \/ Tick
  \/ \E m \in packets : ReceiveForeign(m) \/ ReceiveConnect(m) \/ ReceiveAnnounce(m)

-----------------------------------------------------------------------------
\* The two stages together take at most twice the "overall" timeout, however
\* the waits double and the packets come: a wait never exceeds what is left of
\* its stage. (Time lost outside of the waits comes on top.)
CallInTime == total <= 2 * overall_timeout + delays

=============================================================================
