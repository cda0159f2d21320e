----------------------------- MODULE PeerFilter -----------------------------
(***************************************************************************)
(* The filter of misbehaving peers, src/peer_filter.rs: per address, the   *)
(* requests and infohashes of a window, the failed tokens, and the ban.    *)
(* Every operation runs under one write lock, so it is one step; callers   *)
(* on other threads come in any order. A rate is compared without division.*)
(***************************************************************************)
EXTENDS Integers, FiniteSets, FiniteSetsExt

CONSTANTS
  Ip,
  max_requests_per_second, window_secs,
  max_token_failures, max_unique_infohashes,
  initial_ban_secs, max_ban_secs,
  MaxDoublings,       \* 5
  record_ttl_secs,
  FilterMaxTime,      \* bound of the clock
  MaxCalls            \* bound of the calls

NotBanned == -1

VARIABLES
  behaviors,   \* ip |-> its record
  filterNow,
  filterCalls,
  pardoned     \* history: the addresses the last step unbanned or forgot

filterVars == <<behaviors, filterNow, filterCalls, pardoned>>

new_behavior ==
  [request_count |-> 0, window_start |-> filterNow, token_failures |-> 0,
   unique_infohashes |-> 0, last_request |-> filterNow,
   banned_until |-> NotBanned, ban_count |-> 0]

Init ==
  /\ behaviors = [ip \in {} |-> 0]
  /\ filterNow = 0 /\ filterCalls = 0
  /\ pardoned = {}

entry(ip) == IF ip \in DOMAIN behaviors THEN behaviors[ip] ELSE new_behavior

\* One call that leaves the record b for ip.
Store(ip, b) ==
  /\ filterCalls < MaxCalls
  /\ filterCalls' = filterCalls + 1
  /\ behaviors' = [i \in DOMAIN behaviors \cup {ip} |-> IF i = ip THEN b ELSE behaviors[i]]
  /\ pardoned' = {}
  /\ UNCHANGED filterNow

banned_now(b) == b.banned_until > filterNow

\* The new record after the window is reset, if it is over.
windowed(b) ==
  IF filterNow - b.window_start > window_secs
  THEN [b EXCEPT !.window_start = filterNow, !.request_count = 0, !.unique_infohashes = 0]
  ELSE b

\* Planted fault: repeated bans get shorter.
ban_duration_halves(b) == Max({initial_ban_secs \div (2 ^ b.ban_count), 1})

\* Bans double, MaxDoublings times at most, up to max_ban_secs.
ban_duration(b) ==
  Min({initial_ban_secs * 2 ^ Min({b.ban_count, MaxDoublings}), max_ban_secs})

ban(b) ==
  [b EXCEPT !.banned_until = filterNow + ban_duration(b), !.ban_count = @ + 1,
            !.token_failures = 0]

\* A banned address is turned away before anything is counted.
RecordRequest(ip) ==
  LET old == entry(ip)
      b == [windowed([old EXCEPT !.banned_until = NotBanned])
              EXCEPT !.request_count = @ + 1, !.last_request = filterNow]
      elapsed == Max({filterNow - b.window_start, 1})
  IN  Store(ip, IF banned_now(old) THEN old
                ELSE IF b.request_count > max_requests_per_second * elapsed
                THEN ban(b) ELSE b)

\* A failed token counts while banned as well, and may ban again.
RecordTokenFailure(ip) ==
  LET b == [entry(ip) EXCEPT !.token_failures = @ + 1, !.last_request = filterNow]
  IN  Store(ip, IF b.token_failures >= max_token_failures THEN ban(b) ELSE b)

\* So does an infohash, which does not count as a last request.
RecordInfohashQuery(ip) ==
  LET b == [windowed(entry(ip)) EXCEPT !.unique_infohashes = @ + 1]
  IN  Store(ip, IF b.unique_infohashes > max_unique_infohashes THEN ban(b) ELSE b)

Unban(ip) ==
  /\ ip \in DOMAIN behaviors
  /\ behaviors' = [behaviors EXCEPT ![ip].banned_until = NotBanned]
  /\ pardoned' = {ip}
  /\ UNCHANGED <<filterNow, filterCalls>>

\* cleanup looks at the last request only: a ban longer than record_ttl_secs
\* is forgotten, with the count of the bans.
Cleanup ==
  LET old == {ip \in DOMAIN behaviors :
                filterNow - behaviors[ip].last_request >= record_ttl_secs}
  IN  /\ behaviors' = [ip \in DOMAIN behaviors \ old |-> behaviors[ip]]
      /\ pardoned' = old
      /\ UNCHANGED <<filterNow, filterCalls>>

Tick ==
  /\ filterNow < FilterMaxTime
  /\ filterNow' = filterNow + 1
  /\ pardoned' = {}
  /\ UNCHANGED <<behaviors, filterCalls>>

Next ==
  \/ \E ip \in Ip : RecordRequest(ip) \/ RecordTokenFailure(ip)
                    \/ RecordInfohashQuery(ip) \/ Unban(ip)
  \/ Cleanup
  \/ Tick

is_banned(ip) == ip \in DOMAIN behaviors /\ banned_now(behaviors[ip])

-----------------------------------------------------------------------------
\* A step does not cut the running ban of ip short, whatever the address does:
\* until unban or cleanup, the ban lasts at least to the time it was given.
BanHeld(ip) ==
  is_banned(ip) /\ ip \notin pardoned' =>
    /\ ip \in DOMAIN behaviors'
    /\ \/ behaviors'[ip].banned_until >= behaviors[ip].banned_until
       \/ behaviors[ip].banned_until <= filterNow'

=============================================================================
