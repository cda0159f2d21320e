-------------------------------- MODULE Auth --------------------------------
(***************************************************************************)
(* The middleware before the REST API, src/auth.rs: first the API key, then*)
(* a rate limit per client with a window that starts with a request. A     *)
(* client is what the X-Forwarded-For header says ("unknown" without one). *)
(* The configuration can be replaced while the counters stay.              *)
(***************************************************************************)
EXTENDS Integers, FiniteSets, FiniteSetsExt, Sequences

CONSTANTS
  Client,
  Key,                      \* API keys a request may carry
  AuthConfig,               \* configurations: [enabled, api_keys, rate_limit_per_second]
  rate_limit_window_secs,
  AuthMaxTime,              \* bound of the clock
  MaxAdmitted               \* bound of the requests let through

NoKey == "no key"

VARIABLES
  auth_config,
  rate_limits,   \* client |-> [window_start, count]
  authNow,
  admitted       \* history: client |-> the times of the requests let through under a limit

authVars == <<auth_config, rate_limits, authNow, admitted>>

Init ==
  /\ auth_config \in AuthConfig
  /\ rate_limits = [c \in {} |-> 0]
  /\ authNow = 0
  /\ admitted = [c \in Client |-> <<>>]

UpdateConfig(cfg) ==
  /\ auth_config' = cfg
  /\ UNCHANGED <<rate_limits, authNow, admitted>>

validate_api_key(key) ==
  auth_config.enabled /\ auth_config.api_keys # {} => key \in auth_config.api_keys

max_requests(cfg) == cfg.rate_limit_per_second * rate_limit_window_secs

no_limit_yet == [window_start |-> authNow, count |-> 0]

\* Planted fault: the counter starts again while the window stays open.
windowed_count_only(s) ==
  IF authNow - s.window_start > rate_limit_window_secs THEN [s EXCEPT !.count = 0] ELSE s

\* A window that is over starts again with this request.
windowed(s) ==
  IF authNow - s.window_start > rate_limit_window_secs THEN no_limit_yet ELSE s

\* check_rate_limit and the rest of the middleware for a request whose key is
\* good. A refused request leaves the counter as it is.
Request(c, key) ==
  /\ validate_api_key(key)
  /\ auth_config.rate_limit_per_second > 0
  /\ Len(admitted[c]) < MaxAdmitted
  /\ LET s == windowed(IF c \in DOMAIN rate_limits THEN rate_limits[c] ELSE no_limit_yet)
         allowed == s.count < max_requests(auth_config)
         t == IF allowed THEN [s EXCEPT !.count = @ + 1] ELSE s
     IN  /\ rate_limits' = [d \in DOMAIN rate_limits \cup {c} |->
                              IF d = c THEN t ELSE rate_limits[d]]
         /\ admitted' = IF allowed THEN [admitted EXCEPT ![c] = Append(@, authNow)]
                        ELSE admitted
  /\ UNCHANGED <<auth_config, authNow>>

\* Without a limit, or with a key that is refused, no counter is touched.
Uncounted(key) ==
  /\ ~validate_api_key(key) \/ auth_config.rate_limit_per_second = 0
  /\ UNCHANGED authVars

Tick ==
  /\ authNow < AuthMaxTime
  /\ authNow' = authNow + 1
  /\ UNCHANGED <<auth_config, rate_limits, admitted>>

Next ==
  \/ \E cfg \in AuthConfig : UpdateConfig(cfg)
  \/ \E key \in Key \cup {NoKey} : Uncounted(key) \/ \E c \in Client : Request(c, key)
  \/ Tick

-----------------------------------------------------------------------------
largest == Max({max_requests(cfg) : cfg \in AuthConfig})

\* Windows start with a request and not on the clock, and the configuration
\* changes; still no span as long as a window sees more than two full windows
\* of requests of one client.
RateBounded ==
  \A c \in Client : \A i, j \in DOMAIN admitted[c] :
    /\ i <= j
    /\ admitted[c][j] - admitted[c][i] <= rate_limit_window_secs
    => j - i + 1 <= 2 * largest

=============================================================================
