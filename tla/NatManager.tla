---------------------------- MODULE NatManager ----------------------------
(***************************************************************************)
(* Port mapping by UPnP, src/nat/mod.rs: init, the renewal task,           *)
(* release_all, and the router they talk to, which outlives a crash of     *)
(* this process and serves other hosts too.                                *)
(*                                                                         *)
(* The router (external) keeps a lease per protocol and external port. It  *)
(* lets a host overwrite its own mapping and refuses a port another host   *)
(* has. Time is what is left of each lease and of the renewal's sleep;     *)
(* calls to the router take no time next to a lease. The tries of one      *)
(* map_port_with_retry, and the two walks over the router's table, are one *)
(* step each.                                                              *)
(***************************************************************************)
EXTENDS Integers, Sequences, FiniteSetsExt

CONSTANTS
  Ports,        \* <<[protocol, internal_port], ...>>: HTTP, UDP tracker, crawler
  MaxPort,      \* external ports are 0..MaxPort, and wrap around (65535)
  max_retries,  \* external ports tried (10)
  lease_duration,
  MinLease,     \* 60 s in start_renewal_task
  Us, Other,    \* the hosts
  MaxOther,     \* bound of what the other host does
  MaxCrashes    \* bound of the crashes

Forever == -1

off == -1
cleanup == 0
verify == Len(Ports) + 1
done == Len(Ports) + 2

VARIABLES
  router,     \* <<protocol, external port>> |-> [host, internal_port, pdc, left]
  mappings,   \* the mappings we hold
  init_step,  \* of init: off, cleanup, 1.. (the next of Ports), verify, done
  renewal,    \* the renewal task: what it sleeps, what it still has to renew
  release,    \* what release_all still has to remove, when under way
  released,   \* release_all has ended
  disturbed,  \* history: a call to the router failed, or another host meddled
  others, crashes

natVars == <<router, mappings, init_step, renewal, release, released, disturbed, others, crashes>>

renew_interval == Max({lease_duration, MinLease}) \div 2

no_task == [left |-> Forever, todo |-> <<>>]

Init ==
  /\ router = [k \in {} |-> 0]
  /\ mappings = <<>> /\ init_step = off
  /\ renewal = no_task /\ release = <<>> /\ released = FALSE
  /\ disturbed = FALSE
  /\ others = 0 /\ crashes = 0

Put(f, k, v) == [x \in DOMAIN f \cup {k} |-> IF x = k THEN v ELSE f[x]]
Drop(f, S) == [x \in DOMAIN f \ S |-> f[x]]
key(m) == <<m.protocol, m.external_port>>
our_lease(internal_port) ==
  [host |-> Us, internal_port |-> internal_port, pdc |-> TRUE,
   left |-> IF lease_duration = 0 THEN Forever ELSE lease_duration]
accepts(k) == k \in DOMAIN router => router[k].host = Us

-----------------------------------------------------------------------------
(* init.                                                                   *)

\* A gateway is found; without one init ends with nothing done.
DiscoverGateway ==
  /\ init_step = off
  /\ init_step' = cleanup
  /\ UNCHANGED <<router, mappings, renewal, release, released, disturbed, others, crashes>>

\* Planted fault: one old mapping is removed, not all of them.
CleanupOldMappings_one ==
  /\ init_step = cleanup
  /\ init_step' = 1
  /\ LET old == {k \in DOMAIN router : router[k].pdc}
     IN  \E S \in SUBSET old : /\ old # {} => S # {}
                               /\ router' = Drop(router, S)
  /\ UNCHANGED <<mappings, renewal, release, released, disturbed, others, crashes>>

\* Every mapping named "PDC" goes, whichever host it is for. A remove that
\* fails is ignored.
CleanupOldMappings ==
  /\ init_step = cleanup
  /\ init_step' = 1
  /\ LET old == {k \in DOMAIN router : router[k].pdc}
     IN  \E S \in SUBSET old : /\ router' = Drop(router, S)
                               /\ disturbed' = (disturbed \/ S # old)
  /\ UNCHANGED <<mappings, renewal, release, released, others, crashes>>

\* The first port from the preferred one on, around the end, that is not 0 and
\* that the router gives us, if there is one among those tried.
map_port_with_retry(protocol, preferred) ==
  LET external(offset) == (preferred + offset) % (MaxPort + 1)
      free == {o \in 0..(max_retries - 1) :
                 external(o) # 0 /\ accepts(<<protocol, external(o)>>)}
  IN  IF free = {} THEN {} ELSE {external(Min(free))}

\* init maps the next of its ports. When all ports tried are in use, or the
\* router answers with any other error, it goes on without the mapping.
MapPort ==
  /\ init_step \in DOMAIN Ports
  /\ LET want == Ports[init_step]
         mapping(port) == [protocol |-> want.protocol, internal_port |-> want.internal_port,
                           external_port |-> port, verified |-> FALSE]
     IN  \/ \E port \in map_port_with_retry(want.protocol, want.internal_port) :
              /\ router' = Put(router, <<want.protocol, port>>, our_lease(want.internal_port))
              /\ mappings' = Append(mappings, mapping(port))
         \/ UNCHANGED <<router, mappings>>
  /\ init_step' = init_step + 1
  /\ UNCHANGED <<renewal, release, released, disturbed, others, crashes>>

\* verify_mappings, and the start of the renewal task. init fails when nothing
\* was mapped, but the task is started all the same.
Verify ==
  /\ init_step = verify
  /\ mappings' = [i \in DOMAIN mappings |->
       [mappings[i] EXCEPT !.verified =
          /\ key(mappings[i]) \in DOMAIN router
          /\ router[key(mappings[i])].internal_port = mappings[i].internal_port]]
  /\ renewal' = IF lease_duration > 0 THEN [left |-> renew_interval, todo |-> <<>>] ELSE no_task
  /\ init_step' = done
  /\ UNCHANGED <<router, release, released, disturbed, others, crashes>>

-----------------------------------------------------------------------------
(* The renewal task.                                                       *)

renewing == renewal.left = 0

\* The task copies the list; with nothing to renew it sleeps again.
Wake ==
  /\ renewal.left = 0 /\ renewal.todo = <<>>
  /\ renewal' = IF mappings = <<>> THEN [renewal EXCEPT !.left = renew_interval]
                ELSE [renewal EXCEPT !.todo = mappings]
  /\ UNCHANGED <<router, mappings, init_step, release, released, disturbed, others, crashes>>

\* add_port for one mapping of the copy; a failure is only logged.
Renew ==
  /\ renewal.left = 0 /\ renewal.todo # <<>>
  /\ LET m == Head(renewal.todo) IN
     \/ /\ accepts(key(m))
        /\ router' = Put(router, key(m), our_lease(m.internal_port))
        /\ UNCHANGED disturbed
     \/ disturbed' = TRUE /\ UNCHANGED router
  /\ renewal' = [left |-> IF Len(renewal.todo) = 1 THEN renew_interval ELSE 0,
                 todo |-> Tail(renewal.todo)]
  /\ UNCHANGED <<mappings, init_step, release, released, others, crashes>>

-----------------------------------------------------------------------------
(* release_all, which nothing calls yet.                                   *)

Release ==
  /\ init_step = done /\ release = <<>> /\ ~released /\ mappings # <<>>
  /\ release' = mappings
  /\ UNCHANGED <<router, mappings, init_step, renewal, released, disturbed, others, crashes>>

\* Planted fault: the list is not cleared.
Remove_keeps_list ==
  /\ release # <<>>
  /\ \/ router' = Drop(router, {key(Head(release))}) /\ UNCHANGED disturbed
     \/ disturbed' = TRUE /\ UNCHANGED router
  /\ release' = Tail(release)
  /\ released' = (Len(release) = 1)
  /\ UNCHANGED <<mappings, init_step, renewal, others, crashes>>

\* remove_port for one mapping of the copy; the last one clears the list.
Remove ==
  /\ release # <<>>
  /\ \/ router' = Drop(router, {key(Head(release))}) /\ UNCHANGED disturbed
     \/ disturbed' = TRUE /\ UNCHANGED router
  /\ release' = Tail(release)
  /\ IF Len(release) = 1 THEN mappings' = <<>> /\ released' = TRUE
     ELSE UNCHANGED <<mappings, released>>
  /\ UNCHANGED <<init_step, renewal, others, crashes>>

-----------------------------------------------------------------------------
Crash ==
  /\ crashes < MaxCrashes /\ init_step # off
  /\ crashes' = crashes + 1
  /\ mappings' = <<>> /\ init_step' = off
  /\ renewal' = no_task /\ release' = <<>> /\ released' = FALSE
  /\ UNCHANGED <<router, disturbed, others>>

\* Another host maps a port, or is a PeerDiscoveryCenter that cleans up.
OtherHost(k) ==
  /\ others < MaxOther
  /\ others' = others + 1
  /\ \/ /\ k \notin DOMAIN router
        /\ router' = Put(router, k, [host |-> Other, internal_port |-> k[2],
                                     pdc |-> FALSE, left |-> Forever])
        /\ UNCHANGED disturbed
     \/ /\ router' = Drop(router, {l \in DOMAIN router : router[l].pdc})
        /\ disturbed' = TRUE
  /\ UNCHANGED <<mappings, init_step, renewal, release, released, crashes>>

\* Time passes while this process waits; leases run out.
Tick ==
  /\ init_step \in {off, done} /\ ~renewing /\ release = <<>>
  /\ LET gone == {k \in DOMAIN router : router[k].left = 1}
         left(n) == IF n = Forever THEN n ELSE n - 1
     IN  /\ router' = [k \in DOMAIN router \ gone |->
                         [router[k] EXCEPT !.left = left(@)]]
         /\ renewal' = [renewal EXCEPT !.left = left(@)]
  /\ UNCHANGED <<mappings, init_step, release, released, disturbed, others, crashes>>

PortKey == {Ports[i].protocol : i \in DOMAIN Ports} \X (1..MaxPort)

Next ==
  \/ DiscoverGateway \/ CleanupOldMappings \/ MapPort \/ Verify
  \/ Wake \/ Renew
  \/ Release \/ Remove
  \/ Crash
  \/ \E k \in PortKey : OtherHost(k)
  \/ Tick

-----------------------------------------------------------------------------
ours == {k \in DOMAIN router : router[k].host = Us}

\* Between init and release_all, and while the router does as it is told, our
\* mappings on it are exactly the ones we report: no lease runs out before it
\* is renewed, and nothing is left of a run that crashed.
RouterAgrees ==
  init_step = done /\ release = <<>> /\ ~released /\ ~disturbed =>
    ours = {key(mappings[i]) : i \in DOMAIN mappings}

\* After release_all all our mappings are gone for good in the end, even those
\* that the renewal task, working on its copy, has put back.
ReleasedGoes == released ~> ([](ours = {}) \/ init_step = off)

=============================================================================
