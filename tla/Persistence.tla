---------------------------- MODULE Persistence ----------------------------
(***************************************************************************)
(* The DHT state on disk, src/persistence.rs: save writes a temporary file *)
(* and renames it, load reads the file back after a restart and restore    *)
(* puts its contents into the routing table and the peer store. The        *)
(* process may crash between any two steps (the machine does not: there is *)
(* no fsync), and any step on the disk may fail.                           *)
(*                                                                         *)
(* One task saves. The addresses of nodes are written as bytes; those of   *)
(* peers as text that restore can only parse when it is IPv4.              *)
(***************************************************************************)
EXTENDS Integers, FiniteSets

CONSTANTS
  Node,         \* [id, addr]: entries of a routing table
  PeerV4, PeerV6,
  interval,
  SaveMaxTime,  \* bound of the clock
  MaxRestarts   \* bound of the crashes

Nothing == [is |-> "none"]   \* no file
Torn == [is |-> "torn"]      \* a file cut off in the middle
Whole(state) == [is |-> "whole", state |-> state]
Never == -1

VARIABLES
  table, store,   \* in memory: nodes and peers
  file, tmp,      \* on disk: Nothing, Torn or Whole
  saver,          \* the save under way: [pc, state]
  last_save,
  up,             \* "down", "running", or "restored" before anything changes
  saved,          \* history: what memory held at the last save that succeeded
  saveNow, restarts

saveVars == <<table, store, file, tmp, saver, last_save, up, saved, saveNow, restarts>>

no_save == [pc |-> "none"]
empty == [nodes |-> {}, peers |-> {}]

Init ==
  /\ table = {} /\ store = {}
  /\ file = Nothing /\ tmp = Nothing
  /\ saver = no_save /\ last_save = Never
  /\ up = "running" /\ saved = empty
  /\ saveNow = 0 /\ restarts = 0

\* The table and the store change as the DHT client runs (their modules say how).
Change(T, S) ==
  /\ up # "down" /\ saver.pc = "none"
  /\ table' = T /\ store' = S
  /\ up' = "running"
  /\ UNCHANGED <<file, tmp, saver, last_save, saved, saveNow, restarts>>

-----------------------------------------------------------------------------
should_save == last_save = Never \/ saveNow - last_save >= interval

\* One entry per id, whichever comes last.
by_id(T) ==
  {S \in SUBSET T : /\ {n.id : n \in S} = {n.id : n \in T}
                    /\ \A m, n \in S : m.id = n.id => m = n}

\* The state is put together in memory while the caller holds both.
Save ==
  /\ up # "down" /\ saver.pc = "none" /\ should_save
  /\ \E nodes \in by_id(table) :
       saver' = [pc |-> "write", state |-> [nodes |-> nodes, peers |-> store]]
  /\ UNCHANGED <<table, store, file, tmp, last_save, up, saved, saveNow, restarts>>

\* Planted fault: the file itself is written.
Write_in_place ==
  /\ saver.pc = "write"
  /\ file' = Torn
  /\ saver' = [saver EXCEPT !.pc = "rename"]
  /\ UNCHANGED <<table, store, tmp, last_save, up, saved, saveNow, restarts>>

\* fs::write opens and truncates the temporary file.
Write ==
  /\ saver.pc = "write"
  /\ tmp' = Torn
  /\ saver' = [saver EXCEPT !.pc = "fill"]
  /\ UNCHANGED <<table, store, file, last_save, up, saved, saveNow, restarts>>

\* It is written to the end.
Fill ==
  /\ saver.pc = "fill"
  /\ tmp' = Whole(saver.state)
  /\ saver' = [saver EXCEPT !.pc = "rename"]
  /\ UNCHANGED <<table, store, file, last_save, up, saved, saveNow, restarts>>

Rename ==
  /\ saver.pc = "rename"
  /\ file' = tmp /\ tmp' = Nothing
  /\ saved' = saver.state
  /\ last_save' = saveNow
  /\ saver' = no_save
  /\ UNCHANGED <<table, store, up, saveNow, restarts>>

\* A step on the disk fails: what is written so far stays.
SaveFails ==
  /\ saver.pc # "none"
  /\ saver' = no_save
  /\ UNCHANGED <<table, store, file, tmp, last_save, up, saved, saveNow, restarts>>

-----------------------------------------------------------------------------
Crash ==
  /\ up # "down" /\ restarts < MaxRestarts
  /\ restarts' = restarts + 1
  /\ up' = "down"
  /\ table' = {} /\ store' = {}
  /\ saver' = no_save /\ last_save' = Never
  /\ UNCHANGED <<file, tmp, saved, saveNow>>

\* load: the state in the file. Without a file the start is a cold one, and so
\* it is with one that cannot be parsed, for the caller has nothing to restore.
loaded == IF file.is = "whole" THEN file.state ELSE empty

\* restore: insert may refuse a node; every peer that can be parsed is announced
\* again, as if it were new.
Restart ==
  /\ up = "down"
  /\ \E T \in SUBSET loaded.nodes : table' = T
  /\ store' = loaded.peers \cap PeerV4
  /\ up' = "restored"
  /\ UNCHANGED <<file, tmp, saver, last_save, saved, saveNow, restarts>>

Tick ==
  /\ saveNow < SaveMaxTime
  /\ saveNow' = saveNow + 1
  /\ UNCHANGED <<table, store, file, tmp, saver, last_save, up, saved, restarts>>

Next ==
  \/ \E T \in SUBSET Node, S \in SUBSET (PeerV4 \cup PeerV6) : Change(T, S)
  \/ Save \/ Write \/ Fill \/ Rename \/ SaveFails
  \/ Crash \/ Restart
  \/ Tick

-----------------------------------------------------------------------------
\* Whenever the process crashes, also in the middle of a save, or a save
\* fails, the next start finds the last state saved as a whole: all its IPv4
\* peers and no node that was not in it.
RestoredIsLastSaved ==
  up = "restored" => /\ store = saved.peers \cap PeerV4
                     /\ table \subseteq saved.nodes

=============================================================================
