---------------------------- MODULE WatchedStore ----------------------------
(***************************************************************************)
(* StoreWatcher closed with writers that put and delete any key at any     *)
(* time, which is more than the DHCP handlers do.  Every put stores a      *)
(* value never stored before (a lease carries its expiry time), so a value *)
(* also says which write it comes from: that is what lets the properties   *)
(* below speak of older and newer cache contents.                          *)
(***************************************************************************)
EXTENDS StoreWatcher

CONSTANTS
  MaxWrites,   \* bound on the number of writes, deletes included
  MaxFaults,   \* bound on the number of scans that fail to read some key
  Restarts     \* whether the process may stop, crash and start again

ASSUME WritesAssumption ==
  /\ MaxWrites \in Nat /\ MaxFaults \in Nat
  /\ Values = 1..(MaxWrites + 1)
  /\ Restarts \in BOOLEAN

VARIABLES
  writes,      \* writes done so far: the next fresh value is writes + 1
  faults,      \* faulty scans so far
  newest       \* history: the newest value of each key entries has held

vars == <<store, entries, lastData, pend, chan, phase, writes, faults, newest>>

TypeOK ==
  /\ WatcherTypeOK
  /\ writes \in 1..(MaxWrites + 1)
  /\ faults \in 0..MaxFaults
  /\ newest \in [Keys -> 0..(MaxWrites + 1)]

Init ==
  /\ store \in [Keys -> {NoValue, 1}]
  /\ WatcherDown
  /\ writes = 1
  /\ faults = 0
  /\ newest = [k \in Keys |-> 0]

PutKey(k) ==
  /\ writes <= MaxWrites
  /\ writes' = writes + 1
  /\ Put(k, writes')
  /\ UNCHANGED <<watchVars, faults, newest>>

DeleteKey(k) ==
  /\ writes <= MaxWrites
  /\ store[k] # NoValue
  /\ writes' = writes + 1
  /\ Delete(k)
  /\ UNCHANGED <<watchVars, faults, newest>>

\* A scan that misses a stored key.
Misread ==
  \/ Tick /\ lastData' # store
  \/ LoadInitial /\ \E k \in Visible : entries'[k] # store[k]

\* A step of the watcher, with the history it leaves and the faulty scans
\* counted.
Watch ==
  /\ WatchStep
  /\ newest' = [k \in Keys |-> IF entries'[k] = NoValue THEN newest[k]
                                                       ELSE entries'[k]]
  /\ faults' = IF Misread THEN faults + 1 ELSE faults
  /\ faults' <= MaxFaults
  /\ UNCHANGED writes

Restart ==
  /\ Restarts
  /\ Cancel \/ Close \/ Exit
  /\ UNCHANGED <<writes, faults, newest>>

Next ==
  \/ \E k \in Keys : PutKey(k) \/ DeleteKey(k)
  \/ Watch
  \/ Restart

Spec == Init /\ [][Next]_vars

\* The ticker fires every 100ms, the loop's goroutine and the consumer's run.
FairSpec == Spec /\ WF_vars(Watch)

(***************************************************************************)
(* Properties.                                                             *)
(***************************************************************************)

Queued == {chan[i] : i \in DOMAIN chan}

\* A cache entry nothing will ever take away: its key is gone from the store,
\* the polling loop has no record of it, and no event for it is under way.
Orphan(k) ==
  /\ entries[k] # NoValue
  /\ store[k] = NoValue
  /\ lastData[k] = NoValue
  /\ \A e \in pend \cup Queued : e.key # k

\* A value the cache has replaced or dropped never comes back: whatever the
\* interleaving of writers, ticks and deliveries, each entry only moves to
\* values written later (watchLoop, startWatch).  Only a restart, and a scan
\* that failed to read the key, can bring back the one it held last.
NoStaleReturn ==
  [][\A k \in Keys :
       (entries'[k] # entries[k] /\ entries'[k] # NoValue) =>
         \/ entries'[k] > newest[k]
         \/ entries'[k] = newest[k] /\ (phase = "down" \/ faults > 0)]_vars

\* The only way to leave an orphan entry behind is to delete a key the polling
\* loop has not seen yet, that is one loaded by loadInitial and deleted before
\* the first tick (or put and deleted between two ticks while an older DELETE
\* is under way): no tick and no delivery ever loses a deletion.
OrphanOnlyIfUnseen ==
  [][\A k \in Keys :
       (Orphan(k)' /\ ~Orphan(k)) =>
         \/ store[k] # NoValue /\ store'[k] = NoValue /\ lastData[k] = NoValue
         \/ phase = "down"]_vars

\* What the polling loop has seen arrives: a visible key with no event under way
\* is in the cache with the value the loop saw last, also while other keys'
\* events fill the channel, and however often the key was deleted and put again.
\* So a watcher with nothing left to do agrees with the store but for the orphans.
ReportsArrive ==
  \A k \in Visible :
    (lastData[k] # NoValue /\ \A e \in pend \cup Queued : e.key # k)
      => entries[k] = lastData[k]

\* Once the writers are done and the process stays up, the cache ends up
\* agreeing with the store on every visible key but the orphans, even when scans
\* have failed and the process has crashed in between.
Converges ==
  \A k \in Visible :
    <>[](phase = "watching") => <>[](entries[k] = store[k] \/ Orphan(k))

=============================================================================
