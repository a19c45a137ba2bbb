---------------------------- MODULE StoreWatcher ----------------------------
(***************************************************************************)
(* The storage client and its watcher: a badger key/value store, the       *)
(* polling loop that turns differences between two snapshots of a key      *)
(* prefix into PUT and DELETE events, the buffered channel the events      *)
(* travel through, and the in-memory map `entries` the rest of the program *)
(* reads instead of the store.                                             *)
(*                                                                         *)
(* The module is open: Put and Delete are what a user of storage.Client    *)
(* does to the store; WatchedStore closes it with arbitrary writers and    *)
(* DhcpServer with the DHCP handlers.                                      *)
(***************************************************************************)
EXTENDS Integers, Sequences, FiniteSets

CONSTANTS
  Keys,        \* the keys below the watched prefix
  Values,      \* what a key may hold
  NoValue,     \* the absence of a value
  Visible,     \* the keys whose events handleEvent does not filter out
  ChanCap,     \* capacity of the event channel (100 in the code)
  ReadFaults   \* whether copying a value out of the store may fail

ASSUME WatcherAssumption ==
  /\ NoValue \notin Values
  /\ Visible \subseteq Keys
  /\ ChanCap \in Nat \ {0}
  /\ ReadFaults \in BOOLEAN

VARIABLES
  store,       \* the badger database
  entries,     \* Watcher.entries
  lastData,    \* watchLoop's previous snapshot
  pend,        \* events of the current tick not yet sent
  chan,        \* WatchChan
  phase        \* where the watcher is in its life

watchVars == <<entries, lastData, pend, chan, phase>>

Held == Values \cup {NoValue}

\* storage.Event.  An event whose val is NoValue is a DELETE, any other a PUT.
Event == [key : Keys, val : Held]

IsPut(e) == e.val # NoValue

Absent == [k \in Keys |-> NoValue]

WatcherTypeOK ==
  /\ store \in [Keys -> Held]
  /\ entries \in [Keys -> Held]
  /\ lastData \in [Keys -> Held]
  /\ pend \subseteq Event
  /\ chan \in Seq(Event)
  /\ phase \in {"down", "watching", "cancelled", "closed"}

(***************************************************************************)
(* storage.Client.                                                         *)
(***************************************************************************)

\* Client.Put: one update transaction under the client's write lock.
Put(k, v) == store' = [store EXCEPT ![k] = v]

\* Mutant: a delete writes an empty value, here 0, and leaves the key.
DeleteByEmptyValue(k) == store' = [store EXCEPT ![k] = 0]

\* Client.Delete of a single key; deleting an absent key is no error.
Delete(k) == store' = [store EXCEPT ![k] = NoValue]

\* The keys whose value may fail to be copied in one scan; a scan skips them.
Unreadable == IF ReadFaults THEN SUBSET Keys ELSE {{}}

\* One read transaction over the prefix (Client.Get, and each tick's scan).
Snapshot(bad) == [k \in Keys |-> IF k \in bad THEN NoValue ELSE store[k]]

(***************************************************************************)
(* Watcher.                                                                *)
(***************************************************************************)

\* Watcher.handleEvent.  The DHCP service installs no beforeUpdate callback.
HandleEvent(m, e) ==
  IF e.key \in Visible THEN [m EXCEPT ![e.key] = e.val] ELSE m

\* The watcher of a process that has not started it yet.
WatcherDown ==
  /\ entries = Absent
  /\ lastData = Absent
  /\ pend = {}
  /\ chan = <<>>
  /\ phase = "down"

\* Mutant: the initial load is left to the first tick.
LoadNothing ==
  /\ phase = "down"
  /\ entries' = Absent
  /\ lastData' = Absent
  /\ phase' = "watching"
  /\ UNCHANGED <<store, pend, chan>>

\* Watcher.Start: loadInitial puts every entry it read through handleEvent,
\* then the watch goroutine starts with an empty previous snapshot.  Nobody
\* reads entries before Start returns, so the load is one step.
LoadInitial ==
  /\ phase = "down"
  /\ \E bad \in Unreadable :
       entries' = [k \in Keys |-> IF k \in Visible THEN Snapshot(bad)[k]
                                                   ELSE NoValue]
  /\ lastData' = Absent
  /\ phase' = "watching"
  /\ UNCHANGED <<store, pend, chan>>

\* Mutant: keys that are gone are not reported.
DiffPutsOnly(old, new) ==
  {[key |-> k, val |-> new[k]] :
     k \in {j \in Keys : old[j] # new[j] /\ new[j] # NoValue}}

\* Mutant: keys whose value has changed are not reported.
DiffNewAndGone(old, new) ==
  {[key |-> k, val |-> new[k]] :
     k \in {j \in Keys : old[j] # new[j] /\ NoValue \in {old[j], new[j]}}}

\* The events that lead from snapshot old to snapshot new.
Diff(old, new) ==
  {[key |-> k, val |-> new[k]] : k \in {j \in Keys : old[j] # new[j]}}

\* A tick of watchLoop: a scan, and the differences with the previous one.
\* After Cancel select may still pick the ticker.
Tick ==
  /\ phase \in {"watching", "cancelled"}
  /\ pend = {}
  /\ \E bad \in Unreadable :
       /\ lastData' = Snapshot(bad)
       /\ pend' = Diff(lastData, Snapshot(bad))
  /\ UNCHANGED <<store, entries, chan, phase>>

\* watchLoop sends an event, or blocks while the channel is full: the PUTs of
\* a tick in map order, that is in any order, then its DELETEs.
Send(e) ==
  /\ e \in pend
  /\ IsPut(e) \/ \A f \in pend : ~IsPut(f)
  /\ Len(chan) < ChanCap
  /\ chan' = Append(chan, e)
  /\ pend' = pend \ {e}
  /\ UNCHANGED <<store, entries, lastData, phase>>

\* Mutant: the newest event is taken first.
DeliverNewest ==
  /\ chan # <<>>
  /\ entries' = HandleEvent(entries, chan[Len(chan)])
  /\ chan' = SubSeq(chan, 1, Len(chan) - 1)
  /\ UNCHANGED <<store, lastData, pend, phase>>

\* startWatch takes the oldest event and applies it.
Deliver ==
  /\ chan # <<>>
  /\ entries' = HandleEvent(entries, Head(chan))
  /\ chan' = Tail(chan)
  /\ UNCHANGED <<store, lastData, pend, phase>>

\* Watcher.Stop: without a beforeUpdate callback it only cancels the context.
Cancel ==
  /\ phase = "watching"
  /\ phase' = "cancelled"
  /\ UNCHANGED <<store, entries, lastData, pend, chan>>

\* watchLoop sees ctx.Done and closes the channel; startWatch still drains it.
Close ==
  /\ phase = "cancelled"
  /\ pend = {}
  /\ phase' = "closed"
  /\ UNCHANGED <<store, entries, lastData, pend, chan>>

\* The process ends, by a crash or by exiting after a stop: only the store
\* survives.
Exit ==
  /\ phase # "down"
  /\ entries' = Absent
  /\ lastData' = Absent
  /\ pend' = {}
  /\ chan' = <<>>
  /\ phase' = "down"
  /\ UNCHANGED store

WatchStep ==
  \/ LoadInitial
  \/ Tick
  \/ \E e \in pend : Send(e)
  \/ Deliver

=============================================================================
