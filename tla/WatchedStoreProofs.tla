------------------------- MODULE WatchedStoreProofs -------------------------
(***************************************************************************)
(* Theorems about WatchedStore, for any keys, any capacity of the channel, *)
(* and any number of writes and faults.  The argument follows the values   *)
(* of one key through the pipeline: what entries has held, the events in   *)
(* the channel, those of the current tick, the polling loop's snapshot and *)
(* the store come in the order the values were written.                    *)
(***************************************************************************)
EXTENDS WatchedStore, TLAPS

(***************************************************************************)
(* The inductive invariant.                                                *)
(***************************************************************************)

Down == phase = "down" => entries = Absent /\ lastData = Absent /\ chan = <<>> /\ pend = {}

\* entries holds visible keys only, and newest is right about it.
Seen ==
  /\ \A k \in Keys \ Visible : entries[k] = NoValue /\ newest[k] = 0
  /\ \A k \in Keys : entries[k] # NoValue => newest[k] = entries[k]

Written == 0..(MaxWrites + 1)

\* v was read from the store under key k at some time.
Passed(k, v) ==
  \/ v = newest[k]
  \/ v = lastData[k] /\ v # NoValue
  \/ \E e \in pend : e.key = k /\ e.val = v /\ IsPut(e)
  \/ \E i \in DOMAIN chan : chan[i].key = k /\ chan[i].val = v /\ IsPut(chan[i])

\* Nothing that was read is newer than what is stored.
Behind ==
  \A k \in Keys :
    /\ store[k] # NoValue => store[k] <= writes
    /\ \A v \in Written : Passed(k, v) =>
         /\ v <= writes
         /\ store[k] # NoValue => v <= store[k]
         /\ lastData[k] # NoValue => v <= lastData[k]

\* A scan that failed may make a value travel twice.
Before(v, w) == v < w \/ (faults > 0 /\ v = w)

NoEvent(k) == (\A e \in pend : e.key # k) /\ \A i \in DOMAIN chan : chan[i].key # k

\* The PUTs of a key travel in the order of the writes.  The first tick sends what
\* loadInitial has put into entries once more.
Ordered ==
  /\ \A i, j \in DOMAIN chan :
       (i < j /\ chan[i].key = chan[j].key /\ IsPut(chan[i]) /\ IsPut(chan[j]))
         => Before(chan[i].val, chan[j].val)
  /\ \A i \in DOMAIN chan, e \in pend :
       (chan[i].key = e.key /\ IsPut(chan[i]) /\ IsPut(e)) => Before(chan[i].val, e.val)
  /\ \A i \in DOMAIN chan : IsPut(chan[i]) =>
       \/ Before(newest[chan[i].key], chan[i].val)
       \/ /\ chan[i].val = newest[chan[i].key] /\ chan[i].val = entries[chan[i].key]
          /\ \A j \in DOMAIN chan : j < i => chan[j].key # chan[i].key
  /\ \A e \in pend : IsPut(e) =>
       \/ Before(newest[e.key], e.val)
       \/ /\ e.val = newest[e.key] /\ e.val = entries[e.key]
          /\ \A j \in DOMAIN chan : chan[j].key # e.key

\* What the polling loop has no record of is new, or was loaded by loadInitial.
Unrecorded ==
  \A k \in Keys :
    (phase # "down" /\ lastData[k] = NoValue /\ store[k] # NoValue) =>
      \/ \A v \in Written : Passed(k, v) => Before(v, store[k])
      \/ store[k] = newest[k] /\ store[k] = entries[k] /\ NoEvent(k)

\* The last event of a key that is under way brings what lastData records.
Recorded ==
  /\ \A e \in pend : e.val = lastData[e.key]
  /\ \A i \in DOMAIN chan :
       (/\ \A j \in DOMAIN chan : j > i => chan[j].key # chan[i].key
        /\ \A e \in pend : e.key # chan[i].key)
         => chan[i].val = lastData[chan[i].key]

CacheInv ==
  TypeOK /\ Down /\ Seen /\ Behind /\ Ordered /\ Unrecorded /\ Recorded

(***************************************************************************)
(* Lemmas.                                                                 *)
(***************************************************************************)

LEMMA ValueTypes ==
  /\ Values \subseteq Nat /\ NoValue \notin Values /\ MaxWrites \in Nat /\ MaxFaults \in Nat
  /\ Visible \subseteq Keys /\ Values = 1..(MaxWrites + 1)
BY WritesAssumption, WatcherAssumption

LEMMA EventFields ==
  ASSUME NEW e \in Event
  PROVE  /\ e.key \in Keys /\ e.val \in Held
         /\ IsPut(e) => e.val \in Values
BY DEF Event, Held, IsPut

LEMMA SameEvent ==
  ASSUME NEW e \in Event, NEW f \in Event, e.key = f.key, e.val = f.val
  PROVE  e = f
BY DEF Event

\* The values a key can be read with are numbers.
LEMMA PassedTypes ==
  ASSUME TypeOK, NEW k \in Keys, NEW v, Passed(k, v)
  PROVE  v \in Written
<1>1. CASE v = newest[k]
  BY <1>1, ValueTypes DEF TypeOK, Written
<1>2. CASE v = lastData[k] /\ v # NoValue
  BY <1>2, ValueTypes DEF TypeOK, WatcherTypeOK, Held, Written
<1>3. ASSUME NEW e \in pend, e.val = v, IsPut(e)
      PROVE  v \in Written
  BY <1>3, EventFields, ValueTypes DEF TypeOK, WatcherTypeOK, Written
<1>4. ASSUME NEW i \in DOMAIN chan, chan[i].val = v, IsPut(chan[i])
      PROVE  v \in Written
  BY <1>4, EventFields, ValueTypes DEF TypeOK, WatcherTypeOK, Written
<1> QED BY <1>1, <1>2, <1>3, <1>4 DEF Passed

(***************************************************************************)
(* Each step keeps the invariant.                                          *)
(***************************************************************************)

LEMMA CacheInit == Init => CacheInv
<1> SUFFICES ASSUME Init PROVE CacheInv
  OBVIOUS
<1> USE ValueTypes
<1>1. /\ store \in [Keys -> {NoValue, 1}] /\ entries = Absent /\ lastData = Absent
      /\ pend = {} /\ chan = <<>> /\ phase = "down" /\ writes = 1 /\ faults = 0
      /\ newest = [k \in Keys |-> 0]
  BY DEF Init, WatcherDown
<1>2. 1 \in Values
  OBVIOUS
<1>3. TypeOK
  <2>1. store \in [Keys -> Held]
    BY <1>1, <1>2 DEF Held
  <2>2. Absent \in [Keys -> Held]
    BY DEF Absent, Held
  <2>3. chan \in Seq(Event) /\ pend \subseteq Event
    BY <1>1
  <2> QED BY <1>1, <2>1, <2>2, <2>3 DEF TypeOK, WatcherTypeOK
<1>4. Behind
  <2>1. \A k \in Keys, v \in Written : Passed(k, v) => v = 0
    BY <1>1 DEF Passed, Absent
  <2>2. \A k \in Keys : lastData[k] = NoValue /\ (store[k] # NoValue => store[k] = 1)
    BY <1>1 DEF Absent
  <2> QED BY <1>1, <2>1, <2>2 DEF Behind
<1>5. Down /\ Seen /\ Ordered /\ Unrecorded /\ Recorded
  BY <1>1 DEF Down, Seen, Ordered, Unrecorded, Recorded, Absent
<1> QED BY <1>3, <1>4, <1>5 DEF CacheInv

\* A write of a fresh value, or a delete.
LEMMA WriterStep ==
  ASSUME CacheInv, NEW k \in Keys, PutKey(k) \/ DeleteKey(k)
  PROVE  CacheInv'
<1> USE ValueTypes
<1>0. TypeOK /\ Down /\ Seen /\ Behind /\ Ordered /\ Unrecorded /\ Recorded
  BY DEF CacheInv
<1>1. PICK x \in Values \cup {NoValue} :
        /\ store' = [store EXCEPT ![k] = x] /\ (x # NoValue => x = writes')
        /\ writes' = writes + 1 /\ writes' \in 1..(MaxWrites + 1)
        /\ UNCHANGED <<entries, lastData, pend, chan, phase, faults, newest>>
  <2>1. /\ writes' = writes + 1 /\ writes' \in 1..(MaxWrites + 1)
        /\ UNCHANGED <<entries, lastData, pend, chan, phase, faults, newest>>
    BY <1>0 DEF PutKey, DeleteKey, watchVars, TypeOK
  <2>2. CASE PutKey(k)
    <3>1. store' = [store EXCEPT ![k] = writes'] /\ writes' \in Values
      BY <2>1, <2>2 DEF PutKey, Put
    <3> QED BY <2>1, <3>1
  <2>3. CASE DeleteKey(k)
    <3>1. store' = [store EXCEPT ![k] = NoValue]
      BY <2>3 DEF DeleteKey, Delete
    <3> QED BY <2>1, <3>1
  <2> QED BY <2>2, <2>3
<1>2. \A j \in Keys : \A v : Passed(j, v)' <=> Passed(j, v)
  BY <1>1 DEF Passed
<1>3. TypeOK'
  BY <1>0, <1>1 DEF TypeOK, WatcherTypeOK, Held
<1>4. Down' /\ Seen' /\ Recorded'
  BY <1>0, <1>1 DEF Down, Seen, Recorded
<1>5. \A v, w : Before(v, w)' <=> Before(v, w)
  BY <1>1 DEF Before
<1>6. Ordered'
  BY <1>0, <1>1, <1>5 DEF Ordered
<1>7. Behind'
  <2> SUFFICES ASSUME NEW j \in Keys
               PROVE  /\ store'[j] # NoValue => store'[j] <= writes'
                      /\ \A v \in Written : Passed(j, v) =>
                           /\ v <= writes'
                           /\ store'[j] # NoValue => v <= store'[j]
                           /\ lastData[j] # NoValue => v <= lastData[j]
    BY <1>1, <1>2 DEF Behind, Written
  <2>1. writes \in Nat /\ (store[j] # NoValue => store[j] \in Nat)
    BY <1>0 DEF TypeOK, WatcherTypeOK, Held
  <2>2. store'[j] = (IF j = k THEN x ELSE store[j])
    BY <1>0, <1>1 DEF TypeOK, WatcherTypeOK
  <2> QED BY <1>0, <1>1, <2>1, <2>2 DEF Behind, Written
<1>8. Unrecorded'
  <2> SUFFICES ASSUME NEW j \in Keys, phase # "down", lastData[j] = NoValue,
                      store'[j] # NoValue
               PROVE  \/ \A v \in Written : Passed(j, v) => Before(v, store'[j])
                      \/ store'[j] = newest[j] /\ store'[j] = entries[j] /\ NoEvent(j)
    BY <1>1, <1>2, <1>5 DEF Unrecorded, NoEvent, Written
  <2>1. CASE j = k
    <3>1. store'[j] = writes + 1 /\ writes \in Nat
      BY <1>0, <1>1, <2>1 DEF TypeOK, WatcherTypeOK
    <3> QED BY <1>0, <3>1 DEF Behind, Before, Written
  <2>2. CASE j # k
    BY <1>0, <1>1, <2>2 DEF Unrecorded, TypeOK, WatcherTypeOK
  <2> QED BY <2>1, <2>2
<1> QED BY <1>3, <1>4, <1>6, <1>7, <1>8 DEF CacheInv

\* Stopping and ending the process.
LEMMA RestartStep ==
  ASSUME CacheInv, Restart
  PROVE  CacheInv'
<1> USE ValueTypes
<1>0. TypeOK /\ Down /\ Seen /\ Behind /\ Ordered /\ Unrecorded /\ Recorded
  BY DEF CacheInv
<1>1. CASE Cancel \/ Close
  <2>1. /\ UNCHANGED <<store, entries, lastData, pend, chan, writes, faults, newest>>
        /\ phase # "down" /\ phase' \in {"cancelled", "closed"}
    BY <1>1 DEF Restart, Cancel, Close, Exit
  <2>2. /\ \A j \in Keys : \A v : Passed(j, v)' <=> Passed(j, v)
        /\ \A v, w : Before(v, w)' <=> Before(v, w)
        /\ \A j \in Keys : NoEvent(j)' <=> NoEvent(j)
        /\ Written' = Written
    BY <2>1 DEF Passed, Before, NoEvent, Written
  <2>3. TypeOK' /\ Down' /\ Seen' /\ Recorded'
    BY <1>0, <2>1 DEF TypeOK, WatcherTypeOK, Down, Seen, Recorded
  <2>4. Behind' /\ Ordered' /\ Unrecorded'
    BY <1>0, <2>1, <2>2 DEF Behind, Ordered, Unrecorded
  <2> QED BY <2>3, <2>4 DEF CacheInv
<1>2. CASE Exit
  <2>1. /\ UNCHANGED <<store, writes, faults, newest>>
        /\ entries' = Absent /\ lastData' = Absent /\ pend' = {} /\ chan' = <<>>
        /\ phase' = "down"
    BY <1>2 DEF Restart, Exit
  <2>2. Absent \in [Keys -> Held] /\ \A j \in Keys : Absent[j] = NoValue
    BY DEF Absent, Held
  <2>3. TypeOK'
    BY <1>0, <2>1, <2>2 DEF TypeOK, WatcherTypeOK
  <2>4. Down' /\ Seen' /\ Recorded' /\ Ordered' /\ Unrecorded'
    BY <1>0, <2>1, <2>2 DEF Down, Seen, Recorded, Ordered, Unrecorded
  <2>5. \A j \in Keys : \A v : Passed(j, v)' => Passed(j, v)
    BY <2>1, <2>2 DEF Passed
  <2>6. Behind'
    BY <1>0, <2>1, <2>2, <2>5 DEF Behind, Written
  <2> QED BY <2>3, <2>4, <2>6 DEF CacheInv
<1> QED BY <1>1, <1>2 DEF Restart

\* watchVars, and the history, in a step of the watcher.
LEMMA History ==
  ASSUME Watch
  PROVE  /\ newest' = [k \in Keys |-> IF entries'[k] = NoValue THEN newest[k]
                                                              ELSE entries'[k]]
         /\ faults' = (IF Misread THEN faults + 1 ELSE faults) /\ faults' <= MaxFaults
         /\ writes' = writes /\ store' = store
BY DEF Watch, WatchStep, LoadInitial, Tick, Send, Deliver

LEMMA LoadStep ==
  ASSUME CacheInv, Watch, LoadInitial
  PROVE  CacheInv'
<1> USE ValueTypes
<1>0. TypeOK /\ Down /\ Seen /\ Behind
  BY DEF CacheInv
<1>1. /\ phase = "down" /\ phase' = "watching" /\ lastData' = Absent
      /\ chan = <<>> /\ pend = {} /\ chan' = <<>> /\ pend' = {}
      /\ store' = store /\ writes' = writes
  BY <1>0, History DEF LoadInitial, Down
<1>2. /\ entries' \in [Keys -> Held]
      /\ \A k \in Keys : entries'[k] = store[k] \/ entries'[k] = NoValue
      /\ \A k \in Keys \ Visible : entries'[k] = NoValue
  BY <1>0 DEF LoadInitial, Snapshot, TypeOK, WatcherTypeOK, Held
<1>3. /\ newest' \in [Keys -> Written]
      /\ \A k \in Keys : newest'[k] = (IF entries'[k] = NoValue THEN newest[k] ELSE store[k])
  BY <1>0, <1>2, History DEF TypeOK, Written, Held
<1>4. faults \in Nat /\ faults' \in 0..MaxFaults /\ faults' >= faults
  BY <1>0, History DEF TypeOK
<1>5. faults' = 0 => \A k \in Visible : entries'[k] = store[k]
  BY <1>0, <1>4, History DEF Misread, TypeOK
<1>6. TypeOK'
  BY <1>0, <1>1, <1>2, <1>3, <1>4 DEF TypeOK, WatcherTypeOK, Absent, Held, Written
<1>7. Down' /\ Seen' /\ Ordered' /\ Recorded'
  <2>1. Down' /\ Ordered' /\ Recorded'
    BY <1>1 DEF Down, Ordered, Recorded
  <2>2. Seen'
    BY <1>0, <1>2, <1>3 DEF Seen
  <2> QED BY <2>1, <2>2
<1>8. \A k \in Keys : lastData'[k] = NoValue
  BY <1>1 DEF Absent
<1>9. \A k \in Keys, v \in Written :
        Passed(k, v)' => v = newest'[k]
  BY <1>1, <1>8 DEF Passed
<1>10. \A k \in Keys :
         /\ newest'[k] <= writes
         /\ store[k] # NoValue => newest'[k] <= store[k]
  <2> SUFFICES ASSUME NEW k \in Keys
               PROVE  /\ newest'[k] <= writes
                      /\ store[k] # NoValue => newest'[k] <= store[k]
    OBVIOUS
  <2>1. newest[k] \in Written /\ Passed(k, newest[k])
    BY <1>0 DEF TypeOK, Written, Passed
  <2>2. newest[k] <= writes /\ (store[k] # NoValue => newest[k] <= store[k])
    BY <1>0, <2>1 DEF Behind
  <2>3. store[k] # NoValue => store[k] \in Nat /\ store[k] <= writes
    BY <1>0 DEF Behind, TypeOK, WatcherTypeOK, Held
  <2> QED BY <1>2, <1>3, <2>2, <2>3
<1>11. Behind'
  BY <1>0, <1>1, <1>8, <1>9, <1>10 DEF Behind, Written
<1>12. Unrecorded'
  <2> SUFFICES ASSUME NEW k \in Keys, store[k] # NoValue
               PROVE  \/ \A v \in Written : Passed(k, v)' => Before(v, store[k])'
                      \/ /\ store[k] = newest'[k] /\ store[k] = entries'[k]
                         /\ NoEvent(k)'
    BY <1>1 DEF Unrecorded, Written, Before
  <2>1. store[k] \in Nat /\ newest'[k] \in Nat /\ newest'[k] <= store[k]
    BY <1>0, <1>3, <1>10 DEF TypeOK, WatcherTypeOK, Held, Written
  <2>2. NoEvent(k)'
    BY <1>1 DEF NoEvent
  <2>3. CASE entries'[k] # NoValue
    BY <1>2, <1>3, <2>2, <2>3
  <2>4. CASE entries'[k] = NoValue /\ faults' = 0
    <3>1. k \notin Visible /\ entries[k] = NoValue
      BY <1>0, <1>5, <2>4 DEF Seen
    <3>2. newest'[k] = 0 /\ store[k] # 0
      BY <3>1, <1>0, <1>3, <2>4 DEF Seen, TypeOK, WatcherTypeOK, Held
    <3> QED BY <1>1, <1>9, <2>1, <3>2 DEF Before, Written
  <2>5. CASE faults' > 0
    BY <1>1, <1>9, <2>1, <2>5 DEF Before, Written
  <2> QED BY <1>4, <2>3, <2>4, <2>5
<1> QED BY <1>6, <1>7, <1>11, <1>12 DEF CacheInv

LEMMA TickStep ==
  ASSUME CacheInv, Watch, Tick
  PROVE  CacheInv'
<1> USE ValueTypes
<1>0. TypeOK /\ Down /\ Seen /\ Behind /\ Ordered /\ Unrecorded /\ Recorded
  BY DEF CacheInv
<1>1. /\ phase # "down" /\ phase' = phase /\ pend = {} /\ chan' = chan
      /\ entries' = entries /\ store' = store /\ writes' = writes
  BY History DEF Tick
<1>2. /\ lastData' \in [Keys -> Held]
      /\ \A k \in Keys : lastData'[k] = store[k] \/ lastData'[k] = NoValue
      /\ pend' = Diff(lastData, lastData')
  BY <1>0 DEF Tick, Snapshot, TypeOK, WatcherTypeOK, Held
<1>3. newest' = newest
  <2>1. \A k \in Keys : newest'[k] = newest[k]
    BY <1>0, <1>1, History DEF Seen
  <2> QED BY <2>1, <1>0, History DEF TypeOK
<1>4. faults \in Nat /\ faults' \in 0..MaxFaults /\ faults' >= faults
  BY <1>0, History DEF TypeOK
<1>5. faults' = 0 => faults = 0 /\ lastData' = store
  <2>1. faults' = 0 => ~Misread
    BY <1>0, History DEF TypeOK
  <2> QED BY <1>4, <2>1 DEF Misread, Tick
<1>6. \A e \in pend' :
        /\ e \in Event /\ e.val = lastData'[e.key] /\ lastData'[e.key] # lastData[e.key]
        /\ IsPut(e) => e.val = store[e.key] /\ e.val \in Nat /\ e.val \in Values
  BY <1>0, <1>2 DEF Diff, Event, IsPut, TypeOK, WatcherTypeOK, Held
<1>7. \A k \in Keys : lastData'[k] # lastData[k] => \E e \in pend' : e.key = k
  <2> SUFFICES ASSUME NEW k \in Keys, lastData'[k] # lastData[k]
               PROVE  \E e \in pend' : e.key = k
    OBVIOUS
  <2>1. [key |-> k, val |-> lastData'[k]] \in pend'
    BY <1>2 DEF Diff
  <2> QED BY <2>1
<1>8. TypeOK'
  BY <1>0, <1>1, <1>2, <1>3, <1>4, <1>6 DEF TypeOK, WatcherTypeOK
<1>9. Down' /\ Seen'
  BY <1>0, <1>1, <1>3 DEF Down, Seen
<1>10. \A k \in Keys, v \in Written :
         Passed(k, v)' => Passed(k, v) \/ (store[k] # NoValue /\ v = store[k])
  BY <1>1, <1>2, <1>3, <1>6 DEF Passed
<1>11. \A k \in Keys : store[k] # NoValue => store[k] \in Nat /\ store[k] <= writes
  BY <1>0 DEF Behind, TypeOK, WatcherTypeOK, Held
<1>12. Behind'
  BY <1>0, <1>1, <1>2, <1>10, <1>11 DEF Behind, Written
\* The new PUTs come after everything on its way.
<1>13. ASSUME NEW e \in pend', IsPut(e), NEW v \in Written, Passed(e.key, v)
       PROVE  \/ Before(v, e.val)'
              \/ /\ e.val = newest[e.key] /\ e.val = entries[e.key] /\ v = newest[e.key]
                 /\ NoEvent(e.key)
  <2> DEFINE k == e.key
  <2>1. /\ k \in Keys /\ e.val = store[k] /\ store[k] # NoValue /\ store[k] \in Nat
        /\ lastData[k] # store[k] /\ v <= store[k] /\ v \in Nat
    BY <1>0, <1>6, <1>13, EventFields DEF Behind, IsPut, Written
  <2>2. CASE faults' > 0
    BY <2>1, <2>2 DEF Before
  <2>3. CASE faults' = 0 /\ lastData[k] # NoValue
    <3>1. lastData[k] \in Written /\ Passed(k, lastData[k])
      BY <1>0, <2>1, <2>3 DEF Passed, TypeOK, WatcherTypeOK, Held, Written
    <3>2. v <= lastData[k] /\ lastData[k] <= store[k] /\ lastData[k] \in Nat
      BY <1>0, <1>13, <2>1, <2>3, <3>1 DEF Behind, Written
    <3> QED BY <2>1, <3>2 DEF Before
  <2>4. CASE faults' = 0 /\ lastData[k] = NoValue
    <3>1. CASE \A w \in Written : Passed(k, w) => Before(w, store[k])
      BY <1>5, <1>13, <2>1, <2>4, <3>1 DEF Before
    <3>2. CASE store[k] = newest[k] /\ store[k] = entries[k] /\ NoEvent(k)
      <4>1. v = newest[k]
        BY <1>13, <2>4, <3>2 DEF Passed, NoEvent
      <4> QED BY <2>1, <3>2, <4>1
    <3> QED BY <1>0, <1>1, <2>1, <2>4, <3>1, <3>2 DEF Unrecorded
  <2> QED BY <1>4, <2>2, <2>3, <2>4
<1>14. \A v, w : Before(v, w) => Before(v, w)'
  BY <1>4 DEF Before
<1>15. Ordered'
  <2>1. \A i \in DOMAIN chan' : chan[i] \in Event /\ (IsPut(chan[i]) => chan[i].val \in Written)
    BY <1>0, <1>1, EventFields DEF TypeOK, WatcherTypeOK, Written
  <2>2. \A i \in DOMAIN chan, e \in pend' :
          (chan[i].key = e.key /\ IsPut(chan[i]) /\ IsPut(e)) => Before(chan[i].val, e.val)'
    <3> SUFFICES ASSUME NEW i \in DOMAIN chan, NEW e \in pend', chan[i].key = e.key,
                        IsPut(chan[i]), IsPut(e)
                 PROVE  Before(chan[i].val, e.val)'
      BY <1>1 DEF Before
    <3>1. Passed(e.key, chan[i].val)
      BY DEF Passed
    <3> QED BY <1>1, <1>13, <2>1, <3>1 DEF NoEvent, Before
  <2>3. \A e \in pend' : IsPut(e) =>
          \/ Before(newest[e.key], e.val)'
          \/ /\ e.val = newest[e.key] /\ e.val = entries[e.key]
             /\ \A j \in DOMAIN chan : chan[j].key # e.key
    <3> SUFFICES ASSUME NEW e \in pend', IsPut(e)
                 PROVE  \/ Before(newest[e.key], e.val)'
                        \/ /\ e.val = newest[e.key] /\ e.val = entries[e.key]
                           /\ \A j \in DOMAIN chan : chan[j].key # e.key
      OBVIOUS
    <3>1. newest[e.key] \in Written /\ Passed(e.key, newest[e.key])
      BY <1>0, <1>6, EventFields DEF TypeOK, Passed, Written
    <3> QED BY <1>3, <1>13, <3>1 DEF NoEvent, Before
  <2> QED BY <1>0, <1>1, <1>3, <1>14, <2>2, <2>3 DEF Ordered, Before
<1>16. Unrecorded'
  <2> SUFFICES ASSUME NEW k \in Keys, lastData'[k] = NoValue, store[k] # NoValue
               PROVE  \A v \in Written : Passed(k, v)' => Before(v, store[k])'
    BY <1>1 DEF Unrecorded, Written, Before
  <2>1. faults' > 0
    BY <1>4, <1>5
  <2>2. \A v \in Written : Passed(k, v)' => v <= store[k]
    BY <1>1, <1>12 DEF Behind, Written
  <2> QED BY <1>1, <1>11, <2>1, <2>2 DEF Before, Written
<1>17. Recorded'
  <2>1. \A i \in DOMAIN chan : chan[i].key \in Keys
    BY <1>0, EventFields DEF TypeOK, WatcherTypeOK
  <2>2. \A i \in DOMAIN chan :
          (\A e \in pend' : e.key # chan[i].key)
            => lastData'[chan[i].key] = lastData[chan[i].key]
    BY <1>7, <2>1
  <2> QED BY <1>0, <1>1, <1>6, <2>2 DEF Recorded
<1> QED BY <1>8, <1>9, <1>12, <1>15, <1>16, <1>17 DEF CacheInv

LEMMA SendStep ==
  ASSUME CacheInv, Watch, NEW e \in pend, Send(e)
  PROVE  CacheInv'
<1> USE ValueTypes
<1>0. TypeOK /\ Down /\ Seen /\ Behind /\ Ordered /\ Unrecorded /\ Recorded
  BY DEF CacheInv
<1>1. /\ phase' = phase /\ entries' = entries /\ store' = store /\ lastData' = lastData
      /\ chan' = Append(chan, e) /\ pend' = pend \ {e} /\ writes' = writes
  BY History DEF Send
<1>2. newest' = newest
  <2>1. \A k \in Keys : newest'[k] = newest[k]
    BY <1>0, <1>1, History DEF Seen
  <2> QED BY <2>1, <1>0, History DEF TypeOK
<1>3. faults' = faults
  <2>1. phase # "down"
    BY <1>0 DEF Down
  <2>2. ~Misread
    BY <1>1, <2>1 DEF Misread, Tick, LoadInitial, Send
  <2> QED BY <2>2, History
<1>4. /\ chan \in Seq(Event) /\ e \in Event /\ pend \subseteq Event /\ chan' \in Seq(Event)
      /\ Len(chan') = Len(chan) + 1 /\ Len(chan) \in Nat
      /\ DOMAIN chan = 1..Len(chan) /\ DOMAIN chan' = 1..Len(chan')
      /\ chan'[Len(chan')] = e /\ \A i \in 1..Len(chan) : chan'[i] = chan[i]
  BY <1>0, <1>1 DEF TypeOK, WatcherTypeOK
\* One event of a key is sent by a tick.
<1>5. \A f \in pend' : f \in pend /\ f.key # e.key
  BY <1>0, <1>1, <1>4, SameEvent DEF Recorded
<1>6. TypeOK'
  BY <1>0, <1>1, <1>2, <1>3, <1>4 DEF TypeOK, WatcherTypeOK
<1>7. Down' /\ Seen'
  BY <1>0, <1>1, <1>2 DEF Down, Seen
<1>8. \A k \in Keys, v \in Written : Passed(k, v)' => Passed(k, v)
  <2> SUFFICES ASSUME NEW k \in Keys, NEW v \in Written,
                      NEW i \in DOMAIN chan', chan'[i].key = k, chan'[i].val = v,
                      IsPut(chan'[i])
               PROVE  Passed(k, v)
    BY <1>1, <1>2, <1>5 DEF Passed
  <2> QED BY <1>4 DEF Passed
<1>9. Behind'
  BY <1>0, <1>1, <1>8 DEF Behind, Written
<1>10. \A v, w : Before(v, w)' <=> Before(v, w)
  BY <1>3 DEF Before
<1>11. Ordered'
  <2>1. \A i, j \in DOMAIN chan' :
          (i < j /\ chan'[i].key = chan'[j].key /\ IsPut(chan'[i]) /\ IsPut(chan'[j]))
            => Before(chan'[i].val, chan'[j].val)
    BY <1>0, <1>4 DEF Ordered
  <2>2. \A i \in DOMAIN chan', f \in pend' :
          (chan'[i].key = f.key /\ IsPut(chan'[i]) /\ IsPut(f)) => Before(chan'[i].val, f.val)
    BY <1>0, <1>4, <1>5 DEF Ordered
  <2>3. \A i \in DOMAIN chan' : IsPut(chan'[i]) =>
          \/ Before(newest[chan'[i].key], chan'[i].val)
          \/ /\ chan'[i].val = newest[chan'[i].key] /\ chan'[i].val = entries[chan'[i].key]
             /\ \A j \in DOMAIN chan' : j < i => chan'[j].key # chan'[i].key
    <3> SUFFICES ASSUME NEW i \in DOMAIN chan', IsPut(chan'[i])
                 PROVE  \/ Before(newest[chan'[i].key], chan'[i].val)
                        \/ /\ chan'[i].val = newest[chan'[i].key]
                           /\ chan'[i].val = entries[chan'[i].key]
                           /\ \A j \in DOMAIN chan' : j < i => chan'[j].key # chan'[i].key
      OBVIOUS
    <3>1. CASE i = Len(chan')
      BY <1>0, <1>4, <3>1 DEF Ordered
    <3>2. CASE i \in 1..Len(chan)
      BY <1>0, <1>4, <3>2 DEF Ordered
    <3> QED BY <1>4, <3>1, <3>2
  <2>4. \A f \in pend' : IsPut(f) =>
          \/ Before(newest[f.key], f.val)
          \/ /\ f.val = newest[f.key] /\ f.val = entries[f.key]
             /\ \A j \in DOMAIN chan' : chan'[j].key # f.key
    BY <1>0, <1>4, <1>5 DEF Ordered
  <2> QED BY <1>1, <1>2, <1>10, <2>1, <2>2, <2>3, <2>4 DEF Ordered
<1>12. \A k \in Keys : NoEvent(k) => NoEvent(k)'
  BY <1>1, <1>4 DEF NoEvent
<1>13. Unrecorded'
  BY <1>0, <1>1, <1>2, <1>8, <1>10, <1>12 DEF Unrecorded, Written
<1>14. Recorded'
  <2>1. \A f \in pend' : f.val = lastData'[f.key]
    BY <1>0, <1>1 DEF Recorded
  <2> SUFFICES ASSUME NEW i \in DOMAIN chan',
                      \A j \in DOMAIN chan' : j > i => chan'[j].key # chan'[i].key,
                      \A f \in pend' : f.key # chan'[i].key
               PROVE  chan'[i].val = lastData[chan'[i].key]
    BY <1>1, <2>1 DEF Recorded
  <2>2. CASE i = Len(chan')
    BY <1>0, <1>4, <2>2 DEF Recorded
  <2>3. CASE i \in 1..Len(chan)
    <3>1. e.key # chan[i].key
      BY <1>4, <2>3
    <3>2. \A f \in pend : f.key # chan[i].key
      BY <1>1, <1>4, <2>3, <3>1
    <3> QED BY <1>0, <1>4, <2>3, <3>2 DEF Recorded
  <2> QED BY <1>4, <2>2, <2>3
<1> QED BY <1>6, <1>7, <1>9, <1>11, <1>13, <1>14 DEF CacheInv

LEMMA DeliverStep ==
  ASSUME CacheInv, Watch, Deliver
  PROVE  CacheInv'
<1> USE ValueTypes
<1>0. TypeOK /\ Down /\ Seen /\ Behind /\ Ordered /\ Unrecorded /\ Recorded
  BY DEF CacheInv
<1> DEFINE e == Head(chan)
<1>1. /\ phase' = phase /\ store' = store /\ lastData' = lastData /\ pend' = pend
      /\ chan # <<>> /\ chan' = Tail(chan) /\ entries' = HandleEvent(entries, e)
      /\ writes' = writes
  BY History DEF Deliver
<1>2. /\ chan \in Seq(Event) /\ e \in Event /\ pend \subseteq Event /\ chan' \in Seq(Event)
      /\ Len(chan) \in Nat /\ Len(chan) >= 1 /\ Len(chan') = Len(chan) - 1
      /\ DOMAIN chan = 1..Len(chan) /\ DOMAIN chan' = 1..(Len(chan) - 1)
      /\ e = chan[1] /\ \A i \in 1..(Len(chan) - 1) : chan'[i] = chan[i + 1]
  BY <1>0, <1>1 DEF TypeOK, WatcherTypeOK
<1>3. faults' = faults
  <2>1. phase # "down"
    BY <1>0, <1>1 DEF Down
  <2>2. chan' # chan
    BY <1>2
  <2>3. ~Misread
    BY <2>1, <2>2 DEF Misread, Tick, LoadInitial
  <2> QED BY <2>3, History
<1>4. \A v, w : Before(v, w)' <=> Before(v, w)
  BY <1>3 DEF Before
<1>5. /\ e.key \in Keys /\ e.val \in Held
      /\ IsPut(e) => e.val \in Values /\ e.val \in Written
  BY <1>2, EventFields DEF Written
<1>6. /\ entries' \in [Keys -> Held]
      /\ \A k \in Keys :
           entries'[k] = (IF k = e.key /\ k \in Visible THEN e.val ELSE entries[k])
  BY <1>0, <1>1, <1>5 DEF HandleEvent, TypeOK, WatcherTypeOK
<1>7. /\ newest' \in [Keys -> Written]
      /\ \A k \in Keys :
           newest'[k] = (IF k = e.key /\ k \in Visible /\ IsPut(e) THEN e.val ELSE newest[k])
  <2>1. \A k \in Keys :
          newest'[k] = (IF k = e.key /\ k \in Visible /\ IsPut(e) THEN e.val ELSE newest[k])
    BY <1>0, <1>6, History DEF Seen, IsPut
  <2> QED BY <1>0, <1>5, <2>1, History DEF TypeOK, Written
<1>8. TypeOK'
  BY <1>0, <1>1, <1>2, <1>3, <1>6, <1>7 DEF TypeOK, WatcherTypeOK, Written
<1>9. Down' /\ Seen'
  BY <1>0, <1>1, <1>6, <1>7 DEF Down, Seen, IsPut
<1>10. \A k \in Keys, v \in Written : Passed(k, v)' => Passed(k, v)
  <2> SUFFICES ASSUME NEW k \in Keys, NEW v \in Written, Passed(k, v)'
               PROVE  Passed(k, v)
    OBVIOUS
  <2>1. CASE v = newest'[k]
    BY <1>2, <1>7, <2>1 DEF Passed
  <2>2. ASSUME NEW i \in DOMAIN chan', chan'[i].key = k, chan'[i].val = v, IsPut(chan'[i])
        PROVE  Passed(k, v)
    <3>1. i + 1 \in DOMAIN chan /\ chan[i + 1] = chan'[i]
      BY <1>2
    <3> QED BY <2>2, <3>1 DEF Passed
  <2> QED BY <1>1, <2>1, <2>2 DEF Passed
<1>11. Behind'
  BY <1>0, <1>1, <1>10 DEF Behind, Written
\* What follows e in the pipeline, and is a PUT of the same key, comes after it.
<1>12. Ordered'
  <2>0. /\ \A i \in DOMAIN chan' :
             i \in Nat /\ i >= 1 /\ i + 1 \in DOMAIN chan /\ chan'[i] = chan[i + 1]
        /\ 1 \in DOMAIN chan
    BY <1>2
  <2>1. \A i, j \in DOMAIN chan' :
          (i < j /\ chan'[i].key = chan'[j].key /\ IsPut(chan'[i]) /\ IsPut(chan'[j]))
            => Before(chan'[i].val, chan'[j].val)
    <3> SUFFICES ASSUME NEW i \in DOMAIN chan', NEW j \in DOMAIN chan', i < j,
                        chan'[i].key = chan'[j].key, IsPut(chan'[i]), IsPut(chan'[j])
                 PROVE  Before(chan'[i].val, chan'[j].val)
      OBVIOUS
    <3>1. i + 1 < j + 1 /\ i + 1 \in DOMAIN chan /\ j + 1 \in DOMAIN chan
          /\ chan'[i] = chan[i + 1] /\ chan'[j] = chan[j + 1]
      BY <2>0
    <3> QED BY <1>0, <3>1 DEF Ordered
  <2>2. \A i \in DOMAIN chan', f \in pend :
          (chan'[i].key = f.key /\ IsPut(chan'[i]) /\ IsPut(f)) => Before(chan'[i].val, f.val)
    BY <1>0, <2>0 DEF Ordered
  <2>3. \A i \in DOMAIN chan' : IsPut(chan'[i]) =>
          \/ Before(newest'[chan'[i].key], chan'[i].val)
          \/ /\ chan'[i].val = newest'[chan'[i].key] /\ chan'[i].val = entries'[chan'[i].key]
             /\ \A j \in DOMAIN chan' : j < i => chan'[j].key # chan'[i].key
    <3> SUFFICES ASSUME NEW i \in DOMAIN chan', IsPut(chan'[i])
                 PROVE  \/ Before(newest'[chan'[i].key], chan'[i].val)
                        \/ /\ chan'[i].val = newest'[chan'[i].key]
                           /\ chan'[i].val = entries'[chan'[i].key]
                           /\ \A j \in DOMAIN chan' : j < i => chan'[j].key # chan'[i].key
      OBVIOUS
    <3>1. i + 1 \in DOMAIN chan /\ chan[i + 1] = chan'[i] /\ chan[i + 1].key \in Keys
      BY <1>2, EventFields
    <3>2. CASE chan'[i].key = e.key
      <4>1. /\ 1 < i + 1 /\ 1 \in DOMAIN chan /\ IsPut(chan[i + 1])
            /\ chan[1].key = chan[i + 1].key /\ chan[i + 1].key = e.key
        BY <1>2, <2>0, <3>1, <3>2
      <4>2. IsPut(e) => Before(e.val, chan[i + 1].val)
        BY <1>0, <1>2, <3>1, <3>2, <4>1 DEF Ordered
      <4>3. Before(newest[e.key], chan[i + 1].val)
        BY <1>0, <1>2, <3>1, <3>2, <4>1 DEF Ordered
      <4> QED BY <1>5, <1>7, <3>1, <3>2, <4>2, <4>3
    <3>3. CASE chan'[i].key # e.key
      <4>1. newest'[chan'[i].key] = newest[chan'[i].key]
            /\ entries'[chan'[i].key] = entries[chan'[i].key]
        BY <1>6, <1>7, <3>1, <3>3
      <4>2. (\A j \in DOMAIN chan : j < i + 1 => chan[j].key # chan[i + 1].key)
              => \A j \in DOMAIN chan' : j < i => chan'[j].key # chan'[i].key
        <5> SUFFICES ASSUME \A j \in DOMAIN chan : j < i + 1 => chan[j].key # chan[i + 1].key,
                            NEW j \in DOMAIN chan', j < i
                     PROVE  chan'[j].key # chan'[i].key
          OBVIOUS
        <5>1. j + 1 \in DOMAIN chan /\ j + 1 < i + 1 /\ chan'[j] = chan[j + 1]
          BY <2>0
        <5> QED BY <3>1, <5>1
      <4> QED BY <1>0, <3>1, <4>1, <4>2 DEF Ordered
    <3> QED BY <3>2, <3>3
  <2>4. \A f \in pend : IsPut(f) =>
          \/ Before(newest'[f.key], f.val)
          \/ /\ f.val = newest'[f.key] /\ f.val = entries'[f.key]
             /\ \A j \in DOMAIN chan' : chan'[j].key # f.key
    <3> SUFFICES ASSUME NEW f \in pend, IsPut(f)
                 PROVE  \/ Before(newest'[f.key], f.val)
                        \/ /\ f.val = newest'[f.key] /\ f.val = entries'[f.key]
                           /\ \A j \in DOMAIN chan' : chan'[j].key # f.key
      OBVIOUS
    <3>1. f.key \in Keys /\ 1 \in DOMAIN chan
      BY <1>2, EventFields
    <3>2. CASE f.key = e.key
      <4>1. IsPut(e) => Before(e.val, f.val)
        BY <1>0, <1>2, <3>1, <3>2 DEF Ordered
      <4>2. Before(newest[e.key], f.val)
        BY <1>0, <1>2, <3>1, <3>2 DEF Ordered
      <4> QED BY <1>5, <1>7, <3>2, <4>1, <4>2
    <3>3. CASE f.key # e.key
      <4>1. newest'[f.key] = newest[f.key] /\ entries'[f.key] = entries[f.key]
        BY <1>6, <1>7, <3>1, <3>3
      <4> QED BY <1>0, <2>0, <4>1 DEF Ordered
    <3> QED BY <3>2, <3>3
  <2> QED BY <1>1, <1>4, <2>1, <2>2, <2>3, <2>4 DEF Ordered
<1>13. Unrecorded'
  <2> SUFFICES ASSUME NEW k \in Keys, phase # "down", lastData[k] = NoValue,
                      store[k] # NoValue
               PROVE  \/ \A v \in Written : Passed(k, v)' => Before(v, store[k])
                      \/ /\ store[k] = newest'[k] /\ store[k] = entries'[k]
                         /\ NoEvent(k)'
    BY <1>1, <1>4 DEF Unrecorded, Written
  <2>1. CASE \A v \in Written : Passed(k, v) => Before(v, store[k])
    BY <1>10, <2>1
  <2>2. CASE store[k] = newest[k] /\ store[k] = entries[k] /\ NoEvent(k)
    <3>1. e.key # k /\ NoEvent(k)'
      BY <1>1, <1>2, <2>2 DEF NoEvent
    <3> QED BY <1>6, <1>7, <2>2, <3>1
  <2> QED BY <1>0, <2>1, <2>2 DEF Unrecorded
<1>14. Recorded'
  <2> SUFFICES ASSUME NEW i \in DOMAIN chan',
                      \A j \in DOMAIN chan' : j > i => chan'[j].key # chan'[i].key,
                      \A f \in pend : f.key # chan'[i].key
               PROVE  chan'[i].val = lastData[chan'[i].key]
    BY <1>0, <1>1 DEF Recorded
  <2>1. i + 1 \in DOMAIN chan /\ chan[i + 1] = chan'[i]
    BY <1>2
  <2>2. ASSUME NEW j \in DOMAIN chan, j > i + 1
        PROVE  chan[j].key # chan[i + 1].key
    <3>1. j - 1 \in DOMAIN chan' /\ chan'[j - 1] = chan[j] /\ j - 1 > i
      BY <1>2, <2>2
    <3> QED BY <2>1, <3>1
  <2> QED BY <1>0, <2>1, <2>2 DEF Recorded
<1> QED BY <1>8, <1>9, <1>11, <1>12, <1>13, <1>14 DEF CacheInv

LEMMA CacheNext == CacheInv /\ [Next]_vars => CacheInv'
<1> SUFFICES ASSUME CacheInv, [Next]_vars PROVE CacheInv'
  OBVIOUS
<1>1. CASE Watch
  BY <1>1, LoadStep, TickStep, SendStep, DeliverStep DEF Watch, WatchStep
<1>2. CASE UNCHANGED vars
  BY <1>2
     DEF vars, CacheInv, TypeOK, WatcherTypeOK, Down, Seen, Behind, Passed, Ordered, Before,
         Unrecorded, NoEvent, Recorded
<1> QED BY <1>1, <1>2, WriterStep, RestartStep DEF Next

(***************************************************************************)
(* The theorems.                                                           *)
(***************************************************************************)

\* Every reachable state of the store, its watcher and its channel is well typed.
THEOREM CacheTyped == Spec => []TypeOK
<1>1. CacheInv => TypeOK
  BY DEF CacheInv
<1> QED BY <1>1, CacheInit, CacheNext, PTL DEF Spec

\* For any number of keys, writes, restarts and faulty scans, and a channel of any
\* capacity, no delivery takes an entry of the cache back to an older value.
THEOREM CacheMovesForward == Spec => NoStaleReturn
<1> DEFINE Forward ==
      \A k \in Keys :
        (entries'[k] # entries[k] /\ entries'[k] # NoValue) =>
          \/ entries'[k] > newest[k]
          \/ entries'[k] = newest[k] /\ (phase = "down" \/ faults > 0)
<1>1. CacheInv /\ [Next]_vars => [Forward]_vars
  <2> SUFFICES ASSUME CacheInv, Next, NEW k \in Keys, entries'[k] # entries[k],
                      entries'[k] # NoValue
               PROVE  \/ entries'[k] > newest[k]
                      \/ entries'[k] = newest[k] /\ (phase = "down" \/ faults > 0)
    BY DEF vars
  <2> USE ValueTypes
  <2>0. TypeOK /\ Down /\ Seen /\ Behind /\ Ordered
    BY DEF CacheInv
  <2>1. CASE LoadInitial
    <3>1. phase = "down" /\ entries'[k] = store[k]
      BY <2>1 DEF LoadInitial, Snapshot
    <3>2. newest[k] \in Written /\ Passed(k, newest[k]) /\ store[k] \in Nat
      BY <2>0, <3>1 DEF TypeOK, WatcherTypeOK, Held, Written, Passed
    <3>3. newest[k] <= store[k]
      BY <2>0, <3>1, <3>2 DEF Behind
    <3> QED BY <3>1, <3>2, <3>3 DEF Written
  <2>2. CASE Deliver
    <3> DEFINE e == Head(chan)
    <3>1. e \in Event /\ 1 \in DOMAIN chan /\ e = chan[1]
      BY <2>0, <2>2 DEF Deliver, TypeOK, WatcherTypeOK
    <3>2. e.key = k /\ entries'[k] = e.val /\ IsPut(e) /\ e.val \in Nat
      BY <2>0, <2>2, <3>1, EventFields
         DEF Deliver, HandleEvent, IsPut, TypeOK, WatcherTypeOK
    <3>3. Before(newest[k], e.val) \/ e.val = entries[k]
      BY <2>0, <3>1, <3>2 DEF Ordered
    <3> QED BY <2>0, <3>2, <3>3 DEF Before, TypeOK
  <2>3. CASE entries' = entries \/ entries' = Absent
    BY <2>3 DEF Absent
  <2> QED
    BY <2>1, <2>2, <2>3
       DEF Next, PutKey, DeleteKey, Put, Delete, watchVars, Watch, WatchStep, Tick, Send,
           Restart, Cancel, Close, Exit
<1> QED BY <1>1, CacheInit, CacheNext, PTL DEF Spec, NoStaleReturn

\* For the same systems, no tick, send or delivery loses a deletion: an entry whose
\* key is gone for good was left behind by a deletion the loop had not seen.
THEOREM DeletionsArrive == Spec => OrphanOnlyIfUnseen
<1> DEFINE OnlyUnseen ==
      \A k \in Keys :
        (Orphan(k)' /\ ~Orphan(k)) =>
          \/ store[k] # NoValue /\ store'[k] = NoValue /\ lastData[k] = NoValue
          \/ phase = "down"
<1>1. CacheInv /\ [Next]_vars => [OnlyUnseen]_vars
  <2> SUFFICES ASSUME CacheInv, Next, NEW k \in Keys, Orphan(k)', ~Orphan(k),
                      phase # "down"
               PROVE  store[k] # NoValue /\ store'[k] = NoValue /\ lastData[k] = NoValue
    BY DEF vars
  <2>0. TypeOK /\ Seen /\ Recorded
    BY DEF CacheInv
  <2>1. /\ entries'[k] # NoValue /\ store'[k] = NoValue /\ lastData'[k] = NoValue
        /\ \A e \in pend' : e.key # k
        /\ \A i \in DOMAIN chan' : chan'[i].key # k
    BY DEF Orphan, Queued
  <2>2. ASSUME entries[k] = entries'[k], store[k] = store'[k], lastData[k] = lastData'[k]
        PROVE  \/ \E e \in pend : e.key = k
               \/ \E i \in DOMAIN chan : chan[i].key = k
    BY <2>1, <2>2 DEF Orphan, Queued
  <2>3. ASSUME NEW j \in Keys, PutKey(j) \/ DeleteKey(j)
        PROVE  store[k] # NoValue /\ store'[k] = NoValue /\ lastData[k] = NoValue
    BY <2>0, <2>1, <2>2, <2>3
       DEF PutKey, DeleteKey, Put, Delete, watchVars, TypeOK, WatcherTypeOK
  <2>4. CASE Tick
    <3>1. pend = {} /\ pend' = Diff(lastData, lastData') /\ entries' = entries
          /\ store' = store /\ chan' = chan
      BY <2>4 DEF Tick
    <3>2. lastData[k] = lastData'[k]
      <4> SUFFICES ASSUME lastData[k] # lastData'[k] PROVE FALSE
        OBVIOUS
      <4>1. [key |-> k, val |-> lastData'[k]] \in pend'
        BY <3>1 DEF Diff
      <4> QED BY <2>1, <4>1
    <3> QED BY <2>1, <2>2, <3>1, <3>2
  <2>5. ASSUME NEW e \in pend, Send(e)
        PROVE  FALSE
    <3>1. /\ chan \in Seq(Event) /\ e \in Event /\ pend' = pend \ {e} /\ entries' = entries
          /\ chan' = Append(chan, e) /\ lastData' = lastData /\ store' = store
      BY <2>0, <2>5 DEF Send, TypeOK, WatcherTypeOK
    <3>2. /\ Len(chan) + 1 \in DOMAIN chan' /\ chan'[Len(chan) + 1] = e
          /\ \A i \in DOMAIN chan : i \in DOMAIN chan' /\ chan'[i] = chan[i]
      BY <3>1
    <3> QED BY <2>1, <2>2, <3>1, <3>2
  <2>6. CASE Deliver
    <3> DEFINE e == Head(chan)
    <3>1. /\ chan \in Seq(Event) /\ chan # <<>> /\ pend' = pend /\ lastData' = lastData
          /\ chan' = Tail(chan) /\ store' = store /\ entries' = HandleEvent(entries, e)
      BY <2>0, <2>6 DEF Deliver, TypeOK, WatcherTypeOK
    <3>2. /\ e = chan[1] /\ e \in Event /\ 1 \in DOMAIN chan
          /\ \A i \in DOMAIN chan : i = 1 \/ (i - 1 \in DOMAIN chan' /\ chan'[i - 1] = chan[i])
      <4>1. /\ Len(chan) \in Nat /\ Len(chan) >= 1 /\ DOMAIN chan = 1..Len(chan)
            /\ DOMAIN chan' = 1..(Len(chan) - 1) /\ e = chan[1] /\ e \in Event
            /\ \A i \in 1..(Len(chan) - 1) : chan'[i] = chan[i + 1]
        BY <3>1
      <4>2. \A i \in DOMAIN chan :
              i = 1 \/ (i - 1 \in 1..(Len(chan) - 1) /\ (i - 1) + 1 = i)
        BY <4>1
      <4> QED BY <4>1, <4>2
    <3>3. CASE e.key # k
      BY <2>0, <2>1, <2>2, <3>1, <3>2, <3>3 DEF HandleEvent, TypeOK, WatcherTypeOK
    <3>4. CASE e.key = k
      <4>1. \A i \in DOMAIN chan : i > 1 => chan[i].key # k
        BY <2>1, <3>2
      <4>2. e.val = NoValue
        BY <2>0, <2>1, <3>1, <3>2, <3>4, <4>1 DEF Recorded
      <4>3. entries'[k] = NoValue
        BY <2>0, <3>1, <3>4, <4>2 DEF HandleEvent, Seen, TypeOK, WatcherTypeOK
      <4> QED BY <2>1, <4>3
    <3> QED BY <3>3, <3>4
  <2>7. CASE Restart
    BY <2>1, <2>2, <2>7 DEF Restart, Cancel, Close, Exit, Absent
  <2> QED
    BY <2>3, <2>4, <2>5, <2>6, <2>7 DEF Next, Watch, WatchStep, LoadInitial
<1> QED BY <1>1, CacheInit, CacheNext, PTL DEF Spec, OrphanOnlyIfUnseen

\* For the same systems, what the polling loop has seen of a key is in the cache as
\* soon as no event of the key is under way.
THEOREM WhatWasSeenArrives == Spec => []ReportsArrive
<1>1. Init => ReportsArrive
  BY DEF Init, WatcherDown, ReportsArrive, Absent, WatcherAssumption
<1>2. CacheInv /\ ReportsArrive /\ [Next]_vars => ReportsArrive'
  <2> SUFFICES ASSUME CacheInv, ReportsArrive, [Next]_vars, NEW k \in Visible,
                      lastData'[k] # NoValue,
                      \A e \in pend' : e.key # k,
                      \A i \in DOMAIN chan' : chan'[i].key # k
               PROVE  entries'[k] = lastData'[k]
    BY DEF ReportsArrive, Queued
  <2>0. TypeOK /\ Recorded /\ k \in Keys
    BY ValueTypes DEF CacheInv
  <2>1. ASSUME NoEvent(k), entries'[k] = entries[k], lastData'[k] = lastData[k]
        PROVE  entries'[k] = lastData'[k]
    BY <2>1 DEF ReportsArrive, Queued, NoEvent
  <2>2. CASE Tick
    <3>1. pend = {} /\ pend' = Diff(lastData, lastData') /\ entries' = entries /\ chan' = chan
      BY <2>2 DEF Tick
    <3>2. lastData[k] = lastData'[k]
      <4> SUFFICES ASSUME lastData[k] # lastData'[k] PROVE FALSE
        OBVIOUS
      <4>1. [key |-> k, val |-> lastData'[k]] \in pend'
        BY <2>0, <3>1 DEF Diff
      <4> QED BY <4>1
    <3> QED BY <2>1, <3>1, <3>2 DEF NoEvent
  <2>3. ASSUME NEW e \in pend, Send(e)
        PROVE  entries'[k] = lastData'[k]
    <3>1. /\ chan \in Seq(Event) /\ e \in Event /\ pend' = pend \ {e} /\ entries' = entries
          /\ chan' = Append(chan, e) /\ lastData' = lastData
      BY <2>0, <2>3 DEF Send, TypeOK, WatcherTypeOK
    <3>2. /\ Len(chan) + 1 \in DOMAIN chan' /\ chan'[Len(chan) + 1] = e
          /\ \A i \in DOMAIN chan : i \in DOMAIN chan' /\ chan'[i] = chan[i]
      BY <3>1
    <3>3. NoEvent(k)
      BY <3>1, <3>2 DEF NoEvent
    <3> QED BY <2>1, <3>1, <3>3
  <2>4. CASE Deliver
    <3> DEFINE e == Head(chan)
    <3>1. /\ chan \in Seq(Event) /\ chan # <<>> /\ pend' = pend /\ lastData' = lastData
          /\ chan' = Tail(chan) /\ entries' = HandleEvent(entries, e)
          /\ entries \in [Keys -> Held]
      BY <2>0, <2>4 DEF Deliver, TypeOK, WatcherTypeOK
    <3>2. /\ Len(chan) \in Nat /\ Len(chan) >= 1 /\ DOMAIN chan = 1..Len(chan)
          /\ DOMAIN chan' = 1..(Len(chan) - 1) /\ e = chan[1] /\ 1 \in DOMAIN chan
          /\ \A i \in 1..(Len(chan) - 1) : chan'[i] = chan[i + 1]
      BY <3>1
    <3>3. \A i \in DOMAIN chan : i > 1 => chan[i].key # k
      <4>1. \A i \in DOMAIN chan : i > 1 => i - 1 \in DOMAIN chan' /\ (i - 1) + 1 = i
        BY <3>2
      <4> QED BY <3>2, <4>1
    <3>4. CASE e.key = k
      <4>1. e.val = lastData[k]
        BY <2>0, <3>1, <3>2, <3>3, <3>4 DEF Recorded
      <4> QED BY <2>0, <3>1, <3>4, <4>1 DEF HandleEvent
    <3>5. CASE e.key # k
      <4>1. NoEvent(k)
        BY <3>1, <3>2, <3>3, <3>5 DEF NoEvent
      <4>2. entries'[k] = entries[k]
        BY <3>1, <3>5 DEF HandleEvent
      <4> QED BY <2>1, <3>1, <4>1, <4>2
    <3> QED BY <3>4, <3>5
  <2>5. CASE LoadInitial \/ Exit
    BY <2>0, <2>5 DEF LoadInitial, Exit, Absent
  <2>6. CASE UNCHANGED <<entries, lastData, pend, chan>>
    BY <2>1, <2>6 DEF NoEvent
  <2> QED
    BY <2>2, <2>3, <2>4, <2>5, <2>6
       DEF Next, PutKey, DeleteKey, watchVars, Watch, WatchStep, Restart, Cancel, Close, vars
<1> QED BY <1>1, <1>2, CacheInit, CacheNext, PTL DEF Spec

=============================================================================
