------------------------- MODULE LeaseRecordProofs --------------------------
(***************************************************************************)
(* Theorems about LeaseRecord for any number of handlers and messages, any *)
(* durations and any capacity of the channel.  MemInv says what memory     *)
(* looks like; on it rest KindInv (a record never becomes a reservation,   *)
(* nor stops being one), ReachInv (what holds while the client sticks to   *)
(* one host name); for as long as messages do not overlap, Solo (one       *)
(* handler works) and WholeInv (who may see half a name); if writes        *)
(* succeed as well, CalmInv (how cache, store and the handler's record     *)
(* relate); and for as long as no message is hasty either, ReadyInv (what  *)
(* a message finds) and OutliveInv (how long the record lasts, and the     *)
(* client's lease).                                                        *)
(***************************************************************************)
EXTENDS LeaseRecord, FiniteSetTheorems, TLAPS

(***************************************************************************)
(* Memory and the handlers' places.                                        *)
(***************************************************************************)

Working == {"stamp", "marshal", "write", "compare", "assign", "send", "delete"}

\* Nothing happens before the watcher starts.
Silent ==
  phase = "down" =>
    /\ cache = Nil /\ lastData = Watch!Absent /\ pend = {} /\ chan = <<>>
    /\ \A p \in Procs : pc[p] = "idle"

\* Who points to a record, and that there is one.
Pointed ==
  /\ cache # Nil => heap[cache] # NoLease
  /\ \A p \in Procs :
       /\ match[p] # Nil <=> pc[p] \in Working
       /\ match[p] # Nil => heap[match[p]] # NoLease
       /\ raw[p] # NoLease <=> pc[p] = "write"

\* The messages a handler can have at each place.
Placed ==
  \A p \in Procs :
    /\ pc[p] # "idle" => msg[p] \in Message
    /\ pc[p] \in {"compare", "assign", "send"} \/ again[p]
         => msg[p].type \in {"discover", "request"}
    /\ pc[p] = "delete" <=> (pc[p] \in Working /\ msg[p].type = "release")
    /\ again[p] => pc[p] \in {"stamp", "marshal", "write", "send"}

\* The types of the history variables that handlers change, a part of TypeOK.
FlagsOK ==
  hasty \in BOOLEAN /\ overlapped \in BOOLEAN /\ failed \in BOOLEAN /\ orphaned \in BOOLEAN

MemInv == TypeOK /\ Silent /\ Pointed /\ Placed

(***************************************************************************)
(* Lemmas about the constants and memory.                                  *)
(***************************************************************************)

LEMMA ConstantTypes ==
  /\ IsFiniteSet(Procs) /\ Cardinality(Procs) \in Nat
  /\ NoName \in Names /\ Torn \notin Names
  /\ Times \subseteq Int /\ 0 \in Times
  /\ TTL \in Nat \ {0} /\ MaxLease \in Nat \ {0} /\ Negotiate \in 0..TTL
  /\ Epoch \in Nat \ {0} /\ Horizon \in Nat /\ Epoch <= Horizon /\ MaxMessages \in Nat
  /\ NoLease \notin Record
<1>1. Cardinality(Procs) \in Nat
  BY RecordAssumption, FS_CardinalityType
<1> QED BY <1>1, RecordAssumption

LEMMA ObjectTypes == Objects \subseteq Nat /\ Nil \notin Objects
BY ConstantTypes DEF Objects, Nil

\* There are more places in memory than pointers, so one of them is free.
LEMMA FreeIsFree ==
  ASSUME TypeOK
  PROVE  Free \in Objects /\ Free # cache /\ Free # Nil /\ \A p \in Procs : match[p] # Free
<1> DEFINE Used == {match[p] : p \in Procs}
<1>1. match \in Surjection(Procs, Used)
  BY DEF Surjection, TypeOK
<1>2. IsFiniteSet(Used) /\ Cardinality(Used) <= Cardinality(Procs)
  BY <1>1, ConstantTypes, FS_Surjection
<1> HIDE DEF Used
<1>3. /\ IsFiniteSet(Used \cup {cache})
      /\ Cardinality(Used \cup {cache}) <= Cardinality(Procs) + 1
  <2>1. Cardinality(Used) \in Nat
    BY <1>2, FS_CardinalityType
  <2>2. /\ IsFiniteSet(Used \cup {cache})
        /\ Cardinality(Used \cup {cache}) =
             IF cache \in Used THEN Cardinality(Used) ELSE Cardinality(Used) + 1
    BY <1>2, FS_AddElement
  <2> QED BY <1>2, <2>1, <2>2, ConstantTypes
<1>4. Cardinality(Objects) = Cardinality(Procs) + 2
  BY ConstantTypes, FS_Interval DEF Objects
<1>5. ~(Objects \subseteq Used \cup {cache})
  <2> SUFFICES ASSUME Objects \subseteq Used \cup {cache} PROVE FALSE
    OBVIOUS
  <2>1. Cardinality(Objects) <= Cardinality(Used \cup {cache})
    BY <1>3, FS_Subset
  <2>2. Cardinality(Used \cup {cache}) \in Nat
    BY <1>3, FS_CardinalityType
  <2> QED BY <1>3, <1>4, <2>1, <2>2, ConstantTypes
<1>6. PICK o \in Objects : o # cache /\ \A p \in Procs : match[p] # o
  BY <1>5 DEF Used
<1> QED BY <1>6, ObjectTypes DEF Free

LEMMA RecordFields ==
  ASSUME NEW r \in Record
  PROVE  /\ r.name \in Names \cup {Torn} /\ r.time \in Times /\ r.expiry \in Int
         /\ r # NoLease
BY ConstantTypes DEF Record

LEMMA MessageFields ==
  ASSUME NEW m \in Message \cup {NoMsg}
  PROVE  /\ m.name \in Names /\ m.at \in Nat
         /\ m \in Message => /\ m.type \in Types
                             /\ m.type \in {"decline", "release"} => m.name = NoName
BY ConstantTypes DEF Message, NoMsg

\* A change of one record is a record.
LEMMA ChangedRecord ==
  ASSUME NEW r \in Record
  PROVE  /\ \A x \in Int : [r EXCEPT !.expiry = x] \in Record
         /\ \A n \in Names \cup {Torn} : [r EXCEPT !.name = n] \in Record
BY DEF Record

\* What the variables hold, spelled out.
LEMMA MemoryTypes ==
  ASSUME TypeOK
  PROVE  /\ store \in [{Device} -> Record \cup {NoLease}]
         /\ lastData \in [{Device} -> Record \cup {NoLease}]
         /\ pend \subseteq Watch!Event /\ chan \in Seq(Watch!Event)
         /\ \A e \in Watch!Event : e.key = Device /\ e.val \in Record \cup {NoLease}
         /\ \A e, f \in Watch!Event : e.val = f.val => e = f
         /\ heap \in [Objects -> Record \cup {NoLease}]
         /\ cache \in Objects \cup {Nil}
         /\ phase \in {"down", "watching", "cancelled", "closed"}
<1>1. Watch!Event = [key : {Device}, val : Record \cup {NoLease}]
  BY DEF Watch!Event, Watch!Held
<1>2. \A e \in Watch!Event : e.key = Device /\ e.val \in Record \cup {NoLease}
  BY <1>1
<1>3. \A e, f \in Watch!Event : e.val = f.val => e = f
  BY <1>1
<1> QED BY <1>2, <1>3 DEF TypeOK, Watch!WatcherTypeOK, Watch!Held

(***************************************************************************)
(* The watcher's steps.                                                    *)
(***************************************************************************)

\* The cache lets go of its record and points to a new one, which holds r.
Replaced(r) ==
  /\ r = NoLease => cache' = Nil
  /\ r # NoLease => /\ cache' \in Objects /\ cache' # cache /\ heap'[cache'] = r
                    /\ \A p \in Procs : match[p] # cache'
  /\ \A p \in Procs : match[p] \in Objects => heap'[match[p]] = heap[match[p]]
  /\ \A o \in Objects : heap'[o] \in {heap[o], NoLease, r}
  /\ heap' \in [Objects -> Record \cup {NoLease}]
  /\ Entries' = [k \in {Device} |-> r]

\* A delivery, or the initial load.
LEMMA NewEntryIs ==
  ASSUME TypeOK, Silent, NewEntry
  PROVE  /\ UNCHANGED <<store, match, pend>>
         /\ \/ /\ phase = "down" /\ phase' = "watching" /\ chan' = chan
               /\ lastData' = Watch!Absent
               /\ \/ Replaced(store[Device])
                  \/ ReadFaults /\ Replaced(NoLease)
            \/ /\ chan # <<>> /\ chan' = Tail(chan) /\ UNCHANGED <<lastData, phase>>
               /\ Replaced(Head(chan).val)
<1> USE MemoryTypes, FreeIsFree, ObjectTypes
<1>1. PICK r \in {store[Device], NoLease} \cup {chan[i].val : i \in DOMAIN chan} :
        /\ cache' = IF r = NoLease THEN Nil ELSE Free
        /\ heap' = Collected(IF r = NoLease THEN heap ELSE [heap EXCEPT ![Free] = r])
        /\ Watch!LoadInitial \/ Watch!Deliver
  BY DEF NewEntry
<1>2. r \in Record \cup {NoLease} /\ match' = match
  BY DEF NewEntry
<1>3. Entries' = [k \in {Device} |-> r]
  <2>1. CASE r = NoLease
    BY <1>1, <2>1 DEF Entries
  <2>2. CASE r # NoLease
    BY <1>1, <2>2 DEF Entries, Collected
  <2> QED BY <2>1, <2>2
<1>4. Replaced(r)
  <2>1. \A p \in Procs : match[p] \in Objects => heap'[match[p]] = heap[match[p]]
    BY <1>1, <1>2 DEF Collected
  <2>2. \A o \in Objects : heap'[o] \in {heap[o], NoLease, r}
    BY <1>1 DEF Collected
  <2>3. heap' \in [Objects -> Record \cup {NoLease}]
    BY <1>1, <1>2 DEF Collected
  <2>4. r # NoLease => heap'[cache'] = r
    BY <1>1 DEF Collected
  <2> QED BY <1>1, <1>3, <2>1, <2>2, <2>3, <2>4 DEF Replaced
<1>5. CASE Watch!LoadInitial
  <2>1. PICK bad \in Watch!Unreadable : Entries'[Device] = Watch!Snapshot(bad)[Device]
    BY <1>5 DEF Watch!LoadInitial
  <2>2. /\ Watch!Snapshot(bad)[Device] \in {store[Device], NoLease}
        /\ ~ReadFaults => Watch!Snapshot(bad)[Device] = store[Device]
    BY DEF Watch!Snapshot, Watch!Unreadable
  <2>3. r \in {store[Device], NoLease} /\ (~ReadFaults => r = store[Device])
    BY <1>3, <2>1, <2>2
  <2> QED BY <1>2, <1>4, <1>5, <2>3 DEF Watch!LoadInitial
<1>6. CASE Watch!Deliver
  <2>1. chan # <<>> /\ Head(chan) \in Watch!Event
    BY <1>6 DEF Watch!Deliver
  <2>2. Entries'[Device] = Head(chan).val
    BY <1>6, <2>1 DEF Watch!Deliver, Watch!HandleEvent, Entries
  <2>3. r = Head(chan).val
    BY <1>3, <2>2
  <2> QED BY <1>2, <1>4, <1>6, <2>3 DEF Watch!Deliver
<1> QED BY <1>1, <1>5, <1>6

\* The event of a tick, if there is one: what it read differs from what the
\* tick before read.
LEMMA TickIs ==
  ASSUME TypeOK, Watch!Tick
  PROVE  /\ phase # "down" /\ pend = {} /\ UNCHANGED <<store, chan, phase>>
         /\ lastData' \in [{Device} -> Record \cup {NoLease}]
         /\ lastData' = store \/ (ReadFaults /\ lastData'[Device] = NoLease)
         /\ pend' = IF lastData[Device] = lastData'[Device] THEN {}
                    ELSE {[key |-> Device, val |-> lastData'[Device]]}
<1> USE MemoryTypes
<1>1. PICK bad \in Watch!Unreadable : /\ lastData' = Watch!Snapshot(bad)
                                     /\ pend' = Watch!Diff(lastData, Watch!Snapshot(bad))
  BY DEF Watch!Tick
<1>2. /\ Watch!Snapshot(bad) \in [{Device} -> Record \cup {NoLease}]
      /\ \/ Watch!Snapshot(bad) = store
         \/ ReadFaults /\ Watch!Snapshot(bad)[Device] = NoLease
  BY DEF Watch!Snapshot, Watch!Unreadable
<1> DEFINE new == lastData'
<1>3. pend' = {[key |-> k, val |-> new[k]] : k \in {j \in {Device} : lastData[j] # new[j]}}
  BY <1>1 DEF Watch!Diff
<1>4. lastData[Device] = new[Device] => pend' = {}
  BY <1>3
<1>5. lastData[Device] # new[Device] => pend' = {[key |-> Device, val |-> new[Device]]}
  BY <1>3
<1> QED BY <1>1, <1>2, <1>4, <1>5 DEF Watch!Tick

\* A handler that returns lets go of its record and of nothing else.
LEMMA ReturnIs ==
  ASSUME TypeOK, NEW p \in Procs, Return(p)
  PROVE  /\ pc' = [pc EXCEPT ![p] = "idle"] /\ msg' = [msg EXCEPT ![p] = NoMsg]
         /\ match' = [match EXCEPT ![p] = Nil] /\ again' = [again EXCEPT ![p] = FALSE]
         /\ dur' = [dur EXCEPT ![p] = 0] /\ raw' = [raw EXCEPT ![p] = NoLease]
         /\ cache' = cache /\ Entries' = Entries
         /\ heap' \in [Objects -> Record \cup {NoLease}]
         /\ cache # Nil => heap'[cache] = heap[cache]
         /\ \A q \in Procs \ {p} : match[q] \in Objects => heap'[match[q]] = heap[match[q]]
         /\ \A o \in Objects : heap'[o] \in {heap[o], NoLease}
<1> USE MemoryTypes
<1>1. /\ pc' = [pc EXCEPT ![p] = "idle"] /\ msg' = [msg EXCEPT ![p] = NoMsg]
      /\ match' = [match EXCEPT ![p] = Nil] /\ again' = [again EXCEPT ![p] = FALSE]
      /\ dur' = [dur EXCEPT ![p] = 0] /\ raw' = [raw EXCEPT ![p] = NoLease]
      /\ cache' = cache /\ heap' = Collected(heap)
  BY DEF Return, Goto
<1>2. /\ heap' \in [Objects -> Record \cup {NoLease}]
      /\ cache # Nil => heap'[cache] = heap[cache]
      /\ \A o \in Objects : heap'[o] \in {heap[o], NoLease}
  BY <1>1 DEF Collected
<1>3. \A q \in Procs \ {p} : match[q] \in Objects => heap'[match[q]] = heap[match[q]]
  BY <1>1 DEF Collected, TypeOK
<1>4. Entries' = Entries
  BY <1>1, <1>2 DEF Entries
<1> QED BY <1>1, <1>2, <1>3, <1>4

(***************************************************************************)
(* MemInv is inductive.                                                    *)
(***************************************************************************)

LEMMA EntriesTyped ==
  ASSUME cache \in Objects \cup {Nil}, heap \in [Objects -> Record \cup {NoLease}]
  PROVE  Entries \in [{Device} -> Record \cup {NoLease}]
BY DEF Entries

LEMMA MemInit == Init => MemInv
<1> SUFFICES ASSUME Init PROVE MemInv
  OBVIOUS
<1> USE ConstantTypes
<1>1. PICK r \in {NoLease} \cup [name : Names, time : Times, expiry : {Epoch}]
                    \cup [name : Names, time : {0}, expiry : {-1}] :
        /\ store = [k \in {Device} |-> r]
        /\ names = IF r = NoLease THEN {} ELSE {r.name}
  BY DEF Init
<1>2. r \in Record \cup {NoLease} /\ (r # NoLease => r.name \in Names)
  BY DEF Record
<1>3. /\ cache = Nil /\ heap = [o \in Objects |-> NoLease] /\ Watch!WatcherDown
      /\ pc = [p \in Procs |-> "idle"] /\ match = [p \in Procs |-> Nil]
      /\ again = [p \in Procs |-> FALSE] /\ raw = [p \in Procs |-> NoLease]
      /\ dur = [p \in Procs |-> 0] /\ msg = [p \in Procs |-> NoMsg]
      /\ now = Epoch /\ until = 0 /\ received = 0
      /\ hasty = FALSE /\ overlapped = FALSE /\ failed = FALSE /\ orphaned = FALSE
  BY DEF Init
<1>4. Entries \in [{Device} -> Record \cup {NoLease}]
  BY <1>3, EntriesTyped
<1>5. Watch!WatcherTypeOK
  BY <1>1, <1>2, <1>3, <1>4 DEF Watch!WatcherTypeOK, Watch!WatcherDown, Watch!Held, Watch!Absent
<1>6. Epoch \in Epoch..Horizon
  OBVIOUS
<1>7. TypeOK
  <2>1. names \subseteq Names
    BY <1>1, <1>2
  <2>2. \A p \in Procs : pc[p] \notin {"idle", "find"}
                          => match[p] # Nil /\ heap[match[p]] # NoLease
    BY <1>3
  <2>3. until \in Nat /\ received \in 0..MaxMessages /\ now \in Epoch..Horizon
    BY <1>3, <1>6
  <2>5. FlagsOK
    BY <1>3, Zenon DEF FlagsOK
  <2>4. /\ heap \in [Objects -> Record \cup {NoLease}] /\ cache \in Objects \cup {Nil}
        /\ match \in [Procs -> Objects \cup {Nil}] /\ raw \in [Procs -> Record \cup {NoLease}]
    BY <1>3
  <2> QED BY <1>3, <1>5, <2>1, <2>2, <2>3, <2>4, <2>5 DEF TypeOK, FlagsOK
<1>8. Silent
  BY <1>3 DEF Silent, Watch!WatcherDown
<1>9. Pointed /\ Placed
  BY <1>3 DEF Pointed, Placed, Working
<1> QED BY <1>7, <1>8, <1>9 DEF MemInv

\* Where a working handler's record is.
LEMMA RecordAt ==
  ASSUME MemInv, NEW p \in Procs
  PROVE  /\ pc[p] \in Working => /\ match[p] \in Objects /\ heap[match[p]] \in Record
                                 /\ pc[p] # "idle" /\ msg[p] \in Message
         /\ pc[p] = "write" => raw[p] \in Record
         /\ pc[p] # "idle" => phase # "down" /\ msg[p] \in Message
         /\ cache # Nil => cache \in Objects /\ heap[cache] \in Record
         /\ cache = Nil => Entries = [k \in {Device} |-> NoLease]
         /\ cache # Nil => Entries = [k \in {Device} |-> heap[cache]]
<1> USE MemoryTypes, ObjectTypes DEF MemInv
<1>1. pc[p] \in Working => match[p] \in Objects /\ heap[match[p]] \in Record
  BY DEF Pointed, TypeOK
<1>2. pc[p] = "write" => raw[p] \in Record
  BY DEF Pointed, TypeOK
<1>3. pc[p] # "idle" => phase # "down" /\ msg[p] \in Message
  BY DEF Silent, Placed
<1>4. cache # Nil => cache \in Objects /\ heap[cache] \in Record
  BY DEF Pointed
<1>5. pc[p] \in Working => pc[p] # "idle"
  BY DEF Working
<1> QED BY <1>1, <1>2, <1>3, <1>4, <1>5 DEF Entries

\* No step of a handler makes anything but Booleans of the flags.
LEMMA FlagsTyped == ASSUME TypeOK, NEW p \in Procs, Work(p) PROVE FlagsOK'
<1>1. UNCHANGED <<hasty, overlapped>>
  BY DEF Work, FindLease, Stamp, Marshal, Write, Compare, Assign, Send, DeleteLease, history
<1>2. failed' = failed \/ failed' = TRUE
  BY DEF Work, FindLease, Stamp, Marshal, Write, Compare, Assign, Send, DeleteLease, history, faults
<1>3. orphaned' = orphaned \/ orphaned' = FALSE \/ orphaned' = (lastData[Device] = NoLease)
  BY DEF Work, FindLease, Stamp, Marshal, Write, Compare, Assign, Send, DeleteLease, history, faults
<1>4. hasty' \in BOOLEAN /\ overlapped' \in BOOLEAN
  BY <1>1 DEF TypeOK
<1>5. failed' \in BOOLEAN
  BY Zenon, <1>2 DEF TypeOK
<1>6. orphaned' \in BOOLEAN
  BY Zenon, <1>3 DEF TypeOK
<1> QED BY <1>4, <1>5, <1>6 DEF FlagsOK

LEMMA ReceiveMem ==
  ASSUME MemInv, NEW p \in Procs, NEW m \in Message, Receive(p, m)
  PROVE  MemInv'
<1> USE ConstantTypes, MessageFields
<1>1. /\ pc[p] = "idle" /\ phase # "down" /\ received < MaxMessages
      /\ received' = received + 1
      /\ pc' = [pc EXCEPT ![p] = "find"] /\ msg' = [msg EXCEPT ![p] = m]
      /\ until' = IF m.type \in {"decline", "release"} THEN 0 ELSE until
      /\ names' = IF m.type \in {"discover", "request"} THEN names \cup {m.name} ELSE names
      /\ UNCHANGED <<store, lastData, pend, chan, phase, heap, cache, now, match, again, dur, raw>>
  BY DEF Receive, Goto, watchVars, memory
<1>2. TypeOK'
  <2> USE <1>1 DEF MemInv, TypeOK
  <2>1. Watch!WatcherTypeOK'
    BY DEF Watch!WatcherTypeOK, Entries
  <2>2. received' \in 0..MaxMessages /\ until' \in Nat
    OBVIOUS
  <2>3. names' \subseteq Names
    OBVIOUS
  <2>4. FlagsOK'
    <3>1. hasty' = (hasty \/ ~Settled) /\ UNCHANGED <<failed, orphaned>>
      BY DEF Receive, faults
    <3>2. overlapped' = (overlapped \/ \E q \in Procs : pc[q] # "idle")
      BY DEF Receive
    <3> QED BY Zenon, <3>1, <3>2 DEF FlagsOK
  <2>5. /\ pc' \in [Procs -> {"idle", "find", "stamp", "marshal", "write", "compare",
                              "assign", "send", "delete"}]
        /\ msg' \in [Procs -> Message \cup {NoMsg}]
    OBVIOUS
  <2> QED BY <2>1, <2>2, <2>3, <2>4, <2>5 DEF FlagsOK, Pointed, Working
<1>3. Silent'
  BY <1>1 DEF MemInv, Silent
<1>4. Pointed'
  BY <1>1 DEF MemInv, TypeOK, Pointed, Working
<1>5. Placed'
  BY <1>1 DEF MemInv, TypeOK, Pointed, Placed, Working
<1> QED BY <1>2, <1>3, <1>4, <1>5 DEF MemInv

\* A handler that returns.
LEMMA ReturnMem ==
  ASSUME MemInv, NEW p \in Procs, Return(p), pc[p] # "idle",
         store' \in [{Device} -> Record \cup {NoLease}],
         until' \in Nat, FlagsOK', UNCHANGED <<watchVars, now, received, names>>
  PROVE  MemInv'
<1> USE MemoryTypes, ReturnIs, RecordAt, ObjectTypes DEF MemInv, watchVars
<1>1. /\ pc' = [pc EXCEPT ![p] = "idle"] /\ msg' = [msg EXCEPT ![p] = NoMsg]
      /\ match' = [match EXCEPT ![p] = Nil] /\ again' = [again EXCEPT ![p] = FALSE]
      /\ dur' = [dur EXCEPT ![p] = 0] /\ raw' = [raw EXCEPT ![p] = NoLease]
      /\ cache' = cache /\ Entries' = Entries
      /\ heap' \in [Objects -> Record \cup {NoLease}]
      /\ cache # Nil => heap'[cache] = heap[cache]
      /\ \A q \in Procs \ {p} : match[q] \in Objects => heap'[match[q]] = heap[match[q]]
  BY DEF MemInv
<1>2. \A q \in Procs \ {p} : match[q] # Nil => heap'[match'[q]] # NoLease
  BY <1>1 DEF TypeOK, Pointed
<1>3. TypeOK'
  <2>1. Watch!WatcherTypeOK'
    BY <1>1 DEF TypeOK, Watch!WatcherTypeOK, Watch!Held
  <2>2. /\ pc' \in [Procs -> {"idle", "find", "stamp", "marshal", "write", "compare",
                              "assign", "send", "delete"}]
        /\ msg' \in [Procs -> Message \cup {NoMsg}]
        /\ match' \in [Procs -> Objects \cup {Nil}]
        /\ again' \in [Procs -> BOOLEAN]
        /\ dur' \in [Procs -> Int]
        /\ raw' \in [Procs -> Record \cup {NoLease}]
    BY <1>1 DEF TypeOK
  <2>3. \A q \in Procs : pc'[q] \notin {"idle", "find"}
                          => match'[q] # Nil /\ heap'[match'[q]] # NoLease
    BY <1>1, <1>2 DEF TypeOK, Pointed, Working
  <2> QED BY <1>1, <2>1, <2>2, <2>3 DEF TypeOK, FlagsOK
<1>4. Silent'
  BY <1>1 DEF Silent
<1>5. Pointed'
  BY <1>1, <1>2 DEF TypeOK, Pointed, Working
<1>6. Placed'
  BY <1>1 DEF TypeOK, Placed, Working
<1> QED BY <1>3, <1>4, <1>5, <1>6

LEMMA FindMem ==
  ASSUME MemInv, NEW p \in Procs, FindLease(p)
  PROVE  MemInv'
<1> USE MemoryTypes, RecordAt, ObjectTypes, FreeIsFree, ConstantTypes, MessageFields DEF MemInv
<1>1. /\ pc[p] = "find" /\ UNCHANGED <<store, watchVars, now, history>>
      /\ phase # "down" /\ msg[p] \in Message /\ ~again[p] /\ raw[p] = NoLease
      /\ FindNone(p) \/ FindCached(p)
  BY DEF FindLease, Pointed, Placed, TypeOK
<1>2. CASE Return(p)
  BY <1>1, <1>2, ReturnMem, FlagsTyped DEF TypeOK, watchVars, history, Work
<1>3. CASE ~Return(p)
  <2>1. PICK o \in Objects, l \in {"stamp", "delete"}, n \in Nat :
          /\ heap' \in [Objects -> Record \cup {NoLease}] /\ heap'[o] # NoLease
          /\ \A i \in Objects : heap[i] # NoLease => heap'[i] # NoLease
          /\ cache # Nil => heap'[cache] = heap[cache]
          /\ match' = [match EXCEPT ![p] = o]
          /\ dur' = [dur EXCEPT ![p] = n]
          /\ l = "delete" <=> msg[p].type = "release"
          /\ pc' = [pc EXCEPT ![p] = l]
          /\ UNCHANGED <<cache, msg, again, raw>>
    <3>1. CASE FindNone(p)
      <4>1. [name |-> msg[p].name, time |-> 0, expiry |-> 0] \in Record
        BY <1>1 DEF Record
      <4>2. /\ heap' = [heap EXCEPT ![Free] = [name |-> msg[p].name, time |-> 0, expiry |-> 0]]
            /\ match' = [match EXCEPT ![p] = Free]
            /\ dur' = [dur EXCEPT ![p] = IF msg[p].type = "discover" THEN Negotiate ELSE TTL]
            /\ msg[p].type \notin {"decline", "release"}
            /\ pc' = [pc EXCEPT ![p] = "stamp"]
            /\ UNCHANGED <<cache, msg, again, raw>>
        BY <1>3, <3>1 DEF FindNone, LeaseFor, Goto
      <4>3. (IF msg[p].type = "discover" THEN Negotiate ELSE TTL) \in Nat
        OBVIOUS
      <4> QED BY <4>1, <4>2, <4>3
    <3>2. CASE FindCached(p)
      <4>1. /\ match' = [match EXCEPT ![p] = cache] /\ dur' = [dur EXCEPT ![p] = TTL]
            /\ pc' = [pc EXCEPT ![p] = IF msg[p].type = "release" THEN "delete" ELSE "stamp"]
            /\ UNCHANGED <<memory, msg, again, raw>> /\ cache # Nil
        BY <1>3, <3>2 DEF FindCached, Goto
      <4> QED BY <4>1 DEF memory
    <3> QED BY <1>1, <3>1, <3>2
  <2>2. TypeOK'
    <3>1. Entries' = Entries
      BY <2>1 DEF Entries
    <3>2. Watch!WatcherTypeOK'
      BY <1>1, <3>1 DEF TypeOK, Watch!WatcherTypeOK, watchVars
    <3>3. /\ pc' \in [Procs -> {"idle", "find", "stamp", "marshal", "write", "compare",
                                "assign", "send", "delete"}]
          /\ match' \in [Procs -> Objects \cup {Nil}]
          /\ dur' \in [Procs -> Int]
      BY <2>1 DEF TypeOK
    <3>4. \A q \in Procs : pc'[q] \notin {"idle", "find"}
                            => match'[q] # Nil /\ heap'[match'[q]] # NoLease
      BY ZenonT(30), <2>1, ObjectTypes DEF TypeOK, Pointed, Working
    <3> QED BY <1>1, <2>1, <3>2, <3>3, <3>4 DEF TypeOK, history, faults
  <2>3. Silent'
    BY <1>1, <2>1 DEF Silent, watchVars
  <2>4. Pointed'
    BY ZenonT(30), <1>1, <2>1 DEF TypeOK, Pointed, Working
  <2>5. Placed'
    BY <1>1, <2>1 DEF TypeOK, Placed, Working
  <2> QED BY <2>2, <2>3, <2>4, <2>5
<1> QED BY <1>2, <1>3

\* A step of a working handler that changes no pointer, and in memory at most
\* the record it works on.
LEMMA UpdateMem ==
  ASSUME MemInv, NEW p \in Procs, pc[p] \in Working,
         NEW l \in Working, pc' = [pc EXCEPT ![p] = l],
         l # "delete", msg[p].type # "release",
         l \in {"compare", "assign", "send"} => msg[p].type \in {"discover", "request"},
         again'[p] => /\ l \in {"stamp", "marshal", "write", "send"}
                      /\ msg[p].type \in {"discover", "request"},
         NEW r \in Record, heap' = [heap EXCEPT ![match[p]] = r],
         again' \in [Procs -> BOOLEAN], \A q \in Procs \ {p} : again'[q] = again[q],
         dur' \in [Procs -> Int],
         raw' \in [Procs -> Record \cup {NoLease}],
         \A q \in Procs \ {p} : raw'[q] = raw[q],
         raw'[p] # NoLease <=> l = "write",
         store' \in [{Device} -> Record \cup {NoLease}], FlagsOK',
         UNCHANGED <<watchVars, cache, match, now, msg, until, received, names>>
  PROVE  MemInv'
<1> USE MemoryTypes, RecordAt, ObjectTypes, ConstantTypes DEF MemInv, watchVars
<1>1. /\ heap' \in [Objects -> Record \cup {NoLease}]
      /\ \A i \in Objects : heap[i] # NoLease => heap'[i] # NoLease
      /\ match[p] \in Objects
  OBVIOUS
<1>2. TypeOK'
  <2>1. Entries' \in [{Device} -> Record \cup {NoLease}]
    BY <1>1 DEF Entries
  <2>2. Watch!WatcherTypeOK'
    BY <2>1 DEF TypeOK, Watch!WatcherTypeOK, Watch!Held
  <2>3. pc' \in [Procs -> {"idle", "find", "stamp", "marshal", "write", "compare",
                           "assign", "send", "delete"}]
    BY DEF TypeOK, Working
  <2>4. \A q \in Procs : pc'[q] \notin {"idle", "find"}
                          => match'[q] # Nil /\ heap'[match'[q]] # NoLease
    BY <1>1 DEF TypeOK, Pointed, Working
  <2> QED BY <1>1, <2>2, <2>3, <2>4 DEF TypeOK, FlagsOK
<1>3. Silent'
  BY DEF Silent, Working
<1>4. Pointed'
  BY <1>1 DEF TypeOK, Pointed
<1>5. Placed'
  BY DEF TypeOK, Placed, Working
<1> QED BY <1>2, <1>3, <1>4, <1>5

LEMMA StampMem == ASSUME MemInv, NEW p \in Procs, Stamp(p) PROVE MemInv'
<1> USE MemoryTypes, RecordAt, ObjectTypes, ConstantTypes DEF MemInv
<1>0. FlagsOK'
  BY FlagsTyped DEF Work
<1>1. /\ pc[p] = "stamp" /\ pc' = [pc EXCEPT ![p] = "marshal"]
      /\ dur' = [dur EXCEPT ![p] = 0]
      /\ UNCHANGED <<store, watchVars, cache, now, msg, match, again, raw,
                     until, received, names, hasty, overlapped, failed, orphaned>>
  BY DEF Stamp, Goto, history, faults
<1>2. /\ dur[p] \in Int /\ now \in Int /\ pc[p] \in Working
      /\ match[p] \in Objects /\ heap[match[p]] \in Record
  BY <1>1 DEF TypeOK, Working
<1>3. PICK r \in Record : heap' = [heap EXCEPT ![match[p]] = r]
  <2>1. CASE dur[p] > 0 /\ heap[match[p]].expiry # -1
    <3>1. heap' = [heap EXCEPT ![match[p]] = [heap[match[p]] EXCEPT !.expiry = now + dur[p]]]
      BY <2>1 DEF Stamp
    <3> DEFINE x == now + dur[p]
    <3>2. x \in Int
      BY <1>2
    <3> HIDE DEF x
    <3>3. [heap[match[p]] EXCEPT !.expiry = x] \in Record
      BY <1>2, <3>2, ChangedRecord
    <3> QED BY <3>1, <3>3 DEF x
  <2>2. CASE ~(dur[p] > 0 /\ heap[match[p]].expiry # -1)
    BY <1>2, <2>2 DEF Stamp
  <2> QED BY <2>1, <2>2
<1>4. /\ msg[p].type # "release" /\ "marshal" \in Working
      /\ again[p] => msg[p].type \in {"discover", "request"}
      /\ raw[p] = NoLease
      /\ again \in [Procs -> BOOLEAN] /\ raw \in [Procs -> Record \cup {NoLease}]
      /\ dur' \in [Procs -> Int]
  BY <1>1, <1>2 DEF Placed, Working, TypeOK, Pointed
<1> QED BY <1>0, <1>1, <1>2, <1>3, <1>4, UpdateMem

LEMMA MarshalMem == ASSUME MemInv, NEW p \in Procs, Marshal(p) PROVE MemInv'
<1> USE MemoryTypes, RecordAt, ObjectTypes, ConstantTypes DEF MemInv
<1>0. FlagsOK'
  BY FlagsTyped DEF Work
<1>1. /\ pc[p] = "marshal" /\ pc' = [pc EXCEPT ![p] = "write"]
      /\ raw' = [raw EXCEPT ![p] = heap[match[p]]]
      /\ UNCHANGED <<store, watchVars, cache, heap, now, msg, match, again, dur,
                     until, received, names, hasty, overlapped, failed, orphaned>>
  BY DEF Marshal, Goto, history, faults, memory
<1>2. /\ pc[p] \in Working /\ "write" \in Working
      /\ match[p] \in Objects /\ heap[match[p]] \in Record
  BY <1>1 DEF TypeOK, Working
<1>3. heap' = [heap EXCEPT ![match[p]] = heap[match[p]]]
  BY <1>1, <1>2
<1>4. /\ msg[p].type # "release"
      /\ again[p] => msg[p].type \in {"discover", "request"}
      /\ again \in [Procs -> BOOLEAN] /\ raw' \in [Procs -> Record \cup {NoLease}]
      /\ dur \in [Procs -> Int]
      /\ raw'[p] # NoLease /\ \A q \in Procs \ {p} : raw'[q] = raw[q]
  BY <1>1, <1>2 DEF Placed, Working, TypeOK, Pointed
<1> QED BY ZenonT(30), <1>0, <1>1, <1>2, <1>3, <1>4, UpdateMem

LEMMA WriteMem == ASSUME MemInv, NEW p \in Procs, Write(p) PROVE MemInv'
<1> USE MemoryTypes, RecordAt, ObjectTypes, ConstantTypes DEF MemInv
<1>1. /\ pc[p] = "write" /\ UNCHANGED <<watchVars, now, until, received, names>>
      /\ store' \in {store, [store EXCEPT ![Device] = raw[p]]}
  BY DEF Write, Watch!Put
<1>2. /\ store' \in [{Device} -> Record \cup {NoLease}]
      /\ FlagsOK' /\ until' \in Nat
  BY <1>1, FlagsTyped DEF TypeOK, Work
<1>3. CASE msg[p].type = "decline"
  BY <1>1, <1>2, <1>3, ReturnMem DEF Write
<1>4. CASE msg[p].type # "decline"
  <2>1. /\ pc' = [pc EXCEPT ![p] = IF again[p] THEN "send" ELSE "compare"]
        /\ raw' = [raw EXCEPT ![p] = NoLease]
        /\ UNCHANGED <<heap, cache, msg, match, again, dur>>
    BY <1>4 DEF Write, Goto, memory
  <2>2. /\ pc[p] \in Working /\ {"send", "compare"} \subseteq Working
        /\ match[p] \in Objects /\ heap[match[p]] \in Record
    BY <1>1 DEF TypeOK, Working
  <2>3. heap' = [heap EXCEPT ![match[p]] = heap[match[p]]]
    BY <2>1, <2>2
  <2>4. /\ msg[p].type \in {"discover", "request"}
        /\ again \in [Procs -> BOOLEAN] /\ raw' \in [Procs -> Record \cup {NoLease}]
        /\ dur \in [Procs -> Int]
        /\ raw'[p] = NoLease /\ \A q \in Procs \ {p} : raw'[q] = raw[q]
    BY <1>1, <1>4, <2>1, <2>2, MessageFields DEF Placed, Working, TypeOK, Pointed, Types
  <2> DEFINE l == IF again[p] THEN "send" ELSE "compare"
  <2>5. l \in Working /\ l # "delete" /\ l # "write" /\ (again[p] => l = "send")
    BY <2>2
  <2>6. pc' = [pc EXCEPT ![p] = l]
    BY <2>1
  <2> HIDE DEF l
  <2>7. /\ msg[p].type # "release" /\ (raw'[p] # NoLease <=> l = "write")
        /\ again'[p] => /\ l \in {"stamp", "marshal", "write", "send"}
                        /\ msg[p].type \in {"discover", "request"}
        /\ again' \in [Procs -> BOOLEAN] /\ \A q \in Procs \ {p} : again'[q] = again[q]
        /\ dur' \in [Procs -> Int]
        /\ UNCHANGED <<watchVars, cache, match, now, msg, until, received, names>>
    BY <1>1, <2>1, <2>4, <2>5
  <2> QED BY <1>2, <2>2, <2>3, <2>4, <2>5, <2>6, <2>7, UpdateMem
<1> QED BY <1>3, <1>4

LEMMA CompareMem == ASSUME MemInv, NEW p \in Procs, Compare(p) PROVE MemInv'
<1> USE MemoryTypes, RecordAt, ObjectTypes, ConstantTypes DEF MemInv
<1> DEFINE new == msg[p].name # heap[match[p]].name
           l == IF new THEN "assign" ELSE "send"
           r == IF new THEN [heap[match[p]] EXCEPT !.name = Torn] ELSE heap[match[p]]
<1>0. FlagsOK'
  BY FlagsTyped DEF Work
<1>1. /\ pc[p] = "compare"
      /\ UNCHANGED <<store, watchVars, cache, now, msg, match, again, dur, raw,
                     until, received, names, hasty, overlapped, failed, orphaned>>
  BY DEF Compare, history, faults
<1>2. /\ pc[p] \in Working /\ match[p] \in Objects /\ heap[match[p]] \in Record
  BY <1>1 DEF Working
<1>3. /\ pc' = [pc EXCEPT ![p] = l] /\ heap' = [heap EXCEPT ![match[p]] = r]
  BY <1>2 DEF Compare, Goto
<1>4. r \in Record /\ l \in Working /\ l \in {"assign", "send"}
  BY <1>2, ChangedRecord DEF Working
<1>5. /\ msg[p].type \in {"discover", "request"} /\ ~again[p] /\ raw[p] = NoLease
      /\ again \in [Procs -> BOOLEAN] /\ raw \in [Procs -> Record \cup {NoLease}]
      /\ dur \in [Procs -> Int]
  BY <1>1 DEF Placed, TypeOK, Pointed
<1> HIDE DEF l, r, new
<1> QED BY <1>0, <1>1, <1>2, <1>3, <1>4, <1>5, UpdateMem

LEMMA AssignMem == ASSUME MemInv, NEW p \in Procs, Assign(p) PROVE MemInv'
<1> USE MemoryTypes, RecordAt, ObjectTypes DEF MemInv
<1> DEFINE r == [heap[match[p]] EXCEPT !.name = msg[p].name]
<1>0. FlagsOK'
  BY FlagsTyped DEF Work
<1>1. /\ pc[p] = "assign" /\ pc' = [pc EXCEPT ![p] = "stamp"]
      /\ again' = [again EXCEPT ![p] = TRUE]
      /\ dur' = [dur EXCEPT ![p] = heap[match[p]].expiry]
      /\ heap' = [heap EXCEPT ![match[p]].name = msg[p].name]
      /\ UNCHANGED <<store, watchVars, cache, now, msg, match, raw,
                     until, received, names, hasty, overlapped, failed, orphaned>>
  BY DEF Assign, Goto, history, faults
<1>2. /\ pc[p] \in Working /\ match[p] \in Objects /\ heap[match[p]] \in Record
      /\ "stamp" \in Working
  BY <1>1 DEF Working
<1>3. heap' = [heap EXCEPT ![match[p]] = r] /\ r \in Record
  BY <1>1, <1>2, ChangedRecord, MessageFields
<1>4. /\ msg[p].type \in {"discover", "request"} /\ raw[p] = NoLease
      /\ again' \in [Procs -> BOOLEAN] /\ raw \in [Procs -> Record \cup {NoLease}]
      /\ dur' \in [Procs -> Int]
      /\ \A q \in Procs \ {p} : again'[q] = again[q]
  BY <1>1, <1>2, RecordFields DEF Placed, TypeOK, Pointed
<1>5. /\ msg[p].type # "release" /\ raw' = raw /\ raw'[p] = NoLease
      /\ store' \in [{Device} -> Record \cup {NoLease}]
  BY <1>1, <1>4
<1> HIDE DEF r
<1>6. PICK x \in Record : heap' = [heap EXCEPT ![match[p]] = x]
  BY <1>3
<1>7. /\ pc' = [pc EXCEPT ![p] = "stamp"]
      /\ UNCHANGED <<watchVars, cache, match, now, msg, until, received, names>>
      /\ \A q \in Procs \ {p} : raw'[q] = raw[q]
  BY <1>1
<1>8. "stamp" # "delete" /\ "stamp" # "write" /\ "stamp" \in {"stamp", "marshal", "write", "send"}
  OBVIOUS
<1> QED BY <1>0, <1>2, <1>4, <1>5, <1>6, <1>7, <1>8, UpdateMem

LEMMA SendMem == ASSUME MemInv, NEW p \in Procs, Send(p) PROVE MemInv'
<1> USE ConstantTypes, MessageFields DEF MemInv
<1>1. /\ pc[p] = "send" /\ Return(p)
      /\ until' = IF msg[p].type = "request"
                    THEN msg[p].at + Granted(heap[match[p]]) ELSE until
      /\ UNCHANGED <<store, watchVars, now, received, names>>
  BY DEF Send
<1>2. Granted(heap[match[p]]) \in Nat
  BY DEF Granted
<1>3. until' \in Nat
  BY <1>1, <1>2 DEF TypeOK
<1>4. store \in [{Device} -> Record \cup {NoLease}] 
  BY MemoryTypes
<1>5. FlagsOK'
  BY FlagsTyped DEF Work
<1> QED BY <1>1, <1>3, <1>4, <1>5, ReturnMem

LEMMA DeleteMem == ASSUME MemInv, NEW p \in Procs, DeleteLease(p) PROVE MemInv'
<1>1. /\ pc[p] = "delete" /\ Return(p)
      /\ UNCHANGED <<watchVars, now, until, received, names>>
      /\ store' \in {store, [store EXCEPT ![Device] = NoLease]}
  BY DEF DeleteLease, Watch!Delete
<1>2. /\ store' \in [{Device} -> Record \cup {NoLease}]
      /\ FlagsOK' /\ until' \in Nat
  BY <1>1, MemoryTypes, FlagsTyped DEF MemInv, TypeOK, Work
<1> QED BY <1>1, <1>2, ReturnMem

LEMMA WatchMem == ASSUME MemInv, WatchStep PROVE MemInv'
<1> USE MemoryTypes, RecordAt, ObjectTypes DEF MemInv
<1>0. UNCHANGED <<now, pc, msg, again, dur, raw, until, received, names,
                  hasty, overlapped, failed, orphaned>>
  BY DEF WatchStep, history, faults
<1>1. CASE NewEntry
  <2>1. PICK r \in Record \cup {NoLease} :
          /\ Replaced(r) /\ UNCHANGED <<store, match, pend>>
          /\ \/ phase' = "watching" /\ chan' = chan /\ lastData' = Watch!Absent
             \/ chan # <<>> /\ chan' = Tail(chan) /\ UNCHANGED <<lastData, phase>>
    <3>1. chan # <<>> => Head(chan).val \in Record \cup {NoLease}
      OBVIOUS
    <3> QED BY <1>1, <3>1, NewEntryIs
  <2>2. \A p \in Procs : match[p] # Nil => match[p] \in Objects /\ heap'[match[p]] = heap[match[p]]
    BY <2>1 DEF Replaced, TypeOK
  <2>3. TypeOK'
    <3>1. chan' \in Seq(Watch!Event) /\ lastData' \in [{Device} -> Record \cup {NoLease}]
      BY SMTT(30), <2>1 DEF Watch!Absent
    <3>2. /\ cache' \in Objects \cup {Nil} /\ heap' \in [Objects -> Record \cup {NoLease}]
          /\ Entries' \in [{Device} -> Record \cup {NoLease}]
      BY <2>1 DEF Replaced
    <3>3. Watch!WatcherTypeOK'
      BY <2>1, <3>1, <3>2 DEF Watch!WatcherTypeOK, TypeOK, Watch!Held
    <3>4. \A p \in Procs : pc[p] \notin {"idle", "find"} => match[p] # Nil
      BY DEF Pointed, TypeOK, Working
    <3>5. \A p \in Procs : pc'[p] \notin {"idle", "find"}
                            => match'[p] # Nil /\ heap'[match'[p]] # NoLease
      BY <1>0, <2>1, <2>2, <3>4 DEF TypeOK
    <3> QED BY <1>0, <2>1, <3>2, <3>3, <3>5 DEF TypeOK
  <2>4. Silent'
    BY <2>1 DEF Silent
  <2>5. Pointed'
    BY <1>0, <2>1, <2>2 DEF Pointed, Replaced
  <2>6. Placed'
    BY <1>0 DEF Placed
  <2> QED BY <2>3, <2>4, <2>5, <2>6
<1>2. CASE ~NewEntry
  <2>1. UNCHANGED <<heap, cache, match, store, phase>> /\ phase # "down"
    BY <1>2, TickIs DEF WatchStep, memory, Watch!Send, Silent
  <2>2. Entries' = Entries
    BY <2>1 DEF Entries
  <2>3. pend' \subseteq Watch!Event /\ chan' \in Seq(Watch!Event)
        /\ lastData' \in [{Device} -> Record \cup {NoLease}]
    <3>1. CASE Watch!Tick
      <4>1. \A v \in Record \cup {NoLease} : [key |-> Device, val |-> v] \in Watch!Event
        BY DEF Watch!Event, Watch!Held
      <4> QED BY <3>1, <4>1, TickIs
    <3>2. CASE \E e \in pend : Watch!Send(e)
      BY <3>2 DEF Watch!Send
    <3> QED BY <1>2, <3>1, <3>2 DEF WatchStep
  <2>4. Watch!WatcherTypeOK'
    BY <2>1, <2>2, <2>3 DEF Watch!WatcherTypeOK, TypeOK, Watch!Held
  <2> QED BY <1>0, <2>1, <2>4 DEF TypeOK, Silent, Pointed, Placed
<1> QED BY <1>1, <1>2

LEMMA MemNext == MemInv /\ [Next]_vars => MemInv'
<1> SUFFICES ASSUME MemInv, [Next]_vars PROVE MemInv'
  OBVIOUS
<1>1. ASSUME NEW p \in Procs, NEW m \in Message, Receive(p, m) PROVE MemInv'
  BY <1>1, ReceiveMem
<1>2. ASSUME NEW p \in Procs, Work(p) PROVE MemInv'
  BY <1>2, FindMem, StampMem, MarshalMem, WriteMem, CompareMem, AssignMem, SendMem, DeleteMem
     DEF Work
<1>3. CASE Clock
  <2>1. Entries' = Entries /\ now' \in Epoch..Horizon
    BY <1>3, ConstantTypes DEF Clock, memory, Entries, MemInv, TypeOK
  <2>2. Watch!WatcherTypeOK'
    BY <1>3, <2>1 DEF Clock, watchVars, MemInv, TypeOK, Watch!WatcherTypeOK
  <2> QED BY <1>3, <2>1, <2>2 DEF Clock, watchVars, memory, handlerVars, history, faults, MemInv,
                        TypeOK, Silent, Pointed, Placed
<1>4. CASE UNCHANGED vars
  <2>1. Entries' = Entries
    BY <1>4 DEF vars, memory, Entries
  <2>2. Watch!WatcherTypeOK'
    BY <1>4, <2>1 DEF vars, watchVars, MemInv, TypeOK, Watch!WatcherTypeOK
  <2> QED BY <1>4, <2>1, <2>2 DEF vars, watchVars, memory, handlerVars, history, faults, MemInv,
                        TypeOK, Silent, Pointed, Placed
<1> QED BY <1>1, <1>2, <1>3, <1>4, WatchMem DEF Next

\* Every reachable state is well typed: no record in use is ever dropped, and the
\* cache points to one whenever it points at all.
THEOREM RecordTyped == Spec => []TypeOK
<1>1. MemInv => TypeOK
  BY DEF MemInv
<1> QED BY <1>1, MemInit, MemNext, PTL DEF Spec

(***************************************************************************)
(* The records there are, and which of them a step makes.                  *)
(***************************************************************************)

\* Outside the memory that is shared: stored, on their way to the cache, or about
\* to be stored.
Copies ==
  {store[Device]} \cup {e.val : e \in pend} \cup {chan[i].val : i \in DOMAIN chan}
    \cup {raw[p] : p \in Procs}

Records == Copies \cup {heap[o] : o \in Objects}

\* The record x that a step of handler p makes, when it makes a new one.
Made(p, x) ==
  LET r == heap[match[p]]
  IN  \/ /\ pc[p] = "find" /\ cache = Nil /\ msg[p].type \in {"discover", "request"}
         /\ x.name = msg[p].name /\ x.time = 0 /\ x.expiry = 0
      \/ /\ pc[p] = "stamp" /\ dur[p] > 0 /\ r.expiry # -1
         /\ x.name = r.name /\ x.time = r.time /\ x.expiry = now + dur[p]
      \/ /\ pc[p] = "compare" /\ msg[p].name # r.name
         /\ x.name = Torn /\ x.time = r.time /\ x.expiry = r.expiry
      \/ /\ pc[p] = "assign"
         /\ x.name = msg[p].name /\ x.time = r.time /\ x.expiry = r.expiry

LEMMA RecordsHold ==
  ASSUME MemInv
  PROVE  /\ Records \subseteq Record \cup {NoLease} /\ Copies \subseteq Records
         /\ store[Device] \in Records /\ store[Device] \in Copies
         /\ \A e \in pend : e.val \in Copies
         /\ \A i \in DOMAIN chan : chan[i].val \in Copies
         /\ chan # <<>> => Head(chan).val \in Copies
         /\ \A o \in Objects : heap[o] \in Records
         /\ \A p \in Procs : raw[p] \in Copies
<1> USE MemoryTypes DEF MemInv
<1>1. Records \subseteq Record \cup {NoLease}
  BY DEF Records, Copies, TypeOK
<1>2. chan # <<>> => Head(chan) = chan[1] /\ 1 \in DOMAIN chan
  OBVIOUS
<1> QED BY <1>1, <1>2 DEF Records, Copies

LEMMA WatchSpread ==
  ASSUME MemInv, WatchStep
  PROVE  /\ Copies' \subseteq Copies \cup {NoLease}
         /\ Records' \subseteq Records \cup {NoLease}
<1> USE MemoryTypes, RecordsHold, ObjectTypes DEF MemInv
<1>0. UNCHANGED raw
  BY DEF WatchStep
<1>1. CASE NewEntry
  <2>1. PICK r \in Copies \cup {NoLease} :
          /\ Replaced(r) /\ UNCHANGED <<store, pend>>
          /\ chan' = chan \/ (chan # <<>> /\ chan' = Tail(chan))
    BY <1>1, NewEntryIs
  <2>2. \A i \in DOMAIN chan' : \E j \in DOMAIN chan : chan'[i] = chan[j]
    <3>1. CASE chan # <<>> /\ chan' = Tail(chan)
      <4>1. \A i \in DOMAIN chan' : i + 1 \in DOMAIN chan /\ chan'[i] = chan[i + 1]
        BY <3>1
      <4> QED BY <4>1
    <3> QED BY <2>1, <3>1
  <2>3. Copies' \subseteq Copies
    <3>1. {chan'[i].val : i \in DOMAIN chan'} \subseteq {chan[i].val : i \in DOMAIN chan}
      BY <2>2
    <3> HIDE MemoryTypes, RecordsHold, ObjectTypes DEF MemInv
    <3> QED BY <1>0, <2>1, <3>1 DEF Copies
  <2>4. \A o \in Objects : heap'[o] \in Records \cup {NoLease}
    BY <2>1 DEF Replaced
  <2> QED BY <2>3, <2>4 DEF Records
<1>2. CASE UNCHANGED <<memory, match>> /\ Watch!Tick
  <2>1. /\ UNCHANGED <<store, chan, heap>>
        /\ \A e \in pend' : e.val \in {store[Device], NoLease}
    BY <1>2, TickIs DEF memory
  <2> QED BY <1>0, <2>1 DEF Records, Copies
<1>3. ASSUME NEW e \in pend, UNCHANGED <<memory, match>>, Watch!Send(e)
      PROVE  Copies' \subseteq Copies /\ Records' \subseteq Records
  <2>1. UNCHANGED <<store, heap>> /\ pend' \subseteq pend /\ chan' = Append(chan, e)
    BY <1>3 DEF memory, Watch!Send
  <2>2. \A i \in DOMAIN chan' : chan'[i].val \in Copies
    BY <1>3, <2>1
  <2> QED BY <1>0, <2>1, <2>2 DEF Records, Copies
<1> QED BY <1>1, <1>2, <1>3 DEF WatchStep

LEMMA WorkSpread ==
  ASSUME MemInv, NEW p \in Procs, Work(p)
  PROVE  /\ \A x \in Copies' : \/ x \in Copies \cup {NoLease}
                               \/ pc[p] = "marshal" /\ x = heap[match[p]]
         /\ \A x \in Records' : x \in Records \cup {NoLease} \/ Made(p, x)
         /\ \A o \in Objects : \/ heap'[o] \in {heap[o], NoLease}
                               \/ Made(p, heap'[o]) /\ match'[p] = o
<1> USE MemoryTypes, RecordAt, RecordsHold, ObjectTypes DEF MemInv
<1>1. UNCHANGED <<pend, chan>>
  BY DEF Work, FindLease, Stamp, Marshal, Write, Compare, Assign, Send, DeleteLease, watchVars
<1>2. store'[Device] \in Copies \cup {NoLease}
  BY DEF Work, FindLease, Stamp, Marshal, Write, Compare, Assign, Send, DeleteLease,
         Watch!Put, Watch!Delete
<1>3. \A q \in Procs : \/ raw'[q] \in Copies \cup {NoLease}
                       \/ pc[p] = "marshal" /\ raw'[q] = heap[match[p]]
  <2>1. Return(p) \/ Marshal(p) \/ raw' \in {raw, [raw EXCEPT ![p] = NoLease]}
    BY DEF Work, FindLease, FindNone, LeaseFor, FindCached, Stamp, Write, Compare,
           Assign, Send, DeleteLease
  <2>2. Marshal(p) => pc[p] = "marshal" /\ raw' = [raw EXCEPT ![p] = heap[match[p]]]
    BY DEF Marshal
  <2> QED BY ZenonT(30), <2>1, <2>2, ReturnIs DEF TypeOK
<1>4. \A o \in Objects : \/ heap'[o] \in {heap[o], NoLease}
                         \/ Made(p, heap'[o]) /\ match'[p] = o
  <2>1. CASE Return(p)
    BY <2>1, ReturnIs
  <2>2. CASE FindLease(p) /\ ~Return(p)
    <3>1. CASE FindNone(p)
      <4> DEFINE r == [name |-> msg[p].name, time |-> 0, expiry |-> 0]
      <4>1. /\ heap' = [heap EXCEPT ![Free] = r] /\ match' = [match EXCEPT ![p] = Free]
            /\ pc[p] = "find" /\ cache = Nil /\ msg[p].type \notin {"decline", "release"}
        BY <2>2, <3>1 DEF FindLease, FindNone, LeaseFor
      <4>2. msg[p].type \in {"discover", "request"}
        BY <4>1, MessageFields DEF Types
      <4>3. Made(p, r)
        BY <4>1, <4>2 DEF Made
      <4>4. match'[p] = Free /\ heap'[Free] = r /\ \A o \in Objects \ {Free} : heap'[o] = heap[o]
        BY <4>1, FreeIsFree DEF TypeOK
      <4> HIDE DEF r
      <4> QED BY <4>3, <4>4
    <3>2. CASE FindCached(p)
      BY <2>2, <3>2 DEF FindCached, memory
    <3> QED BY <2>2, <3>1, <3>2 DEF FindLease
  <2>3. CASE Stamp(p) \/ Compare(p) \/ Assign(p)
    <3>1. match[p] \in Objects /\ heap[match[p]] \in Record
      BY <2>3 DEF Stamp, Compare, Assign, Working
    <3>2. \A o \in Objects \ {match[p]} : heap'[o] = heap[o]
      BY <2>3 DEF Stamp, Compare, Assign
    <3>3. /\ heap'[match[p]] = heap[match[p]] \/ Made(p, heap'[match[p]])
          /\ match' = match
      <4> DEFINE r == heap[match[p]]
      <4>1. CASE Stamp(p)
        BY <3>1, <4>1, RecordFields DEF Stamp, Made, Record
      <4>2. CASE Compare(p)
        BY <3>1, <4>2, RecordFields DEF Compare, Made, Record
      <4>3. CASE Assign(p)
        BY <3>1, <4>3, RecordFields DEF Assign, Made, Record
      <4> QED BY <2>3, <4>1, <4>2, <4>3
    <3> QED BY <3>1, <3>2, <3>3
  <2>4. CASE UNCHANGED heap
    BY <2>4
  <2> QED BY <2>1, <2>2, <2>3, <2>4
        DEF Work, Marshal, Write, Send, DeleteLease, memory
<1>5. /\ \A e \in pend' : e.val \in Copies
      /\ \A i \in DOMAIN chan' : chan'[i].val \in Copies
  BY <1>1
<1>6. \A x \in Copies' :
        \/ x = store'[Device] \/ (\E e \in pend' : x = e.val)
        \/ (\E i \in DOMAIN chan' : x = chan'[i].val) \/ (\E q \in Procs : x = raw'[q])
  BY DEF Copies
<1>7. \A x \in Copies' : x \in Copies \cup {NoLease} \/ (pc[p] = "marshal" /\ x = heap[match[p]])
  BY <1>2, <1>3, <1>5, <1>6
<1>8. pc[p] = "marshal" => heap[match[p]] \in Records
  BY DEF Working
<1>9. \A x \in Records' : x \in Copies' \/ \E o \in Objects : x = heap'[o]
  BY DEF Records
<1> QED BY <1>4, <1>7, <1>8, <1>9

\* Steps that make no record and lose none.
LEMMA RestSpread ==
  ASSUME MemInv, \/ \E p \in Procs, m \in Message : Receive(p, m)
                 \/ Clock \/ UNCHANGED vars
  PROVE  Records' = Records /\ Copies' = Copies
<1>1. UNCHANGED <<store, pend, chan, heap, raw>>
  BY DEF Receive, Clock, vars, watchVars, memory, handlerVars
<1> QED BY <1>1 DEF Records, Copies

(***************************************************************************)
(* Reservations.                                                           *)
(***************************************************************************)

\* The client has a reservation, and every record and copy of one is it.
AllReserved ==
  /\ \A r \in Records \ {NoLease} : r.expiry = -1
  /\ store[Device] # NoLease
  /\ \A e \in pend : e.val # NoLease
  /\ \A i \in DOMAIN chan : chan[i].val # NoLease
  /\ phase # "down" => cache # Nil
  /\ \A p \in Procs : pc[p] # "delete"

\* It has none, and what will be added to the time is not negative.
NoneReserved ==
  /\ \A r \in Records \ {NoLease} : r.expiry >= 0
  /\ \A p \in Procs : dur[p] >= 0

KindInv == AllReserved \/ NoneReserved

LEMMA KindInit == Init => KindInv
<1> SUFFICES ASSUME Init PROVE KindInv
  OBVIOUS
<1> USE ConstantTypes
<1>1. PICK r \in {NoLease} \cup [name : Names, time : Times, expiry : {Epoch}]
                    \cup [name : Names, time : {0}, expiry : {-1}] :
        store = [k \in {Device} |-> r]
  BY DEF Init
<1>2. /\ pend = {} /\ chan = <<>> /\ phase = "down" /\ dur = [p \in Procs |-> 0]
      /\ heap = [o \in Objects |-> NoLease] /\ raw = [p \in Procs |-> NoLease]
      /\ pc = [p \in Procs |-> "idle"]
  BY DEF Init, Watch!WatcherDown
<1>3. Records \subseteq {r, NoLease}
  BY <1>1, <1>2 DEF Records, Copies
<1>4. CASE r # NoLease /\ r.expiry = -1
  BY <1>1, <1>2, <1>3, <1>4 DEF KindInv, AllReserved
<1>5. CASE r = NoLease \/ r.expiry = Epoch
  BY <1>1, <1>2, <1>3, <1>5 DEF KindInv, NoneReserved
<1> QED BY <1>4, <1>5

\* Scans that can read the reservation never make the cache forget it.
LEMMA AllReservedNext == ~ReadFaults /\ MemInv /\ AllReserved /\ [Next]_vars => AllReserved'
<1> SUFFICES ASSUME ~ReadFaults, MemInv, AllReserved, [Next]_vars PROVE AllReserved'
  OBVIOUS
<1> USE MemoryTypes, RecordsHold, ObjectTypes DEF MemInv
<1>1. CASE \/ \E p \in Procs, m \in Message : Receive(p, m)
           \/ Clock \/ UNCHANGED vars
  <2>1. UNCHANGED <<store, pend, chan, phase, cache>> /\ Records' = Records
    BY <1>1, RestSpread DEF Receive, Clock, vars, watchVars, memory
  <2>2. \A p \in Procs : pc'[p] # "delete"
    BY <1>1 DEF AllReserved, Receive, Goto, Clock, vars, handlerVars, TypeOK
  <2> QED BY <2>1, <2>2 DEF AllReserved
<1>2. ASSUME NEW p \in Procs, Work(p) PROVE AllReserved'
  <2> USE <1>2, RecordAt
  <2>1. pc[p] # "delete" /\ phase # "down" /\ cache # Nil
    BY DEF AllReserved, Work, FindLease, Stamp, Marshal, Write, Compare, Assign, Send, DeleteLease
  <2>2. \A x \in Records' \ {NoLease} : x.expiry = -1
    <3>1. pc[p] \in Working => heap[match[p]].expiry = -1
      BY RecordFields DEF AllReserved
    <3> QED BY <2>1, <3>1, WorkSpread DEF AllReserved, Made, Working
  <2>3. store'[Device] # NoLease
    <3>1. CASE Write(p)
      <4>1. raw[p] # NoLease
        BY <3>1 DEF Write, Pointed
      <4> QED BY <3>1, <4>1 DEF Write, Watch!Put, AllReserved
    <3>2. CASE ~Write(p)
      BY <2>1, <3>2 DEF Work, FindLease, Stamp, Marshal, Compare, Assign, Send, DeleteLease,
                        AllReserved
    <3> QED BY <3>1, <3>2
  <2>4. UNCHANGED <<pend, chan, phase>>
    BY DEF Work, FindLease, Stamp, Marshal, Write, Compare, Assign, Send, DeleteLease, watchVars
  <2>5. cache' = cache
    BY DEF Work, FindLease, FindNone, LeaseFor, FindCached, Stamp, Marshal, Write,
           Compare, Assign, Send, DeleteLease, memory, Return
  <2>6. \A q \in Procs : pc'[q] # "delete"
    <3>1. CASE FindLease(p)
      <4>1. heap[cache].expiry = -1
        BY <2>1, RecordFields DEF AllReserved
      <4>2. pc' = [pc EXCEPT ![p] = "idle"] \/ pc' = [pc EXCEPT ![p] = "stamp"]
        BY <2>1, <3>1, <4>1 DEF FindLease, FindNone, LeaseFor, FindCached, Return, Goto
      <4> QED BY <4>2 DEF AllReserved, TypeOK
    <3>2. CASE ~FindLease(p)
      <4>1. \E l \in {"idle", "stamp", "marshal", "write", "compare", "assign", "send"} :
              pc' = [pc EXCEPT ![p] = l]
        BY <2>1, <3>2 DEF Work, Stamp, Marshal, Write, Compare, Assign, Send, DeleteLease,
                          Return, Goto
      <4> QED BY <4>1 DEF AllReserved, TypeOK
    <3> QED BY <3>1, <3>2
  <2> QED BY <2>1, <2>2, <2>3, <2>4, <2>5, <2>6 DEF AllReserved
<1>3. CASE WatchStep
  <2> USE <1>3
  <2>1. Records' \subseteq Records \cup {NoLease} /\ UNCHANGED pc
    BY WatchSpread DEF WatchStep
  <2>2. CASE NewEntry
    <3>1. PICK r \in Records :
            /\ r # NoLease /\ Replaced(r) /\ UNCHANGED <<store, pend>>
            /\ chan' = chan \/ (chan # <<>> /\ chan' = Tail(chan))
      <4>1. chan # <<>> => Head(chan) = chan[1] /\ 1 \in DOMAIN chan
        OBVIOUS
      <4>2. chan # <<>> => Head(chan).val # NoLease
        BY <4>1 DEF AllReserved
      <4> QED BY <2>2, <4>2, NewEntryIs DEF AllReserved
    <3>2. \A i \in DOMAIN chan' : chan'[i].val # NoLease
      <4>1. CASE chan' = chan
        BY <4>1 DEF AllReserved
      <4>2. CASE chan # <<>> /\ chan' = Tail(chan)
        <5>1. \A i \in DOMAIN chan' : i + 1 \in DOMAIN chan /\ chan'[i] = chan[i + 1]
          BY <4>2
        <5> QED BY <5>1 DEF AllReserved
      <4> QED BY <3>1, <4>1, <4>2
    <3>3. cache' # Nil
      BY <3>1 DEF Replaced
    <3> QED BY <2>1, <3>1, <3>2, <3>3 DEF AllReserved
  <2>3. CASE UNCHANGED <<memory, match>> /\ Watch!Tick
    <3>1. /\ UNCHANGED <<store, chan, phase, cache>>
          /\ lastData' = store /\ \A e \in pend' : e.val = lastData'[Device]
      BY <2>3, TickIs DEF memory
    <3> QED BY <2>1, <3>1 DEF AllReserved
  <2>4. ASSUME NEW e \in pend, UNCHANGED <<memory, match>>, Watch!Send(e) PROVE AllReserved'
    <3>1. /\ UNCHANGED <<store, phase, cache>> /\ pend' \subseteq pend
          /\ chan' = Append(chan, e)
      BY <2>4 DEF memory, Watch!Send
    <3>2. \A i \in DOMAIN chan' : chan'[i].val # NoLease
      BY <2>4, <3>1 DEF AllReserved
    <3> QED BY <2>1, <3>1, <3>2 DEF AllReserved
  <2> QED BY <2>2, <2>3, <2>4 DEF WatchStep
<1> QED BY <1>1, <1>2, <1>3 DEF Next

LEMMA NoneReservedNext == MemInv /\ NoneReserved /\ [Next]_vars => NoneReserved'
<1> SUFFICES ASSUME MemInv, NoneReserved, [Next]_vars PROVE NoneReserved'
  OBVIOUS
<1> USE MemoryTypes, RecordsHold, ObjectTypes, ConstantTypes DEF MemInv
<1>1. CASE \/ \E p \in Procs, m \in Message : Receive(p, m)
           \/ Clock \/ UNCHANGED vars
  <2>1. UNCHANGED dur /\ Records' = Records
    BY <1>1, RestSpread DEF Receive, Clock, vars, handlerVars
  <2> QED BY <2>1 DEF NoneReserved
<1>2. ASSUME NEW p \in Procs, Work(p) PROVE NoneReserved'
  <2> USE <1>2, RecordAt
  <2>0. dur[p] \in Int /\ now \in Nat
    BY DEF TypeOK
  <2>1. pc[p] \in Working => heap[match[p]].expiry >= 0
    BY RecordFields DEF NoneReserved
  <2>2. \A x \in Records' \ {NoLease} : x.expiry >= 0
    BY <2>0, <2>1, WorkSpread DEF NoneReserved, Made, Working
  <2>3. \E n \in Nat : dur' = [dur EXCEPT ![p] = n]
    <3>1. CASE FindLease(p)
      <4>1. dur' \in {[dur EXCEPT ![p] = 0], [dur EXCEPT ![p] = TTL], [dur EXCEPT ![p] = Negotiate]}
        BY <3>1 DEF FindLease, FindNone, LeaseFor, FindCached, Return
      <4>2. 0 \in Nat /\ TTL \in Nat /\ Negotiate \in Nat
        OBVIOUS
      <4> HIDE <1>2, RecordAt, MemoryTypes, RecordsHold, ObjectTypes, ConstantTypes
      <4> QED BY <4>1, <4>2
    <3>2. CASE Assign(p)
      <4>1. heap[match[p]].expiry \in Nat
        BY <2>1, <3>2, RecordFields DEF Assign, Working
      <4> QED BY <3>2, <4>1 DEF Assign
    <3>3. CASE ~FindLease(p) /\ ~Assign(p)
      <4>1. dur' \in {dur, [dur EXCEPT ![p] = 0]}
        BY <3>3 DEF Work, Stamp, Marshal, Write, Compare, Send, DeleteLease, Return
      <4>2. dur[p] \in Nat /\ dur = [dur EXCEPT ![p] = dur[p]]
        BY <2>0 DEF NoneReserved, TypeOK
      <4> QED BY <4>1, <4>2
    <3> QED BY <3>1, <3>2, <3>3
  <2>4. \A q \in Procs : dur'[q] >= 0
    BY <2>3 DEF NoneReserved, TypeOK
  <2> QED BY <2>2, <2>4 DEF NoneReserved
<1>3. CASE WatchStep
  <2>1. UNCHANGED dur /\ Records' \subseteq Records \cup {NoLease}
    BY <1>3, WatchSpread DEF WatchStep
  <2> QED BY <2>1 DEF NoneReserved
<1> QED BY <1>1, <1>2, <1>3 DEF Next

\* As long as its value can be read, a reservation is never dropped, and no step
\* gives it an expiry.
THEOREM ReservationsStay == ASSUME ~ReadFaults PROVE Spec => ReservationStays
<1>1. MemInv /\ KindInv /\ [Next]_vars
        => [store[Device] # NoLease /\ store[Device].expiry = -1
              => store'[Device] # NoLease /\ store'[Device].expiry = -1]_vars
  <2> SUFFICES ASSUME MemInv, KindInv, [Next]_vars,
                      store[Device] # NoLease, store[Device].expiry = -1
               PROVE  store'[Device] # NoLease /\ store'[Device].expiry = -1
    OBVIOUS
  <2>1. AllReserved
    BY RecordsHold DEF KindInv, NoneReserved
  <2>2. AllReserved' /\ MemInv'
    BY <2>1, AllReservedNext, MemNext
  <2>3. store'[Device] \in Records'
    BY DEF Records, Copies
  <2> QED BY <2>2, <2>3 DEF AllReserved
<1>2. KindInv /\ MemInv /\ [Next]_vars => KindInv'
  BY AllReservedNext, NoneReservedNext DEF KindInv
<1> QED BY <1>1, <1>2, MemInit, MemNext, KindInit, PTL DEF Spec, ReservationStays

(***************************************************************************)
(* One host name.                                                          *)
(***************************************************************************)

Steady == \A m, n \in names : m = n

ReachInv ==
  /\ IsFiniteSet(names)
  /\ Steady =>
       /\ \A r \in Records \ {NoLease} : r.name \in names /\ r.expiry <= now + TTL
       /\ \A p \in Procs :
            /\ (pc[p] # "idle" /\ msg[p].type \in {"discover", "request"})
                 => msg[p].name \in names
            /\ ~again[p] /\ pc[p] # "assign"
            /\ dur[p] <= TTL

LEMMA OneName ==
  ASSUME IsFiniteSet(names), Cardinality(names) <= 1
  PROVE  Steady
<1> SUFFICES ASSUME NEW m \in names, NEW n \in names, m # n PROVE FALSE
  BY DEF Steady
<1>1. IsFiniteSet({n}) /\ Cardinality({n}) = 1
  BY FS_Singleton
<1>2. Cardinality({n} \cup {m}) = Cardinality({n}) + 1
  <2> DEFINE S == {n}
  <2>1. IsFiniteSet(S) /\ m \notin S
    BY <1>1
  <2> HIDE DEF S
  <2>2. Cardinality(S \cup {m}) = Cardinality(S) + 1
    BY <2>1, FS_AddElement
  <2> QED BY <2>2 DEF S
<1>3. {n} \cup {m} \subseteq names
  OBVIOUS
<1>4. Cardinality({n} \cup {m}) <= Cardinality(names)
  BY <1>3, FS_Subset
<1>5. Cardinality(names) \in Nat
  BY FS_CardinalityType
<1> QED BY <1>1, <1>2, <1>4, <1>5

LEMMA ReachInit == Init => ReachInv
<1> SUFFICES ASSUME Init PROVE ReachInv
  OBVIOUS
<1> USE ConstantTypes
<1>1. PICK r \in {NoLease} \cup [name : Names, time : Times, expiry : {Epoch}]
                    \cup [name : Names, time : {0}, expiry : {-1}] :
        /\ store = [k \in {Device} |-> r]
        /\ names = IF r = NoLease THEN {} ELSE {r.name}
  BY DEF Init
<1>2. /\ pend = {} /\ chan = <<>> /\ dur = [p \in Procs |-> 0]
      /\ heap = [o \in Objects |-> NoLease] /\ raw = [p \in Procs |-> NoLease]
      /\ pc = [p \in Procs |-> "idle"] /\ again = [p \in Procs |-> FALSE] /\ now = Epoch
  BY DEF Init, Watch!WatcherDown
<1>3. Records \subseteq {r, NoLease}
  BY <1>1, <1>2 DEF Records, Copies
<1>4. IsFiniteSet(names)
  BY <1>1, FS_EmptySet, FS_Singleton
<1>5. \A x \in Records \ {NoLease} : x.name \in names /\ x.expiry <= now + TTL
  BY <1>1, <1>2, <1>3
<1> QED BY <1>2, <1>4, <1>5 DEF ReachInv

LEMMA ReachNext == MemInv /\ ReachInv /\ [Next]_vars => ReachInv'
<1> SUFFICES ASSUME MemInv, ReachInv, [Next]_vars PROVE ReachInv'
  OBVIOUS
<1> USE MemoryTypes, RecordsHold, ObjectTypes, ConstantTypes DEF MemInv
<1>0. now \in Nat /\ dur \in [Procs -> Int]
  BY DEF TypeOK
<1>1. ASSUME NEW p \in Procs, NEW m \in Message, Receive(p, m) PROVE ReachInv'
  <2> USE <1>1
  <2>1. IsFiniteSet(names')
    BY FS_AddElement DEF Receive, ReachInv
  <2>2. names \subseteq names' /\ UNCHANGED <<again, dur, now>> /\ Records' = Records
    BY RestSpread DEF Receive
  <2>3. /\ pc' = [pc EXCEPT ![p] = "find"] /\ msg' = [msg EXCEPT ![p] = m]
        /\ m.type \in {"discover", "request"} => m.name \in names'
    BY DEF Receive, Goto
  <2>4. Steady' => Steady
    BY <2>2 DEF Steady
  <2> QED BY <2>1, <2>2, <2>3, <2>4 DEF ReachInv, TypeOK
<1>2. CASE Clock \/ UNCHANGED vars
  <2>1. /\ UNCHANGED <<names, pc, msg, again, dur>> /\ Records' = Records
        /\ now' >= now /\ now' \in Nat
    BY <1>0, <1>2, RestSpread DEF Clock, vars, handlerVars, history, faults
  <2>2. \A r \in Records \ {NoLease} : r.expiry <= now + TTL => r.expiry <= now' + TTL
    BY <1>0, <2>1, RecordFields
  <2> QED BY <2>1, <2>2 DEF ReachInv, Steady
<1>3. ASSUME NEW p \in Procs, Work(p) PROVE ReachInv'
  <2> USE <1>3, RecordAt
  <2>1. UNCHANGED <<names, now>>
    BY DEF Work, FindLease, Stamp, Marshal, Write, Compare, Assign, Send, DeleteLease,
           history, faults
  <2> SUFFICES ASSUME Steady PROVE ReachInv'
    BY <2>1 DEF ReachInv, Steady
  <2>2. ~Assign(p) /\ pc[p] # "assign"
    BY DEF Assign, ReachInv
  <2>3. pc[p] \in Working => heap[match[p]].name \in names /\ heap[match[p]].expiry <= now + TTL
    BY RecordFields DEF ReachInv
  <2>4. pc[p] = "compare" => msg[p].name = heap[match[p]].name
    BY <2>3 DEF ReachInv, Steady, Placed, Working
  <2>5. \A x \in Records' \ {NoLease} : x.name \in names /\ x.expiry <= now + TTL
    <3>1. ASSUME NEW x \in Records', Made(p, x) PROVE x.name \in names /\ x.expiry <= now + TTL
      <4>1. dur[p] <= TTL
        BY DEF ReachInv
      <4>2. pc[p] = "find" /\ msg[p].type \in {"discover", "request"} => msg[p].name \in names
        BY DEF ReachInv
      <4> QED BY <1>0, <2>2, <2>3, <2>4, <3>1, <4>1, <4>2 DEF Made, Working
    <3> QED BY <3>1, WorkSpread DEF ReachInv
  <2>6. again' \in {again, [again EXCEPT ![p] = FALSE]}
    BY <2>2
       DEF Work, FindLease, FindNone, LeaseFor, FindCached, Stamp, Marshal, Write,
           Compare, Send, DeleteLease, Return
  <2>7. dur' \in {dur, [dur EXCEPT ![p] = 0], [dur EXCEPT ![p] = TTL],
                  [dur EXCEPT ![p] = Negotiate]}
    BY <2>2
       DEF Work, FindLease, FindNone, LeaseFor, FindCached, Stamp, Marshal, Write,
           Compare, Send, DeleteLease, Return
  <2>8. \/ /\ msg' = msg /\ pc[p] # "idle"
           /\ \E l \in Working \ {"assign"} : pc' = [pc EXCEPT ![p] = l]
        \/ pc' = [pc EXCEPT ![p] = "idle"] /\ msg' = [msg EXCEPT ![p] = NoMsg]
    BY <2>2, <2>4
       DEF Work, FindLease, FindNone, LeaseFor, FindCached, Stamp, Marshal, Write,
           Compare, Send, DeleteLease, Return, Goto, Working
  <2>9. \A q \in Procs : dur'[q] <= TTL
    <3>1. \A n \in Int : n <= TTL /\ dur' = [dur EXCEPT ![p] = n] => \A q \in Procs : dur'[q] <= TTL
      BY <1>0 DEF ReachInv
    <3>2. 0 <= TTL /\ TTL \in Int /\ Negotiate <= TTL /\ Negotiate \in Int
      OBVIOUS
    <3> QED BY <2>7, <3>1, <3>2 DEF ReachInv
  <2>10. \A q \in Procs : ~again'[q]
    <3>1. \A q \in Procs : ~again[q]
      BY DEF ReachInv
    <3>2. again \in [Procs -> BOOLEAN]
      BY DEF TypeOK
    <3> HIDE MemoryTypes, RecordsHold, ObjectTypes
    <3> QED BY <2>6, <3>1, <3>2
  <2>11. \A q \in Procs : /\ pc'[q] # "assign"
                          /\ (pc'[q] # "idle" /\ msg'[q].type \in {"discover", "request"})
                               => msg'[q].name \in names
    BY <2>8 DEF ReachInv, TypeOK
  <2> QED BY <2>1, <2>5, <2>9, <2>10, <2>11 DEF ReachInv
<1>4. CASE WatchStep
  <2>1. /\ UNCHANGED <<names, now, pc, msg, again, dur>>
        /\ Records' \subseteq Records \cup {NoLease}
    BY <1>4, WatchSpread DEF WatchStep, history, faults
  <2> QED BY <2>1 DEF ReachInv, Steady
<1> QED BY <1>1, <1>2, <1>3, <1>4 DEF Next

\* While the client sticks to one host name, no stored expiry is further ahead
\* than the scope's time, whatever overlaps and whichever write fails.
THEOREM ExpiryStaysInReach == Spec => []ExpiryInReach
<1>1. MemInv /\ ReachInv => ExpiryInReach
  <2> SUFFICES ASSUME MemInv, ReachInv, Cardinality(names) <= 1, store[Device] # NoLease
               PROVE  store[Device].expiry <= now + TTL
    BY DEF ExpiryInReach
  <2>1. Steady
    BY OneName DEF ReachInv
  <2> QED BY <2>1, RecordsHold DEF ReachInv
<1> QED BY <1>1, MemInit, MemNext, ReachInit, ReachNext, PTL DEF Spec

(***************************************************************************)
(* One message at a time.                                                  *)
(***************************************************************************)

\* As long as no message came while another was handled, one handler works.
Solo ==
  ~overlapped => \A p, q \in Procs : (pc[p] # "idle" /\ pc[q] # "idle") => p = q

\* What a message finds if it does not overlap with another, or is not hasty.
LEMMA ReceiveIs ==
  ASSUME NEW p \in Procs, NEW m \in Message, Receive(p, m), TypeOK
  PROVE  /\ pc' = [pc EXCEPT ![p] = "find"] /\ msg' = [msg EXCEPT ![p] = m]
         /\ UNCHANGED <<store, lastData, pend, chan, phase, heap, cache, now, match, again, dur,
                        raw, failed, orphaned>>
         /\ ~overlapped' => ~overlapped /\ \A q \in Procs : pc[q] = "idle"
         /\ ~hasty' => ~hasty /\ Settled
BY DEF Receive, Goto, watchVars, memory, faults, TypeOK

\* A step of a handler leaves the others where they are.
LEMMA WorkIs ==
  ASSUME NEW p \in Procs, Work(p), MemInv
  PROVE  /\ pc[p] # "idle" /\ \A q \in Procs \ {p} : pc'[q] = pc[q] /\ match'[q] = match[q]
         /\ UNCHANGED <<lastData, pend, chan, phase, now, cache, hasty, overlapped>>
         /\ ~failed' => ~failed
<1>1. pc[p] # "idle" /\ (~failed' => ~failed) /\ UNCHANGED <<hasty, overlapped>>
  BY DEF Work, FindLease, Stamp, Marshal, Write, Compare, Assign, Send, DeleteLease, history, faults
<1>2. UNCHANGED <<lastData, pend, chan, phase, now, cache>>
  BY DEF Work, FindLease, FindNone, LeaseFor, FindCached, Stamp, Marshal, Write, Compare, Assign,
         Send, DeleteLease, Return, watchVars, memory
<1>3. \E l \in Working \cup {"idle"} : pc' = [pc EXCEPT ![p] = l]
  BY DEF Work, FindLease, FindNone, LeaseFor, FindCached, Stamp, Marshal, Write, Compare, Assign,
         Send, DeleteLease, Return, Goto, Working
<1>4. match' = match \/ \E o \in Objects \cup {Nil} : match' = [match EXCEPT ![p] = o]
  BY FreeIsFree DEF Work, FindLease, FindNone, LeaseFor, FindCached, Stamp, Marshal, Write, Compare,
         Assign, Send, DeleteLease, Return, memory, MemInv, TypeOK
<1> QED BY <1>1, <1>2, <1>3, <1>4 DEF MemInv, TypeOK

\* Every other step leaves the handlers and their records alone.
LEMMA RestIs ==
  ASSUME MemInv, WatchStep \/ Clock \/ UNCHANGED vars
  PROVE  /\ UNCHANGED <<store, pc, msg, match, again, dur, raw, until, hasty, overlapped, failed,
                        orphaned>>
         /\ \A p \in Procs : pc[p] \in Working => heap'[match[p]] = heap[match[p]]
<1>1. CASE WatchStep
  <2>1. UNCHANGED <<pc, msg, again, dur, raw, until, hasty, overlapped, failed, orphaned>>
    BY <1>1 DEF WatchStep, history, faults
  <2>2. UNCHANGED <<store, match>>
    BY <1>1, NewEntryIs, TickIs DEF MemInv, WatchStep, Watch!Send
  <2>3. \A p \in Procs : pc[p] \in Working => heap'[match[p]] = heap[match[p]]
    BY <1>1, NewEntryIs, RecordAt DEF MemInv, WatchStep, memory, Replaced
  <2> QED BY <2>1, <2>2, <2>3
<1>2. CASE Clock \/ UNCHANGED vars
  BY <1>2 DEF Clock, vars, memory, handlerVars, history, faults
<1> QED BY <1>1, <1>2

LEMMA SoloNext == MemInv /\ Solo /\ [Next]_vars => Solo'
<1> SUFFICES ASSUME MemInv, Solo, [Next]_vars PROVE Solo'
  OBVIOUS
<1>1. ASSUME NEW p \in Procs, NEW m \in Message, Receive(p, m), ~overlapped' PROVE Solo'
  BY <1>1, ReceiveIs DEF Solo, MemInv, TypeOK
<1>2. ASSUME NEW p \in Procs, Work(p) PROVE Solo'
  BY <1>2, WorkIs DEF Solo
<1>3. CASE WatchStep \/ Clock \/ UNCHANGED vars
  BY <1>3, RestIs DEF Solo
<1> QED BY <1>1, <1>2, <1>3 DEF Next, Solo

(***************************************************************************)
(* Torn names.                                                             *)
(***************************************************************************)

Whole(r) == r # NoLease => r.name # Torn

\* Only the record that a handler is assigning to is torn.
WholeInv ==
  ~overlapped =>
    /\ \A r \in Copies : Whole(r)
    /\ \A o \in Objects : \/ Whole(heap[o])
                          \/ \E p \in Procs : match[p] = o /\ pc[p] = "assign"

LEMMA WholeInit == Init => WholeInv
<1> SUFFICES ASSUME Init PROVE WholeInv
  OBVIOUS
<1>1. PICK r \in {NoLease} \cup [name : Names, time : Times, expiry : {Epoch}]
                    \cup [name : Names, time : {0}, expiry : {-1}] :
        store = [k \in {Device} |-> r]
  BY DEF Init
<1>2. /\ pend = {} /\ chan = <<>> /\ raw = [p \in Procs |-> NoLease]
      /\ heap = [o \in Objects |-> NoLease]
  BY DEF Init, Watch!WatcherDown
<1>3. Whole(r) /\ Whole(NoLease)
  BY <1>1, ConstantTypes DEF Whole
<1> QED BY <1>1, <1>2, <1>3 DEF WholeInv, Copies

LEMMA WholeNext == MemInv /\ Solo /\ WholeInv /\ [Next]_vars => WholeInv'
<1> SUFFICES ASSUME MemInv, Solo, WholeInv, [Next]_vars, ~overlapped' PROVE WholeInv'
  BY DEF WholeInv
<1> USE MemoryTypes, ObjectTypes DEF MemInv
<1>0. ~overlapped /\ Whole(NoLease)
  BY ReceiveIs, WorkIs, RestIs DEF Next, Whole
<1>1. ASSUME NEW p \in Procs, NEW m \in Message, Receive(p, m) PROVE WholeInv'
  <2>1. UNCHANGED <<heap, match>> /\ Copies' = Copies
    BY <1>1, RestSpread, ReceiveIs
  <2>2. \A q \in Procs : pc[q] = "idle"
    BY <1>1, ReceiveIs
  <2> QED BY <1>0, <2>1, <2>2 DEF WholeInv, Whole
<1>2. ASSUME NEW p \in Procs, Work(p) PROVE WholeInv'
  <2>1. \A q \in Procs : pc[q] # "idle" => q = p
    BY <1>0, <1>2, WorkIs DEF Solo
  <2>2. pc[p] \in Working \ {"assign"} => heap[match[p]] \in Record /\ heap[match[p]].name # Torn
    BY ZenonT(30), <1>0, <2>1, RecordAt, RecordFields DEF WholeInv, Whole
  <2>3. \A x \in Copies' : Whole(x)
    BY <1>0, <1>2, <2>2, WorkSpread DEF WholeInv, Whole, Working
  <2>4. ASSUME NEW o \in Objects
        PROVE  Whole(heap'[o]) \/ \E q \in Procs : match'[q] = o /\ pc'[q] = "assign"
    <3>1. CASE heap'[o] = NoLease
      BY <1>0, <3>1
    <3>2. CASE heap'[o] = heap[o] /\ ~Whole(heap[o])
      <4>1. match[p] = o /\ pc[p] = "assign"
        BY <1>0, <2>1, <3>2 DEF WholeInv
      <4>2. Assign(p)
        BY <1>2, <4>1 DEF Work, FindLease, Stamp, Marshal, Write, Compare, Send, DeleteLease
      <4>3. msg[p].name # Torn /\ heap[o] \in Record
        BY <4>1, RecordAt, MessageFields, ConstantTypes DEF Working
      <4>4. heap'[o].name = msg[p].name
        BY <4>1, <4>2, <4>3 DEF Assign, Record
      <4> QED BY <4>3, <4>4 DEF Whole
    <3>3. CASE Made(p, heap'[o]) /\ match'[p] = o
      <4>1. pc[p] \in {"find", "stamp", "assign"} => Whole(heap'[o])
        BY <2>2, <3>3, RecordAt, MessageFields, ConstantTypes DEF Made, Whole, Working
      <4>2. CASE pc[p] = "compare"
        <5>1. Compare(p) /\ msg[p].name # heap[match[p]].name
          BY <1>2, <3>3, <4>2 DEF Made, Work, FindLease, Stamp, Marshal, Write, Assign, Send,
                                  DeleteLease
        <5> QED BY <3>3, <5>1 DEF Compare, Goto, TypeOK
      <4> QED BY <3>3, <4>1, <4>2 DEF Made
    <3> QED BY <1>2, <3>1, <3>2, <3>3, WorkSpread
  <2> QED BY <2>3, <2>4 DEF WholeInv
<1>3. CASE WatchStep
  <2>1. UNCHANGED <<pc, match>> /\ Copies' \subseteq Copies \cup {NoLease}
    BY <1>3, WatchSpread, RestIs
  <2>2. \/ UNCHANGED heap
        \/ \E r \in Copies \cup {NoLease} : /\ \A o \in Objects : heap'[o] \in {heap[o], NoLease, r}
    BY <1>3, NewEntryIs, RecordsHold DEF WatchStep, memory, Replaced
  <2> QED BY <1>0, <2>1, <2>2 DEF WholeInv
<1>4. CASE Clock \/ UNCHANGED vars
  <2>1. UNCHANGED <<heap, match, pc>> /\ Copies' = Copies
    BY <1>4, RestSpread DEF Clock, vars, memory, handlerVars
  <2> QED BY <1>0, <2>1 DEF WholeInv, Whole
<1> QED BY <1>1, <1>2, <1>3, <1>4 DEF Next

\* A host name read in the middle of an assignment is stored only after a message
\* of the client came while another was handled, and the client used two names.
THEOREM NamesStayWhole == Spec => []NoTornName
<1>1. MemInv /\ ReachInv /\ WholeInv => NoTornName
  <2> SUFFICES ASSUME MemInv, ReachInv, WholeInv, store[Device] # NoLease,
                      store[Device].name = Torn
               PROVE  overlapped /\ Cardinality(names) > 1
    BY DEF NoTornName
  <2>1. overlapped
    BY RecordsHold DEF WholeInv, Whole
  <2>2. ~Steady
    BY RecordsHold, ConstantTypes DEF ReachInv, MemInv, TypeOK
  <2>3. Cardinality(names) \in Nat
    BY FS_CardinalityType DEF ReachInv
  <2> QED BY <2>1, <2>2, <2>3, OneName DEF ReachInv
<1>2. Init => Solo
  BY DEF Init, Solo
<1> QED BY <1>1, <1>2, MemInit, MemNext, ReachInit, ReachNext, SoloNext, WholeInit, WholeNext,
           PTL DEF Spec

(***************************************************************************)
(* The cache and the store.                                                *)
(***************************************************************************)

InFlight == pend # {} \/ chan # <<>>

\* The last event on its way is about what the watcher saw last.
LastEvent ==
  /\ \A e \in pend : e.val = lastData[Device]
  /\ (pend = {} /\ chan # <<>>) => chan[Len(chan)].val = lastData[Device]

\* What the only handler at work can rely on.
Calm(p) ==
  /\ pc[p] \in Working /\ match[p] # cache /\ ~InFlight => Entries = lastData
  /\ pc[p] = "write" => raw[p] = heap[match[p]]
  /\ pc[p] \in {"compare", "send"} => heap[match[p]] = store[Device]

\* The cache holds what the store does once the last tick saw it, or the record
\* that was deleted before a tick saw it.
Agree == lastData = store => Entries = store \/ (store[Device] = NoLease /\ orphaned)

CalmInv ==
  (~overlapped /\ ~failed) =>
    /\ \A p \in Procs : pc[p] # "idle" => Calm(p)
    /\ (\A p \in Procs : pc[p] \in {"idle", "find"}) /\ ~InFlight => Agree

\* The cache is empty only if the last tick saw no record, or an event is due.
NotLost == (cache = Nil /\ ~InFlight) => lastData[Device] = NoLease

LEMMA LastEventNext == MemInv /\ LastEvent /\ [Next]_vars => LastEvent'
<1> SUFFICES ASSUME MemInv, LastEvent, [Next]_vars PROVE LastEvent'
  OBVIOUS
<1> USE MemoryTypes DEF MemInv
<1>1. ASSUME NEW p \in Procs, Work(p) PROVE LastEvent'
  BY <1>1, WorkIs DEF LastEvent
<1>2. CASE \/ \E p \in Procs, m \in Message : Receive(p, m)
           \/ Clock \/ UNCHANGED vars
  BY <1>2 DEF Receive, Clock, vars, watchVars, LastEvent
<1>3. CASE NewEntry
  <2>1. CASE chan # <<>> /\ chan' = Tail(chan) /\ UNCHANGED <<lastData, phase>>
    <3>1. chan' # <<>> => chan'[Len(chan')] = chan[Len(chan)]
      BY <2>1
    <3>2. UNCHANGED pend
      BY <1>3, NewEntryIs
    <3> QED BY <2>1, <3>1, <3>2 DEF LastEvent
  <2>2. CASE phase = "down" /\ phase' = "watching" /\ chan' = chan
    <3>1. pend = {} /\ chan = <<>> /\ UNCHANGED pend
      BY <1>3, <2>2, NewEntryIs DEF Silent
    <3> QED BY <2>2, <3>1 DEF LastEvent
  <2> QED BY <1>3, <2>1, <2>2, NewEntryIs
<1>4. CASE Watch!Tick
  <2>1. \A e \in pend' : e.val = lastData'[Device]
    BY <1>4, TickIs
  <2>2. pend' = {} => lastData'[Device] = lastData[Device]
    BY <1>4, TickIs
  <2> QED BY <1>4, <2>1, <2>2, TickIs DEF LastEvent
<1>5. ASSUME NEW e \in pend, Watch!Send(e) PROVE LastEvent'
  <2>1. chan' = Append(chan, e) /\ pend' = pend \ {e} /\ UNCHANGED lastData
    BY <1>5 DEF Watch!Send
  <2>2. e.val = lastData[Device] /\ e \in Watch!Event
    BY DEF LastEvent
  <2>3. chan'[Len(chan')] = e
    BY <2>1, <2>2
  <2> QED BY <2>1, <2>2, <2>3 DEF LastEvent
<1> QED BY <1>1, <1>2, <1>3, <1>4, <1>5 DEF Next, WatchStep

\* A handler that writes to a record the cache does not hold.
LEMMA EntriesStay ==
  ASSUME MemInv, cache' = cache, cache # Nil => heap'[cache] = heap[cache]
  PROVE  Entries' = Entries
BY DEF Entries

\* The watcher's steps after which nothing is on its way.
LEMMA QuietWatch ==
  ASSUME MemInv, LastEvent, WatchStep, ~InFlight'
  PROVE  \/ ~InFlight /\ UNCHANGED <<lastData, heap, cache>>
         \/ InFlight /\ Entries' = lastData'
         \/ /\ phase = "down" /\ lastData' = Watch!Absent
            /\ Entries'[Device] \in {store[Device], NoLease}
<1> USE MemoryTypes DEF MemInv
<1>1. CASE NewEntry /\ phase = "down"
  BY <1>1, NewEntryIs DEF Silent, Replaced
<1>2. CASE NewEntry /\ phase # "down"
  <2>1. /\ chan # <<>> /\ chan' = Tail(chan) /\ UNCHANGED <<lastData, pend>>
        /\ Replaced(Head(chan).val)
    BY <1>2, NewEntryIs
  <2>2. pend = {} /\ Len(Tail(chan)) = 0
    BY <2>1 DEF InFlight
  <2>3. Len(Tail(chan)) = Len(chan) - 1 /\ Len(chan) \in Nat /\ Head(chan) = chan[1]
    BY <2>1
  <2>4. Len(chan) = 1 /\ Head(chan) = chan[Len(chan)]
    BY <2>2, <2>3, <2>1
  <2>5. chan[Len(chan)].val = lastData[Device]
    BY <2>1, <2>2 DEF LastEvent
  <2>6. Entries' = [k \in {Device} |-> lastData'[Device]]
    BY <2>1, <2>4, <2>5 DEF Replaced
  <2>7. lastData' = [k \in {Device} |-> lastData'[Device]]
    BY <2>1
  <2> QED BY <2>1, <2>6, <2>7 DEF InFlight
<1>3. CASE UNCHANGED <<memory, match>> /\ Watch!Tick
  <2>1. pend = {} /\ pend' = {} /\ chan' = chan
    BY <1>3, TickIs DEF InFlight
  <2>2. lastData'[Device] = lastData[Device]
    BY <1>3, <2>1, TickIs
  <2>3. lastData' = lastData
    BY <1>3, <2>2, TickIs
  <2> QED BY <1>3, <2>1, <2>3 DEF InFlight, memory
<1>4. ASSUME NEW e \in pend, Watch!Send(e) PROVE FALSE
  BY <1>4 DEF Watch!Send, InFlight
<1> QED BY <1>1, <1>2, <1>3, <1>4 DEF WatchStep

LEMMA NotLostNext == MemInv /\ LastEvent /\ NotLost /\ [Next]_vars => NotLost'
<1> SUFFICES ASSUME MemInv, LastEvent, NotLost, [Next]_vars PROVE NotLost'
  OBVIOUS
<1>1. ASSUME NEW p \in Procs, Work(p) PROVE NotLost'
  BY <1>1, WorkIs DEF NotLost, InFlight
<1>2. CASE WatchStep
  BY <1>2, QuietWatch DEF NotLost, Watch!Absent, Entries
<1>3. CASE \/ \E p \in Procs, m \in Message : Receive(p, m)
           \/ Clock \/ UNCHANGED vars
  BY <1>3 DEF Receive, Clock, vars, watchVars, memory, NotLost, InFlight
<1> QED BY <1>1, <1>2, <1>3 DEF Next

LEMMA CalmWork ==
  ASSUME MemInv, Solo, CalmInv, NotLost, NEW p \in Procs, Work(p), ~overlapped', ~failed'
  PROVE  CalmInv'
<1> USE MemoryTypes, RecordAt, ObjectTypes DEF MemInv
<1>1. /\ pc[p] # "idle" /\ ~overlapped /\ ~failed
      /\ \A q \in Procs \ {p} : pc[q] = "idle" /\ pc'[q] = "idle"
      /\ UNCHANGED <<lastData, pend, chan, phase, cache>> /\ InFlight' = InFlight
  BY WorkIs DEF Solo, InFlight
<1>2. Calm(p)
  BY <1>1 DEF CalmInv
<1>3. SUFFICES /\ pc'[p] # "idle" => pc'[p] # "find" /\ Calm(p)'
               /\ pc'[p] = "idle" /\ ~InFlight => Agree'
  BY <1>1 DEF CalmInv
<1>4. CASE FindLease(p)
  <2>1. UNCHANGED <<store, orphaned>> /\ pc[p] = "find" /\ (~InFlight => Agree)
    BY <1>1, <1>4 DEF CalmInv, FindLease, history, faults
  <2>2. CASE Return(p)
    BY <1>1, <2>1, <2>2, ReturnIs DEF TypeOK, Agree
  <2>3. CASE FindNone(p) /\ ~Return(p)
    <3>1. cache = Nil /\ pc'[p] = "stamp"
      BY <2>3 DEF FindNone, LeaseFor, Goto, TypeOK
    <3>2. Entries' = Entries
      BY <1>1, <3>1, EntriesStay
    <3>3. ~InFlight => Entries = lastData
      BY <3>1 DEF NotLost
    <3> QED BY <1>1, <3>1, <3>2, <3>3 DEF Calm
  <2>4. CASE FindCached(p) /\ ~Return(p)
    <3>1. match'[p] = cache /\ pc'[p] \in {"stamp", "delete"}
      BY <2>4 DEF FindCached, Goto, TypeOK
    <3> QED BY <1>1, <3>1 DEF Calm
  <2> QED BY <1>4, <2>2, <2>3, <2>4 DEF FindLease
<1>5. CASE Stamp(p) \/ Assign(p)
  <2>1. /\ pc[p] \in Working /\ UNCHANGED <<store, match>>
        /\ \A o \in Objects \ {match[p]} : heap'[o] = heap[o]
        /\ pc'[p] = "marshal" \/ pc'[p] = "stamp"
    BY <1>5 DEF Stamp, Assign, Goto, Working, TypeOK
  <2>2. match[p] # cache => Entries' = Entries
    BY <1>1, <2>1, EntriesStay
  <2> QED BY <1>1, <1>2, <2>1, <2>2 DEF Calm
<1>6. CASE Compare(p)
  <2>1. /\ pc[p] \in Working /\ pc[p] = "compare" /\ UNCHANGED <<store, match>>
        /\ \A o \in Objects \ {match[p]} : heap'[o] = heap[o]
        /\ pc'[p] = "assign" \/ (pc'[p] = "send" /\ heap' = heap)
    BY <1>6 DEF Compare, Goto, Working, TypeOK
  <2>2. match[p] # cache => Entries' = Entries
    BY <1>1, <2>1, EntriesStay
  <2> QED BY <1>1, <1>2, <2>1, <2>2 DEF Calm
<1>7. CASE Marshal(p)
  <2>1. /\ pc[p] \in Working /\ UNCHANGED <<store, heap, match>>
        /\ pc'[p] = "write" /\ raw'[p] = heap[match[p]]
    BY <1>7 DEF Marshal, Goto, Working, TypeOK, memory
  <2>2. Entries' = Entries
    BY <1>1, <2>1, EntriesStay
  <2> QED BY <1>1, <1>2, <2>1, <2>2 DEF Calm
<1>8. CASE Write(p)
  <2>1. pc[p] = "write" /\ pc[p] \in Working /\ store' = [store EXCEPT ![Device] = raw[p]]
    BY <1>1, <1>8 DEF Write, Watch!Put, Working
  <2>2. raw[p] = heap[match[p]] /\ store'[Device] = heap[match[p]]
    BY <1>2, <2>1 DEF Calm
  <2>3. CASE Return(p)
    <3>1. Entries' = Entries /\ pc'[p] = "idle"
      BY <2>3, ReturnIs DEF TypeOK
    <3>2. match[p] = cache => Entries = store'
      BY <2>1, <2>2
    <3> QED BY <1>1, <1>2, <2>1, <3>1, <3>2 DEF Calm, Agree
  <2>4. CASE ~Return(p)
    <3>1. UNCHANGED <<heap, match>> /\ pc'[p] \in {"send", "compare"}
      BY <1>8, <2>4 DEF Write, Goto, TypeOK, memory
    <3>2. Entries' = Entries
      BY <1>1, <3>1, EntriesStay
    <3> QED BY <1>1, <1>2, <2>1, <2>2, <3>1, <3>2 DEF Calm
  <2> QED BY <2>3, <2>4
<1>9. CASE Send(p)
  <2>1. pc[p] = "send" /\ pc[p] \in Working /\ Return(p) /\ UNCHANGED store
    BY <1>9 DEF Send, Working
  <2>2. Entries' = Entries /\ pc'[p] = "idle"
    BY <2>1, ReturnIs DEF TypeOK
  <2>3. match[p] = cache => Entries = store
    BY <1>2, <2>1 DEF Calm
  <2> QED BY <1>1, <1>2, <2>1, <2>2, <2>3 DEF Calm, Agree
<1>10. CASE DeleteLease(p)
  <2>1. /\ Return(p) /\ store' = [store EXCEPT ![Device] = NoLease]
        /\ orphaned' = (lastData[Device] = NoLease)
    BY <1>1, <1>10 DEF DeleteLease, Watch!Delete
  <2>2. pc'[p] = "idle"
    BY <2>1, ReturnIs DEF TypeOK
  <2> QED BY <1>1, <2>1, <2>2 DEF Agree
<1> QED BY <1>4, <1>5, <1>6, <1>7, <1>8, <1>9, <1>10 DEF Work

LEMMA CalmWatch ==
  ASSUME MemInv, LastEvent, CalmInv, WatchStep, ~overlapped', ~failed'
  PROVE  CalmInv'
<1> USE MemoryTypes DEF MemInv
<1>1. /\ UNCHANGED <<store, pc, raw, orphaned, match>> /\ ~overlapped /\ ~failed
      /\ \A p \in Procs : pc[p] \in Working => heap'[match[p]] = heap[match[p]]
  BY RestIs
<1>2. ASSUME ~InFlight'
      PROVE  /\ (\A p \in Procs : pc[p] \in {"idle", "find"}) => Agree'
             /\ \A p \in Procs : pc[p] \in Working /\ match[p] # cache' => Entries' = lastData'
  <2>1. CASE ~InFlight /\ UNCHANGED <<lastData, heap, cache>>
    <3>1. Entries' = Entries
      BY <2>1 DEF Entries
    <3> QED BY <1>1, <2>1, <3>1 DEF CalmInv, Calm, Agree, Working
  <2>2. CASE Entries' = lastData'
    BY <1>1, <2>2 DEF Agree
  <2>3. CASE /\ phase = "down" /\ lastData' = Watch!Absent
             /\ Entries'[Device] \in {store[Device], NoLease}
    <3>1. \A p \in Procs : pc[p] \notin Working
      BY <2>3 DEF Silent, Working
    <3>2. store' = lastData' => Entries'[Device] = store'[Device]
      BY <1>1, <2>3 DEF Watch!Absent
    <3>3. store' = lastData' => Entries' = store'
      BY <1>1, <3>2 DEF Entries
    <3> QED BY <3>1, <3>3 DEF Agree
  <2> QED BY <1>2, <2>1, <2>2, <2>3, QuietWatch
<1> QED BY <1>1, <1>2 DEF CalmInv, Calm, Working

LEMMA CalmNext ==
  MemInv /\ Solo /\ LastEvent /\ NotLost /\ CalmInv /\ [Next]_vars => CalmInv'
<1> SUFFICES ASSUME MemInv, Solo, LastEvent, NotLost, CalmInv, [Next]_vars, ~overlapped', ~failed'
             PROVE  CalmInv'
  BY DEF CalmInv
<1>1. ASSUME NEW p \in Procs, NEW m \in Message, Receive(p, m) PROVE CalmInv'
  <2>1. /\ pc' = [pc EXCEPT ![p] = "find"] /\ ~overlapped /\ ~failed
        /\ UNCHANGED <<store, lastData, pend, chan, heap, cache, orphaned>>
        /\ \A q \in Procs : pc[q] = "idle"
    BY <1>1, ReceiveIs DEF MemInv
  <2>2. Entries' = Entries /\ InFlight' = InFlight
    BY <2>1, EntriesStay DEF InFlight
  <2>3. \A q \in Procs : pc'[q] \in {"idle", "find"}
    BY <2>1 DEF MemInv, TypeOK
  <2>4. \A q \in Procs : Calm(q)'
    BY <2>3 DEF Calm, Working
  <2> QED BY <2>1, <2>2, <2>4 DEF CalmInv, Agree
<1>2. ASSUME NEW p \in Procs, Work(p) PROVE CalmInv'
  BY <1>2, CalmWork
<1>3. CASE WatchStep
  BY <1>3, CalmWatch
<1>4. CASE Clock \/ UNCHANGED vars
  <2>1. UNCHANGED <<store, lastData, pend, chan, heap, cache, pc, match, raw, overlapped, failed,
                    orphaned>>
    BY <1>4 DEF Clock, vars, memory, handlerVars, watchVars, history, faults
  <2>2. Entries' = Entries /\ InFlight' = InFlight
    BY <2>1, EntriesStay DEF InFlight
  <2> QED BY <2>1, <2>2 DEF CalmInv, Calm, Agree
<1> QED BY <1>1, <1>2, <1>3, <1>4 DEF Next

LEMMA CalmInit == Init => Solo /\ LastEvent /\ NotLost /\ CalmInv
<1> SUFFICES ASSUME Init PROVE Solo /\ LastEvent /\ NotLost /\ CalmInv
  OBVIOUS
<1>1. /\ cache = Nil /\ pend = {} /\ chan = <<>> /\ lastData = Watch!Absent
      /\ \A p \in Procs : pc[p] = "idle"
  BY DEF Init, Watch!WatcherDown
<1>2. Entries = lastData
  BY <1>1 DEF Entries, Watch!Absent
<1> QED BY <1>1, <1>2 DEF Solo, LastEvent, NotLost, CalmInv, Agree, Watch!Absent

\* Whenever all is quiet the cache holds what the store does, though handlers
\* change the cache first, older events replace what they changed and scans may
\* skip the record, unless messages overlapped, a write failed, or the record was
\* deleted before a tick saw it.
THEOREM CacheSettles == Spec => []CacheAgrees
<1>1. CalmInv => CacheAgrees
  BY DEF CalmInv, CacheAgrees, Settled, InFlight, Agree
<1> QED BY <1>1, CalmInit, MemInit, MemNext, SoloNext, LastEventNext, NotLostNext, CalmNext,
           PTL DEF Spec

(***************************************************************************)
(* The client's lease and the record's.                                    *)
(***************************************************************************)

\* As long as no message was hasty and reads and writes succeed, a message finds
\* the cache, the store and the last tick in agreement.
ReadyInv ==
  (~hasty /\ ~failed) =>
    /\ ~overlapped /\ ~orphaned
    /\ \A p \in Procs : pc[p] \in {"find", "delete"} =>
         /\ ~InFlight /\ Entries = store /\ lastData = store
         /\ pc[p] = "delete" => cache # Nil

LEMMA ReadyNext ==
  ASSUME ~ReadFaults
  PROVE  MemInv /\ Solo /\ CalmInv /\ ReadyInv /\ [Next]_vars => ReadyInv'
<1> SUFFICES ASSUME MemInv, Solo, CalmInv, ReadyInv, [Next]_vars, ~hasty', ~failed'
             PROVE  ReadyInv'
  BY DEF ReadyInv
<1> USE MemoryTypes DEF MemInv
<1>1. ASSUME NEW p \in Procs, NEW m \in Message, Receive(p, m) PROVE ReadyInv'
  <2>1. /\ Settled /\ ~hasty /\ ~failed /\ pc' = [pc EXCEPT ![p] = "find"]
        /\ UNCHANGED <<store, lastData, pend, chan, heap, cache, orphaned>>
    BY <1>1, ReceiveIs
  <2>2. overlapped' = overlapped
    BY <1>1, <2>1 DEF Receive, Settled, TypeOK
  <2>3. ~InFlight /\ lastData = store /\ Entries = store
    BY <2>1 DEF Settled, InFlight, CalmInv, ReadyInv, Agree
  <2>4. ~InFlight' /\ lastData' = store' /\ Entries' = store'
    BY <2>1, <2>3, EntriesStay DEF InFlight
  <2>5. \A q \in Procs : pc'[q] # "delete"
    BY <2>1 DEF Settled, TypeOK
  <2> QED BY <2>1, <2>2, <2>4, <2>5 DEF ReadyInv
<1>2. ASSUME NEW p \in Procs, Work(p) PROVE ReadyInv'
  <2>1. /\ ~hasty /\ ~failed /\ ~overlapped /\ ~orphaned
        /\ UNCHANGED <<cache, lastData, overlapped>>
        /\ \A q \in Procs \ {p} : pc[q] = "idle" /\ pc'[q] = "idle"
        /\ InFlight' = InFlight
    BY <1>2, WorkIs DEF ReadyInv, Solo, InFlight
  <2>2. CASE FindLease(p)
    <3>1. /\ pc[p] = "find" /\ UNCHANGED <<store, orphaned>>
          /\ ~InFlight /\ Entries = store /\ lastData = store
      BY <2>1, <2>2 DEF FindLease, ReadyInv, history, faults
    <3>2. pc'[p] \in {"idle", "stamp"} \/ (pc'[p] = "delete" /\ cache # Nil /\ heap' = heap)
      BY <2>2, ReturnIs DEF FindLease, FindNone, LeaseFor, FindCached, Goto, TypeOK, memory
    <3>3. heap' = heap => Entries' = Entries
      BY <2>1, EntriesStay
    <3> QED BY <2>1, <3>1, <3>2, <3>3 DEF ReadyInv
  <2>3. CASE ~FindLease(p)
    <3>1. pc'[p] \notin {"find", "delete"}
      BY <1>2, <2>3, ReturnIs DEF Work, Stamp, Marshal, Write, Compare, Assign, Send, DeleteLease,
                                 Goto, TypeOK
    <3>2. ~orphaned'
      <4>1. CASE DeleteLease(p)
        <5>1. cache # Nil /\ Entries = lastData
          BY <2>1, <4>1 DEF DeleteLease, ReadyInv
        <5>2. lastData[Device] # NoLease
          BY <5>1 DEF Entries, Pointed
        <5> QED BY <4>1, <5>2 DEF DeleteLease
      <4>2. CASE ~DeleteLease(p)
        BY <1>2, <2>1, <2>3, <4>2 DEF Work, Stamp, Marshal, Write, Compare, Assign, Send, history,
                                      faults
      <4> QED BY <4>1, <4>2
    <3> QED BY <2>1, <3>1, <3>2 DEF ReadyInv
  <2> QED BY <2>2, <2>3
<1>3. CASE WatchStep
  <2>1. /\ UNCHANGED <<store, pc, overlapped, orphaned>> /\ ~hasty /\ ~failed
    BY <1>3, RestIs
  <2>2. ASSUME NEW p \in Procs, pc[p] \in {"find", "delete"}
        PROVE  UNCHANGED <<lastData, pend, chan, heap, cache>>
    <3>1. phase # "down" /\ pend = {} /\ chan = <<>> /\ lastData = store
      BY <2>1, <2>2, RecordAt DEF ReadyInv, InFlight
    <3>2. ~NewEntry /\ \A e \in pend : ~Watch!Send(e)
      BY <3>1, NewEntryIs
    <3>3. Watch!Tick /\ UNCHANGED <<heap, cache>>
      BY <1>3, <3>2 DEF WatchStep, memory
    <3>4. lastData' = store /\ pend' = {} /\ chan' = chan
      BY <3>1, <3>3, TickIs
    <3> QED BY <3>1, <3>3, <3>4
  <2>3. ASSUME NEW p \in Procs, pc[p] \in {"find", "delete"}
        PROVE  UNCHANGED <<lastData, cache>> /\ Entries' = Entries /\ InFlight' = InFlight
    BY <2>2, <2>3, EntriesStay DEF InFlight
  <2> QED BY <2>1, <2>3 DEF ReadyInv
<1>4. CASE Clock \/ UNCHANGED vars
  <2>1. UNCHANGED <<store, lastData, pend, chan, heap, cache, pc, overlapped, orphaned,
                    hasty, failed>>
    BY <1>4 DEF Clock, vars, memory, handlerVars, watchVars, history, faults
  <2>2. Entries' = Entries /\ InFlight' = InFlight
    BY <2>1, EntriesStay DEF InFlight
  <2> QED BY <2>1, <2>2 DEF ReadyInv
<1> QED BY <1>1, <1>2, <1>3, <1>4 DEF Next

\* The record r lasts until the client's lease ends, or grants more than the
\* scope's time.
Kept(r) == r.expiry = -1 \/ r.expiry >= until \/ Granted(r) > TTL

LeaseKept ==
  until > 0 =>
    /\ store[Device] # NoLease /\ Kept(store[Device])
    /\ until <= now + TTL \/ Granted(store[Device]) > TTL

\* What a handler does while the client has a lease keeps it.
KeptBy(p) ==
  until > 0 =>
    /\ msg[p].type \in {"discover", "request"}
    /\ pc[p] \in Working => /\ heap[match[p]].time = store[Device].time
                            /\ Kept(heap[match[p]])
    /\ (pc[p] = "stamp" /\ ~again[p]) => dur[p] = TTL

\* A record that will be acknowledged lasts for the scope's time from when the
\* client asked, once it is stamped.
Timely(p) ==
  /\ msg[p].at <= now
  /\ (pc[p] = "stamp" /\ again[p]) => dur[p] = heap[match[p]].expiry
  /\ msg[p].type = "request" =>
       /\ (pc[p] = "stamp" /\ ~again[p]) => dur[p] = TTL
       /\ (pc[p] \in {"marshal", "write", "compare", "assign", "send"} \/ again[p])
            => heap[match[p]].expiry = -1 \/ heap[match[p]].expiry >= msg[p].at + TTL

OutliveInv ==
  (~hasty /\ ~failed) => LeaseKept /\ \A p \in Procs : pc[p] # "idle" => KeptBy(p) /\ Timely(p)

\* Granted looks at the lease time alone.
LEMMA GrantedIs ==
  ASSUME NEW r \in Record
  PROVE  /\ Granted(r) \in Nat
         /\ \A x \in Record : x.time = r.time => Granted(x) = Granted(r)
BY RecordFields, ConstantTypes DEF Granted

LEMMA OutliveReceive ==
  ASSUME MemInv, OutliveInv, NEW p \in Procs, NEW m \in Message, Receive(p, m), ~hasty', ~failed'
  PROVE  OutliveInv'
<1>1. /\ ~hasty /\ ~failed /\ pc' = [pc EXCEPT ![p] = "find"] /\ msg' = [msg EXCEPT ![p] = m]
      /\ UNCHANGED <<store, heap, now, match, again, dur>>
      /\ \A q \in Procs : pc[q] = "idle"
  BY ReceiveIs DEF MemInv, Settled
<1>2. /\ m.at = now /\ now \in Nat /\ m.type \in Types
      /\ until' = IF m.type \in {"decline", "release"} THEN 0 ELSE until
  BY MessageFields, ConstantTypes DEF Receive, MemInv, TypeOK
<1>3. LeaseKept'
  BY <1>1, <1>2 DEF OutliveInv, LeaseKept, Kept
<1>4. pc'[p] = "find" /\ msg'[p] = m /\ ~again'[p] /\ \A q \in Procs \ {p} : pc'[q] = "idle"
  BY <1>1 DEF MemInv, TypeOK, Placed
<1>5. KeptBy(p)'
  BY <1>2, <1>4 DEF KeptBy, Types, Working
<1>6. Timely(p)'
  BY <1>1, <1>2, <1>4 DEF Timely
<1> QED BY <1>3, <1>4, <1>5, <1>6 DEF OutliveInv

LEMMA OutliveWork ==
  ASSUME MemInv, Solo, CalmInv, ReadyInv, OutliveInv, NEW p \in Procs, Work(p), ~hasty', ~failed'
  PROVE  OutliveInv'
<1> USE MemoryTypes, RecordAt, ObjectTypes, ConstantTypes DEF MemInv
<1>1. /\ pc[p] # "idle" /\ ~hasty /\ ~failed /\ \A q \in Procs \ {p} : pc'[q] = "idle"
      /\ UNCHANGED now /\ Calm(p) /\ LeaseKept /\ KeptBy(p) /\ Timely(p)
      /\ pc[p] = "find" => Entries = store
  BY WorkIs DEF Solo, CalmInv, ReadyInv, OutliveInv
<1>2. SUFFICES LeaseKept' /\ (pc'[p] # "idle" => KeptBy(p)' /\ Timely(p)')
  BY <1>1 DEF OutliveInv
<1>3. now \in Nat /\ until \in Nat /\ dur[p] \in Int /\ msg[p].at \in Nat
  BY MessageFields DEF TypeOK
<1>4. UNCHANGED <<store, until>> => LeaseKept'
  BY <1>1 DEF LeaseKept, Kept
<1>5. CASE FindLease(p)
  <2>1. UNCHANGED <<store, until>> /\ pc[p] = "find" /\ Entries = store /\ ~again[p]
    BY <1>1, <1>5 DEF FindLease, history, faults, Placed
  <2>2. CASE Return(p)
    BY <1>4, <2>1, <2>2, ReturnIs DEF TypeOK
  <2>3. CASE FindNone(p) /\ ~Return(p)
    <3>1. /\ pc'[p] = "stamp" /\ UNCHANGED <<msg, again>>
          /\ msg[p].type = "request" => dur'[p] = TTL
      BY <2>3 DEF FindNone, LeaseFor, Goto, TypeOK
    <3>2. store[Device] = NoLease
      BY <2>1, <2>3 DEF FindNone
    <3>3. until = 0
      BY <1>1, <1>3, <3>2 DEF LeaseKept
    <3> QED BY <1>1, <1>4, <2>1, <3>1, <3>3 DEF KeptBy, Timely
  <2>4. CASE FindCached(p) /\ ~Return(p)
    <3>1. /\ pc'[p] \in {"stamp", "delete"} /\ UNCHANGED <<msg, again, heap>>
          /\ match'[p] = cache /\ dur'[p] = TTL /\ cache # Nil
      BY <2>4 DEF FindCached, Goto, TypeOK, memory
    <3>2. heap[cache] = store[Device]
      BY <2>1, <3>1
    <3> QED BY <1>1, <1>4, <2>1, <3>1, <3>2 DEF KeptBy, Timely, LeaseKept, Kept
  <2> QED BY <1>5, <2>2, <2>3, <2>4 DEF FindLease
<1>6. CASE Stamp(p)
  <2> DEFINE r == heap[match[p]]
             s == heap'[match'[p]]
  <2>1. /\ pc[p] = "stamp" /\ pc'[p] = "marshal" /\ UNCHANGED <<store, until, msg, again>>
        /\ pc[p] \in Working
    BY <1>6 DEF Stamp, Goto, history, faults, TypeOK, Working
  <2>2. r \in Record /\ r.expiry \in Int
    BY <2>1, RecordFields
  <2>3. /\ s \in Record /\ s.time = r.time
        /\ s.expiry = IF dur[p] > 0 /\ r.expiry # -1 THEN now + dur[p] ELSE r.expiry
    <3>1. CASE dur[p] > 0 /\ r.expiry # -1
      <4> DEFINE x == now + dur[p]
      <4>1. x \in Int /\ s = [r EXCEPT !.expiry = x]
        <5>1. x \in Int
          BY <1>3
        <5>2. heap' = [heap EXCEPT ![match[p]] = [r EXCEPT !.expiry = x]] /\ match' = match
          BY <1>6, <3>1 DEF Stamp
        <5> HIDE DEF r, x
        <5> QED BY <2>1, <5>1, <5>2
      <4> HIDE DEF x
      <4>2. s \in Record /\ s.time = r.time /\ s.expiry = x
        BY <2>2, <4>1 DEF Record
      <4> QED BY <3>1, <4>2 DEF x
    <3>2. CASE ~(dur[p] > 0 /\ r.expiry # -1)
      BY <1>6, <2>2, <3>2 DEF Stamp
    <3> QED BY <3>1, <3>2
  <2>4. Granted(s) = Granted(r) /\ Granted(r) \in Nat
    BY <2>2, <2>3, GrantedIs
  <2>5. ~again[p] => (msg[p].type = "request" \/ until > 0 => dur[p] = TTL)
    BY <1>1, <2>1 DEF KeptBy, Timely
  <2>6. again[p] => dur[p] = r.expiry
    BY <1>1, <2>1 DEF Timely
  <2>7. KeptBy(p)'
    <3> SUFFICES ASSUME until > 0
                 PROVE  /\ s.time = store[Device].time
                        /\ s.expiry = -1 \/ s.expiry >= until \/ Granted(s) > TTL
      BY <1>1, <2>1 DEF KeptBy, Kept
    <3>1. /\ r.time = store[Device].time
          /\ r.expiry = -1 \/ r.expiry >= until \/ Granted(r) > TTL
      BY <1>1, <2>1 DEF KeptBy, Kept
    <3>2. store[Device] \in Record /\ (until <= now + TTL \/ Granted(store[Device]) > TTL)
      BY <1>1 DEF LeaseKept
    <3>3. Granted(store[Device]) = Granted(r)
      BY <2>2, <3>1, <3>2, GrantedIs
    <3> HIDE DEF r, s
    <3>4. s.expiry = -1 \/ s.expiry >= until \/ Granted(s) > TTL
      BY <1>3, <2>2, <2>3, <2>4, <2>5, <2>6, <3>1, <3>2, <3>3
    <3> QED BY <2>3, <3>1, <3>4
  <2>8. Timely(p)'
    <3>1. msg[p].type = "request" => s.expiry = -1 \/ s.expiry >= msg[p].at + TTL
      <4>1. again[p] /\ msg[p].type = "request" => r.expiry = -1 \/ r.expiry >= msg[p].at + TTL
        BY <1>1 DEF Timely
      <4>2. msg[p].at <= now
        BY <1>1 DEF Timely
      <4> HIDE DEF r, s
      <4> SUFFICES ASSUME msg[p].type = "request"
                   PROVE  s.expiry = -1 \/ s.expiry >= msg[p].at + TTL
        OBVIOUS
      <4>3. CASE again[p]
        BY SMTT(30), <1>3, <2>2, <2>3, <2>6, <4>1, <4>3
      <4>4. CASE ~again[p]
        <5>1. dur[p] = TTL
          BY <2>5, <4>4
        <5> QED BY ONLY <1>3, <2>2, <2>3, <4>2, <5>1, ConstantTypes
      <4> QED BY <4>3, <4>4
    <3> QED BY <1>1, <2>1, <3>1 DEF Timely
  <2> QED BY <1>4, <2>1, <2>7, <2>8
<1>7. CASE Marshal(p)
  <2>1. /\ pc[p] = "marshal" /\ pc'[p] = "write" /\ pc[p] \in Working
        /\ UNCHANGED <<store, until, msg, again, heap, match>>
    BY <1>7 DEF Marshal, Goto, memory, history, faults, TypeOK, Working
  <2> QED BY <1>1, <1>4, <2>1 DEF KeptBy, Timely, Kept
<1>8. CASE Write(p)
  <2>1. /\ pc[p] = "write" /\ pc[p] \in Working /\ UNCHANGED until
        /\ store'[Device] = heap[match[p]]
    BY <1>1, <1>8 DEF Write, Watch!Put, Calm, Working
  <2>2. LeaseKept'
    <3> SUFFICES ASSUME until > 0
                 PROVE  /\ heap[match[p]] # NoLease /\ Kept(heap[match[p]])
                        /\ until <= now + TTL \/ Granted(heap[match[p]]) > TTL
      BY <1>1, <2>1 DEF LeaseKept, Kept
    <3>1. /\ heap[match[p]] \in Record /\ Kept(heap[match[p]])
          /\ heap[match[p]].time = store[Device].time
      BY <1>1, <2>1 DEF KeptBy
    <3>2. store[Device] \in Record /\ (until <= now + TTL \/ Granted(store[Device]) > TTL)
      BY <1>1 DEF LeaseKept
    <3>3. Granted(heap[match[p]]) = Granted(store[Device])
      BY <3>1, <3>2, GrantedIs
    <3> QED BY <3>1, <3>2, <3>3
  <2>3. CASE Return(p)
    BY <2>2, <2>3, ReturnIs DEF TypeOK
  <2>4. CASE ~Return(p)
    <3>1. pc'[p] \in {"send", "compare"} /\ UNCHANGED <<heap, match, msg, again, dur>>
      BY <1>8, <2>4 DEF Write, Goto, TypeOK, memory
    <3> QED BY <1>1, <2>1, <2>2, <3>1 DEF KeptBy, Timely, Kept
  <2> QED BY <2>3, <2>4
<1>9. CASE Compare(p) \/ Assign(p)
  <2> DEFINE r == heap[match[p]]
             s == heap'[match'[p]]
  <2>1. /\ pc[p] \in {"compare", "assign"} /\ pc[p] \in Working
        /\ UNCHANGED <<store, until, msg>>
        /\ \/ pc'[p] \in {"assign", "send"} /\ UNCHANGED again
           \/ pc'[p] = "stamp" /\ again'[p] /\ dur'[p] = r.expiry
    BY <1>9 DEF Compare, Assign, Goto, history, faults, TypeOK, Working
  <2>2. r \in Record
    BY <2>1
  <2>3. s.time = r.time /\ s.expiry = r.expiry /\ s \in Record
    <3>1. \E n \in Names \cup {Torn} : s \in {r, [r EXCEPT !.name = n]}
      BY <1>9, <2>1, <2>2, MessageFields DEF Compare, Assign
    <3>2. \A n \in Names \cup {Torn} :
            /\ [r EXCEPT !.name = n] \in Record
            /\ [r EXCEPT !.name = n].time = r.time /\ [r EXCEPT !.name = n].expiry = r.expiry
      BY <2>2 DEF Record
    <3> QED BY <2>2, <3>1, <3>2
  <2>4. Granted(s) = Granted(r)
    BY <2>2, <2>3, GrantedIs
  <2>5. KeptBy(p)'
    BY <1>1, <2>1, <2>3, <2>4 DEF KeptBy, Kept
  <2>6. Timely(p)'
    BY <1>1, <2>1, <2>3 DEF Timely
  <2> QED BY <1>4, <2>1, <2>5, <2>6
<1>10. CASE Send(p)
  <2> DEFINE r == heap[match[p]]
  <2>1. /\ pc[p] = "send" /\ pc[p] \in Working /\ UNCHANGED store /\ pc'[p] = "idle"
        /\ until' = IF msg[p].type = "request" THEN msg[p].at + Granted(r) ELSE until
    BY <1>10, ReturnIs DEF Send, TypeOK, Working
  <2>2. CASE msg[p].type # "request"
    BY <1>4, <2>1, <2>2
  <2>3. CASE msg[p].type = "request"
    <3>1. r \in Record /\ r = store[Device] /\ r.expiry \in Int /\ Granted(r) \in Nat
      BY <1>1, <2>1, RecordFields, GrantedIs DEF Calm
    <3>2. msg[p].at <= now /\ (r.expiry = -1 \/ r.expiry >= msg[p].at + TTL)
      BY <1>1, <2>1, <2>3 DEF Timely
    <3>3. r = store'[Device] /\ until' = msg[p].at + Granted(r) /\ r # NoLease
      BY <2>1, <2>3, <3>1
    <3> HIDE DEF r
    <3>4. /\ until' <= now + TTL \/ Granted(r) > TTL
          /\ r.expiry = -1 \/ r.expiry >= until' \/ Granted(r) > TTL
      BY ONLY <1>3, <3>1, <3>2, <3>3, ConstantTypes
    <3>5. LeaseKept'
      BY <1>1, <3>3, <3>4 DEF LeaseKept, Kept
    <3> QED BY <2>1, <3>5
  <2> QED BY <2>2, <2>3
<1>11. CASE DeleteLease(p)
  <2>1. pc[p] = "delete" /\ pc[p] \in Working /\ Return(p) /\ UNCHANGED until
    BY <1>11 DEF DeleteLease, Working
  <2>2. until = 0
    BY <1>1, <1>3, <2>1 DEF Placed, KeptBy
  <2>3. pc'[p] = "idle"
    BY <2>1, ReturnIs DEF TypeOK
  <2> QED BY <2>1, <2>2, <2>3 DEF LeaseKept
<1> QED BY <1>5, <1>6, <1>7, <1>8, <1>9, <1>10, <1>11 DEF Work

LEMMA OutliveNext ==
  MemInv /\ Solo /\ CalmInv /\ ReadyInv /\ OutliveInv /\ [Next]_vars => OutliveInv'
<1> SUFFICES ASSUME MemInv, Solo, CalmInv, ReadyInv, OutliveInv, [Next]_vars, ~hasty', ~failed'
             PROVE  OutliveInv'
  BY DEF OutliveInv
<1> USE MemoryTypes, RecordAt, ConstantTypes DEF MemInv
<1>1. ASSUME NEW p \in Procs, NEW m \in Message, Receive(p, m) PROVE OutliveInv'
  BY <1>1, OutliveReceive
<1>2. ASSUME NEW p \in Procs, Work(p) PROVE OutliveInv'
  BY <1>2, OutliveWork
<1>3. CASE WatchStep
  <2>1. /\ UNCHANGED <<store, now, until, hasty, failed, pc, msg, again, dur, match>>
        /\ \A p \in Procs : pc[p] \in Working => heap'[match[p]] = heap[match[p]]
    BY <1>3, RestIs DEF WatchStep
  <2>2. ASSUME NEW p \in Procs, pc[p] # "idle", KeptBy(p), Timely(p) PROVE (KeptBy(p) /\ Timely(p))'
    BY <2>1, <2>2 DEF KeptBy, Timely, Kept, Placed, Working
  <2> QED BY <2>1, <2>2 DEF OutliveInv, LeaseKept, Kept
<1>4. CASE Clock \/ UNCHANGED vars
  <2>1. /\ UNCHANGED <<store, heap, until, hasty, failed, pc, msg, again, dur, match>>
        /\ now \in Nat /\ now' \in Nat /\ now' >= now
    BY <1>4 DEF Clock, vars, memory, handlerVars, history, faults, TypeOK
  <2>2. until \in Nat /\ \A p \in Procs : msg[p].at \in Nat
    BY MessageFields DEF TypeOK
  <2>3. LeaseKept => LeaseKept'
    BY <2>1, <2>2 DEF LeaseKept, Kept
  <2>4. ASSUME NEW p \in Procs, KeptBy(p), Timely(p) PROVE (KeptBy(p) /\ Timely(p))'
    BY <2>1, <2>2, <2>4 DEF KeptBy, Timely, Kept
  <2> QED BY <2>1, <2>3, <2>4 DEF OutliveInv
<1> QED BY <1>1, <1>2, <1>3, <1>4 DEF Next

\* The server keeps an acknowledged lease at least as long as the client does,
\* for a client whose messages find the server settled, reads and writes that
\* succeed, and no lease time of the client's own beyond the scope's.
THEOREM RecordsOutliveClients == ASSUME ~ReadFaults PROVE Spec => []RecordOutlivesClient
<1>1. Init => ReadyInv /\ OutliveInv
  BY DEF Init, ReadyInv, OutliveInv, LeaseKept
<1>2. MemInv /\ OutliveInv => RecordOutlivesClient
  BY DEF OutliveInv, LeaseKept, Kept, RecordOutlivesClient
<1> QED BY <1>1, <1>2, CalmInit, MemInit, MemNext, SoloNext, LastEventNext, NotLostNext, CalmNext,
           ReadyNext, OutliveNext, PTL DEF Spec

=============================================================================
