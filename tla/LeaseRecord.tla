----------------------------- MODULE LeaseRecord -----------------------------
(***************************************************************************)
(* The record of one client's lease: its host name, its lease time and its *)
(* expiry, which the handlers of the client's messages write while the     *)
(* clock runs.  FindLease returns a pointer to the record the cache holds, *)
(* so handlers change the cache, and each other's record, before they      *)
(* store anything.  The address is in DhcpServer.                          *)
(***************************************************************************)
EXTENDS Integers, Sequences, FiniteSets

CONSTANTS
  Procs,       \* goroutines started by Serve
  Names,       \* host names, the empty one among them
  NoName,      \* the empty host name
  Torn,        \* what a read of a host name may find while it is assigned
  Times,       \* AddressLeaseTime in seconds; 0: none, or not a duration
  MaxLease,    \* the largest lease time createReply accepts (MaxInt32)
  TTL,         \* Scope.TTL in seconds
  Negotiate,   \* dhcp.lease_negotiate_timeout, 0 when it is not set
  Epoch,       \* the time when the server starts
  Horizon,     \* bound on the time
  MaxMessages, \* bound on the number of messages
  NoLease,     \* the absence of a record
  ChanCap,     \* capacity of the watcher's channel
  PutFaults,   \* whether a write to the store may fail
  ReadFaults   \* whether copying a value out of the store may fail

Types == {"discover", "request", "decline", "release"}

Message ==
  {m \in [type : Types, name : Names, at : Epoch..Horizon] :
     m.type \in {"decline", "release"} => m.name = NoName}

Record == [name : Names \cup {Torn}, time : Times, expiry : Int]

\* Places in memory for the records that the cache and the handlers point to.
Objects == 1..Cardinality(Procs) + 2
Nil == 0

ASSUME RecordAssumption ==
  /\ IsFiniteSet(Procs)
  /\ NoName \in Names /\ Torn \notin Names
  /\ Times \subseteq Int /\ 0 \in Times
  /\ {TTL, MaxLease} \subseteq Nat \ {0} /\ Negotiate \in 0..TTL
  /\ Epoch \in Nat \ {0} /\ Horizon \in Nat /\ Epoch <= Horizon
  /\ MaxMessages \in Nat
  /\ NoLease \notin Record
  /\ {PutFaults, ReadFaults} \subseteq BOOLEAN

VARIABLES
  store, lastData, pend, chan, phase,   \* see StoreWatcher
  heap,        \* the records in memory
  cache,       \* the one Watcher.entries points to, or Nil
  now,         \* time.Now().Unix()
  pc,          \* where each handler is
  msg,         \* the message it handles
  match,       \* the record it points to
  again,       \* whether createReply is storing it once more
  dur,         \* the duration it stores the record for
  raw,         \* the record as it marshalled it
  until,       \* when the client's lease ends, from its last ACK; 0: it has none
  received,    \* number of messages so far
  names,       \* the names in the first record and in the messages so far
  hasty,       \* a message came before the server settled
  overlapped,  \* a message came while another one was handled
  failed,      \* a write failed
  orphaned     \* the record was deleted before a tick saw it

memory == <<heap, cache>>
watchVars == <<lastData, pend, chan, phase>>
handlerVars == <<pc, msg, match, again, dur, raw>>
faults == <<failed, orphaned>>
history == <<until, received, names, hasty, overlapped, faults>>
vars == <<store, watchVars, memory, now, handlerVars, history>>

\* The cache as the watcher sees it; one client, so one key.
Device == "device"
Entries == [k \in {Device} |-> IF cache = Nil THEN NoLease ELSE heap[cache]]

Watch == INSTANCE StoreWatcher WITH
  Keys <- {Device}, Values <- Record, NoValue <- NoLease, Visible <- {Device},
  entries <- Entries

NoMsg == [type |-> "none", name |-> NoName, at |-> Epoch]

TypeOK ==
  /\ Watch!WatcherTypeOK
  /\ heap \in [Objects -> Record \cup {NoLease}]
  /\ cache \in Objects \cup {Nil}
  /\ now \in Epoch..Horizon
  /\ pc \in [Procs -> {"idle", "find", "stamp", "marshal", "write", "compare",
                       "assign", "send", "delete"}]
  /\ msg \in [Procs -> Message \cup {NoMsg}]
  /\ match \in [Procs -> Objects \cup {Nil}]
  /\ again \in [Procs -> BOOLEAN]
  /\ dur \in [Procs -> Int]
  /\ raw \in [Procs -> Record \cup {NoLease}]
  /\ until \in Nat
  /\ received \in 0..MaxMessages
  /\ names \subseteq Names
  /\ hasty \in BOOLEAN /\ overlapped \in BOOLEAN
  /\ failed \in BOOLEAN /\ orphaned \in BOOLEAN
  /\ \A p \in Procs : pc[p] \notin {"idle", "find"}
                       => match[p] # Nil /\ heap[match[p]] # NoLease

\* The database may hold the client's lease, or a reservation for it.
Init ==
  /\ \E r \in {NoLease} \cup [name : Names, time : Times, expiry : {Epoch}]
                    \cup [name : Names, time : {0}, expiry : {-1}] :
       /\ store = [k \in {Device} |-> r]
       /\ names = IF r = NoLease THEN {} ELSE {r.name}
  /\ heap = [o \in Objects |-> NoLease]
  /\ cache = Nil
  /\ Watch!WatcherDown
  /\ now = Epoch
  /\ pc = [p \in Procs |-> "idle"]
  /\ msg = [p \in Procs |-> NoMsg]
  /\ match = [p \in Procs |-> Nil]
  /\ again = [p \in Procs |-> FALSE]
  /\ dur = [p \in Procs |-> 0]
  /\ raw = [p \in Procs |-> NoLease]
  /\ until = 0
  /\ received = 0
  /\ hasty = FALSE /\ overlapped = FALSE
  /\ failed = FALSE /\ orphaned = FALSE

(***************************************************************************)
(* Memory.                                                                 *)
(***************************************************************************)

\* A record that nothing points to.
Free == CHOOSE o \in Objects : o # cache /\ \A p \in Procs : match[p] # o

\* h without the records that nothing points to any more.
Collected(h) ==
  [o \in Objects |->
     IF o = cache' \/ \E p \in Procs : match'[p] = o THEN h[o] ELSE NoLease]

(***************************************************************************)
(* Handlers.                                                               *)
(***************************************************************************)

Goto(p, l) == pc' = [pc EXCEPT ![p] = l]

Return(p) ==
  /\ Goto(p, "idle")
  /\ msg' = [msg EXCEPT ![p] = NoMsg]
  /\ match' = [match EXCEPT ![p] = Nil]
  /\ again' = [again EXCEPT ![p] = FALSE]
  /\ dur' = [dur EXCEPT ![p] = 0]
  /\ raw' = [raw EXCEPT ![p] = NoLease]
  /\ UNCHANGED cache
  /\ heap' = Collected(heap)

Settled ==
  /\ \A p \in Procs : pc[p] = "idle"
  /\ lastData = store /\ pend = {} /\ chan = <<>>

Receive(p, m) ==
  /\ pc[p] = "idle"
  /\ phase # "down"
  /\ m.at = now
  /\ received < MaxMessages
  /\ received' = received + 1
  /\ Goto(p, "find")
  /\ msg' = [msg EXCEPT ![p] = m]
  /\ until' = IF m.type \in {"decline", "release"} THEN 0 ELSE until
  /\ names' = IF m.type \in {"discover", "request"} THEN names \cup {m.name}
                                                    ELSE names
  /\ hasty' = (hasty \/ ~Settled)
  /\ overlapped' = (overlapped \/ \E q \in Procs : pc[q] # "idle")
  /\ UNCHANGED <<store, watchVars, memory, now, match, again, dur, raw, faults>>

\* leaseFor makes a record with the name of the message.  A DISCOVER stores it
\* for the time of the negotiation, a REQUEST for the scope's.
LeaseFor(p) ==
  /\ heap' = [heap EXCEPT ![Free] =
                [name |-> msg[p].name, time |-> 0, expiry |-> 0]]
  /\ match' = [match EXCEPT ![p] = Free]
  /\ dur' = [dur EXCEPT ![p] = IF msg[p].type = "discover" THEN Negotiate ELSE TTL]
  /\ Goto(p, "stamp")
  /\ UNCHANGED <<cache, msg, again, raw>>

\* Mutant: a RELEASE deletes the lease without asking whether there is one.
FindNoneUnchecked(p) ==
  /\ cache = Nil
  /\ IF msg[p].type = "decline" THEN Return(p)
     ELSE IF msg[p].type = "release"
       THEN Goto(p, "delete") /\ UNCHANGED <<memory, msg, match, again, dur, raw>>
       ELSE LeaseFor(p)

\* FindLease found nothing: the lease is made, but a DECLINE drops it and a
\* RELEASE makes none.
FindNone(p) ==
  /\ cache = Nil
  /\ IF msg[p].type \in {"decline", "release"} THEN Return(p) ELSE LeaseFor(p)

\* FindLease found the record of the cache, which a RELEASE deletes unless it
\* is a reservation, and the others store for the scope's time.
FindCached(p) ==
  /\ cache # Nil
  /\ IF msg[p].type = "release" /\ heap[cache].expiry = -1
       THEN Return(p)
       ELSE /\ match' = [match EXCEPT ![p] = cache]
            /\ dur' = [dur EXCEPT ![p] = TTL]
            /\ Goto(p, IF msg[p].type = "release" THEN "delete" ELSE "stamp")
            /\ UNCHANGED <<memory, msg, again, raw>>

FindLease(p) ==
  /\ pc[p] = "find"
  /\ FindNone(p) \/ FindCached(p)
  /\ UNCHANGED <<store, watchVars, now, history>>

\* Mutant: storing a lease ends a reservation.
StampAll(p) ==
  /\ pc[p] = "stamp"
  /\ heap' = IF dur[p] # 0
               THEN [heap EXCEPT ![match[p]].expiry = now + dur[p]] ELSE heap
  /\ dur' = [dur EXCEPT ![p] = 0]
  /\ Goto(p, "marshal")
  /\ UNCHANGED <<store, watchVars, cache, now, msg, match, again, raw, history>>

\* Mutant: a lease that has an expiry keeps it.
StampOnce(p) ==
  /\ pc[p] = "stamp"
  /\ heap' = IF dur[p] > 0 /\ heap[match[p]].expiry = 0
               THEN [heap EXCEPT ![match[p]].expiry = now + dur[p]] ELSE heap
  /\ dur' = [dur EXCEPT ![p] = 0]
  /\ Goto(p, "marshal")
  /\ UNCHANGED <<store, watchVars, cache, now, msg, match, again, raw, history>>

\* Lease.Put sets the expiry of an ordinary lease; a duration of 0 leaves it.
Stamp(p) ==
  /\ pc[p] = "stamp"
  /\ heap' = IF dur[p] > 0 /\ heap[match[p]].expiry # -1
               THEN [heap EXCEPT ![match[p]].expiry = now + dur[p]] ELSE heap
  /\ dur' = [dur EXCEPT ![p] = 0]
  /\ Goto(p, "marshal")
  /\ UNCHANGED <<store, watchVars, cache, now, msg, match, again, raw, history>>

\* Lease.Put reads the record, with whatever others have written to it since.
Marshal(p) ==
  /\ pc[p] = "marshal"
  /\ raw' = [raw EXCEPT ![p] = heap[match[p]]]
  /\ Goto(p, "write")
  /\ UNCHANGED <<store, watchVars, memory, now, msg, match, again, dur, history>>

\* Lease.Put stores what it read, or fails, which is only logged.  createReply
\* follows for a DISCOVER or a REQUEST, unless this was its own Put.
Write(p) ==
  /\ pc[p] = "write"
  /\ \/ Watch!Put(Device, raw[p]) /\ orphaned' = FALSE /\ UNCHANGED failed
     \/ PutFaults /\ failed' = TRUE /\ UNCHANGED <<store, orphaned>>
  /\ IF msg[p].type = "decline"
       THEN Return(p)
       ELSE /\ Goto(p, IF again[p] THEN "send" ELSE "compare")
            /\ raw' = [raw EXCEPT ![p] = NoLease]
            /\ UNCHANGED <<memory, msg, match, again, dur>>
  /\ UNCHANGED <<watchVars, now, until, received, names, hasty, overlapped>>

\* Mutant: the name is assigned and stored without a comparison.
CompareNot(p) ==
  /\ pc[p] = "compare"
  /\ heap' = [heap EXCEPT ![match[p]].name = Torn]
  /\ Goto(p, "assign")
  /\ UNCHANGED <<store, watchVars, cache, now, msg, match, again, dur, raw, history>>

\* createReply compares the host name of the message with the record's, and
\* starts to assign it: a string is two words, written one after the other.
Compare(p) ==
  /\ pc[p] = "compare"
  /\ IF msg[p].name # heap[match[p]].name
       THEN /\ heap' = [heap EXCEPT ![match[p]].name = Torn]
            /\ Goto(p, "assign")
       ELSE UNCHANGED heap /\ Goto(p, "send")
  /\ UNCHANGED <<store, watchVars, cache, now, msg, match, again, dur, raw, history>>

\* Mutant: the new name is not stored.
AssignOnly(p) ==
  /\ pc[p] = "assign"
  /\ heap' = [heap EXCEPT ![match[p]].name = msg[p].name]
  /\ Goto(p, "send")
  /\ UNCHANGED <<store, watchVars, cache, now, msg, match, again, dur, raw, history>>

\* The name is assigned, and the record stored for a duration that is its
\* expiry, a point in time.
Assign(p) ==
  /\ pc[p] = "assign"
  /\ heap' = [heap EXCEPT ![match[p]].name = msg[p].name]
  /\ dur' = [dur EXCEPT ![p] = heap[match[p]].expiry]
  /\ again' = [again EXCEPT ![p] = TRUE]
  /\ Goto(p, "stamp")
  /\ UNCHANGED <<store, watchVars, cache, now, msg, match, raw, history>>

\* The lease time of the reply: the record's, if it is one, or the scope's.
Granted(r) == IF r.time \in 1..MaxLease THEN r.time ELSE TTL

\* The reply goes out.  With an ACK the lease lasts from when the client asked.
Send(p) ==
  /\ pc[p] = "send"
  /\ until' = IF msg[p].type = "request"
                THEN msg[p].at + Granted(heap[match[p]]) ELSE until
  /\ Return(p)
  /\ UNCHANGED <<store, watchVars, now, received, names, hasty, overlapped, faults>>

\* Lease.Delete, or its error.
DeleteLease(p) ==
  /\ pc[p] = "delete"
  /\ \/ /\ Watch!Delete(Device)
        /\ orphaned' = (lastData[Device] = NoLease)
        /\ UNCHANGED failed
     \/ PutFaults /\ failed' = TRUE /\ UNCHANGED <<store, orphaned>>
  /\ Return(p)
  /\ UNCHANGED <<watchVars, now, until, received, names, hasty, overlapped>>

(***************************************************************************)
(* The watcher and the clock.                                              *)
(***************************************************************************)

\* loadInitial and handleEvent make a new record of what was stored; loadInitial
\* makes none if the value cannot be read.
NewEntry ==
  /\ UNCHANGED match
  /\ \E r \in {store[Device], NoLease} \cup {chan[i].val : i \in DOMAIN chan} :
       /\ cache' = IF r = NoLease THEN Nil ELSE Free
       /\ heap' = Collected(IF r = NoLease THEN heap ELSE [heap EXCEPT ![Free] = r])
       /\ Watch!LoadInitial \/ Watch!Deliver

WatchStep ==
  /\ NewEntry \/ (UNCHANGED <<memory, match>>
                   /\ (Watch!Tick \/ \E e \in pend : Watch!Send(e)))
  /\ UNCHANGED <<now, pc, msg, again, dur, raw, history>>

Clock ==
  /\ now < Horizon
  /\ now' = now + 1
  /\ UNCHANGED <<store, watchVars, memory, handlerVars, history>>

Work(p) ==
  \/ FindLease(p)
  \/ Stamp(p) \/ Marshal(p) \/ Write(p)
  \/ Compare(p) \/ Assign(p) \/ Send(p)
  \/ DeleteLease(p)

Next ==
  \/ \E p \in Procs, m \in Message : Receive(p, m)
  \/ \E p \in Procs : Work(p)
  \/ WatchStep
  \/ Clock

Spec == Init /\ [][Next]_vars

(***************************************************************************)
(* Properties.                                                             *)
(***************************************************************************)

\* A reservation is stored with its expiry of -1 for ever, whatever durations
\* concurrent messages of the client store it for.  This takes scans that can
\* read its value: a scan that skips it makes the cache forget it, and the
\* client's next message stores an ordinary lease in its place.
ReservationStays ==
  [][store[Device] # NoLease /\ store[Device].expiry = -1
       => store'[Device] # NoLease /\ store'[Device].expiry = -1]_vars

\* The server keeps a lease at least as long as the client it acknowledged it
\* to: the stored expiry is not before the client's.  This takes a client whose
\* messages find the server settled, reads and writes that succeed, and no
\* lease time of its own longer than the scope's.
RecordOutlivesClient ==
  (until > 0 /\ ~hasty /\ ~failed) =>
    LET r == store[Device]
    IN  /\ r # NoLease
        /\ r.expiry = -1 \/ r.expiry >= until \/ Granted(r) > TTL

\* As long as the client sticks to one host name no stored expiry lies more
\* than the scope's time ahead, also when its messages are handled at the same
\* time or a write fails.  (Its first message with another name stores a date
\* decades away.)
ExpiryInReach ==
  (Cardinality(names) <= 1 /\ store[Device] # NoLease)
    => store[Device].expiry <= now + TTL

\* Handlers change the cache before the store, and events that are older than
\* these changes replace them, but when all is quiet the two agree.  Only three
\* things end this: two messages that are handled at the same time, a write that
\* fails, and the deletion of a record that no tick has seen yet, which leaves
\* it in the cache.
CacheAgrees ==
  (Settled /\ phase # "down" /\ ~overlapped /\ ~failed)
    => Entries = store \/ (store[Device] = NoLease /\ orphaned)

\* A host name that was read in the middle of an assignment is stored only if
\* a message of the client came while another was handled, and they did not all
\* have the same name.
NoTornName ==
  (store[Device] # NoLease /\ store[Device].name = Torn)
    => overlapped /\ Cardinality(names) > 1

=============================================================================
