---------------------------- MODULE OfferProofs ----------------------------
(***************************************************************************)
(* Clients that are patient once they hold an address.  What an ACK        *)
(* promised them stays in the store; and if they also take turns, the      *)
(* server's leases behave as AddressPool says.  The arguments: a handler   *)
(* of a client that holds an address finds exactly the lease in the store, *)
(* because the cache has caught up on it, and writes it back; and what a   *)
(* handler writes in place of an offer is nobody else's.                   *)
(***************************************************************************)
EXTENDS ExchangeProofs

\* Handlers that are looking for an address.
Searching == {"check", "recheck", "lock", "scan", "rescan"}

(***************************************************************************)
(* Patience.                                                               *)
(***************************************************************************)

\* A client has one handler at a time.
OwnHandler ==
  \A p, q \in Procs :
    pc[p] # "idle" /\ pc[q] # "idle" /\ msg[p].client = msg[q].client => p = q

\* The client of a handler holds no address, unless what the handler stores and
\* replies with is what the store has.
HandlerPatient(p) ==
  LET c == msg[p].client IN
  /\ pc[p] = "find" =>
       acked[c] = NoAddr \/ (Quiet(c) /\ msg[p].type \in {"discover", "request"})
  /\ pc[p] \in Searching \cup {"invalid"} => ~Holding(c)
  /\ pc[p] \in {"put", "reply", "send"} => lease[p] = store[c] \/ ~Holding(c)
  /\ pc[p] \in {"reply", "send"} /\ c \notin PutFaults => lease[p] = store[c]
  /\ pc[p] = "delete" => acked[c] = NoAddr

\* The inductive invariant.
PatientInv == OwnHandler /\ Arriving /\ \A p \in Procs : HandlerPatient(p)

\* What a step does to the address a client holds, and to the one it believes in.
Keeps(c) == Holding(c) => Holding(c)' \/ acked'[c] = NoAddr

Believes(c) == acked[c] # NoAddr => Holding(c)

LEMMA PatientInit == Init => PatientInv
BY DEF Init, Watch!WatcherDown, PatientInv, OwnHandler, Arriving, HandlerPatient,
       Searching

\* The cache has the lease of a client about which nothing is on its way.
LEMMA QuietIsCached ==
  ASSUME Arriving, phase # "down", NEW c \in Clients, Quiet(c), store[c] # NoLease
  PROVE  entries[c] = store[c]
BY DEF Arriving, LastArrives, Quiet

\* A running handler.
LEMMA WorkFacts ==
  ASSUME TypeOK, LocalsOK, ProperInv, NEW p \in Procs, Work(p)
  PROVE  /\ pc[p] # "idle" /\ phase # "down" /\ msg[p].client \in Clients
         /\ UNCHANGED watchVars
         /\ \A d \in Clients \ {msg[p].client} :
              store'[d] = store[d] /\ acked'[d] = acked[d]
         /\ pc'[p] # "idle" => msg'[p] = msg[p]
<1>1. pc[p] # "idle" /\ phase # "down" /\ msg[p].client \in Clients
  BY Working
<1>2. \A d \in Clients \ {msg[p].client} : acked'[d] = acked[d]
  BY DEF TypeOK, Work, FindLease, CheckAddress, RecheckAddress, LockIpam, ScanExhausted,
         MarkInvalid, PutLease, Rename, SendReply, DeleteLease
<1> QED BY <1>1, <1>2, WorkWrites, WorkLeavesWatcher, WorkMessage

\* A write of a lease, or its failure.
LEMMA WriteIs ==
  ASSUME TypeOK, NEW p \in Procs, msg[p].client \in Clients, Write(p)
  PROVE  /\ store'[msg[p].client] \in {lease[p], store[msg[p].client]}
         /\ msg[p].client \notin PutFaults => store'[msg[p].client] = lease[p]
         /\ lease[p] = store[msg[p].client] => store' = store
BY ProperType DEF Write, Watch!Put

LEMMA WorkPatient ==
  ASSUME TypeOK, LocalsOK, ProperInv, PatientInv, BenignPrefix, NEW p \in Procs, Work(p),
         NEW c \in Clients, c = msg[p].client
  PROVE  /\ HandlerPatient(p)'
         /\ Keeps(c)
         /\ c \in PutFaults \/ (Believes(c) => Believes(c)')
<1> DEFINE Good == /\ HandlerPatient(p)'
                   /\ Keeps(c)
                   /\ c \in PutFaults \/ (Believes(c) => Believes(c)')
<1> USE DEF HandlerPatient, Keeps, Believes, Holding
<1>1. /\ pc[p] # "idle" /\ phase # "down"
      /\ UNCHANGED watchVars
      /\ pc'[p] # "idle" => msg'[p] = msg[p]
      /\ HandlerPatient(p) /\ Arriving
  BY WorkFacts DEF PatientInv
<1>2. ASSUME UNCHANGED <<store, acked>>
      PROVE  Keeps(c) /\ (Believes(c) => Believes(c)')
  BY <1>2
<1>3. ASSUME Finish(p) PROVE HandlerPatient(p)'
  BY <1>3 DEF Finish, Goto, TypeOK, Searching
<1>4. ASSUME pc[p] \in Searching, pc'[p] \in Searching \cup {"invalid", "put"},
             UNCHANGED <<store, acked>>
      PROVE  Good
  <2>1. ~Holding(c) /\ ~Holding(c)' /\ msg'[p] = msg[p]
    BY <1>1, <1>4 DEF Searching
  <2> QED BY <1>2, <1>4, <2>1 DEF Searching
<1>5. CASE FindLease(p)
  <2>1. UNCHANGED <<store, acked>> /\ pc[p] = "find"
    BY <1>5 DEF FindLease
  <2>2. CASE FoundNone(p)
    <3>1. CASE msg[p].type = "release"
      BY <1>2, <1>3, <2>1, <2>2, <3>1 DEF FoundNone
    <3>2. CASE msg[p].type # "release"
      <4>1. entries[c] = NoLease /\ pc'[p] \in {"lock", "check"} /\ msg'[p] = msg[p]
        BY <1>1, <2>1, <2>2, <3>2, LookupIsEntry DEF FoundNone, Goto, TypeOK
      <4>2. ~Holding(c)
        BY <1>1, <2>1, <4>1, QuietIsCached
      <4>3. ~Holding(c)'
        BY <2>1, <4>2
      <4> QED BY <1>2, <2>1, <4>1, <4>3 DEF Searching
    <3> QED BY <3>1, <3>2
  <2>3. ASSUME NEW l \in Lookup(c), Found(p, l) PROVE Good
    <3>1. l = entries[c]
      BY <1>1, LookupIsEntry
    <3>2. CASE msg[p].type = "release" /\ l.fixed
      BY <1>2, <1>3, <2>1, <2>3, <3>2 DEF Found
    <3>3. CASE ~(msg[p].type = "release" /\ l.fixed)
      <4>1. /\ pc'[p] = IF msg[p].type = "release" THEN "delete" ELSE "put"
            /\ lease'[p] = l /\ msg'[p] = msg[p]
        BY <2>3, <3>3 DEF Found, Goto, TypeOK
      <4>2. l = store[c] \/ ~Holding(c)
        BY <1>1, <2>1, <3>1, QuietIsCached
      <4>3. msg[p].type = "release" => acked[c] = NoAddr
        BY <1>1, <2>1
      <4> QED BY <1>2, <2>1, <4>1, <4>2, <4>3 DEF Searching
    <3> QED BY <3>2, <3>3
  <2> QED BY <1>5, <2>2, <2>3 DEF FindLease
<1>6. CASE CheckAddress(p) \/ RecheckAddress(p) \/ LockIpam(p) \/ ScanExhausted(p)
  BY <1>4, <1>6 DEF CheckAddress, RecheckAddress, LockIpam, ScanExhausted, Accept,
                    Reject, Allocated, Goto, TypeOK, Searching
<1>7. CASE MarkInvalid(p)
  BY <1>2, <1>3, <1>7 DEF MarkInvalid
<1>8. CASE PutLease(p) \/ Rename(p)
  <2>1. /\ pc[p] \in {"put", "reply"} /\ Write(p) /\ acked' = acked
        /\ \/ Finish(p)
           \/ pc'[p] \in {"reply", "send"} /\ UNCHANGED <<msg, lease>>
    BY <1>8 DEF PutLease, Rename, Goto, TypeOK
  <2>2. /\ store'[c] \in {lease[p], store[c]}
        /\ c \notin PutFaults => store'[c] = lease[p]
        /\ lease[p] = store[c] => store' = store
    BY <1>1, <2>1, WriteIs
  <2>3. lease[p] = store[c] \/ ~Holding(c)
    BY <1>1, <2>1
  <2>4. Keeps(c) /\ (Believes(c) => Believes(c)')
    BY <2>1, <2>2, <2>3
  <2>5. CASE ~Finish(p)
    <3>1. lease[p] = store'[c] \/ ~Holding(c)'
      BY <2>1, <2>2, <2>3
    <3> QED BY <2>1, <2>2, <2>4, <2>5, <3>1 DEF Searching
  <2> QED BY <1>3, <2>4, <2>5
<1>9. CASE SendReply(p)
  <2>1. /\ store' = store /\ pc[p] \in {"reply", "send"} /\ Finish(p)
        /\ acked'[c] \in {acked[c], lease[p].addr}
    BY <1>1, <1>9 DEF SendReply, TypeOK
  <2>2. lease[p] # NoLease
    BY <1>9, ConstantTypes DEF SendReply, LocalsOK, HasLocals
  <2>3. Keeps(c)
    BY <1>1, <2>1, <2>2
  <2>4. c \in PutFaults \/ (Believes(c) => Believes(c)')
    BY <1>1, <2>1, <2>2
  <2> QED BY <1>3, <2>1, <2>3, <2>4
<1>10. CASE DeleteLease(p)
  <2>1. acked[c] = NoAddr /\ acked' = acked
    BY <1>1, <1>10 DEF DeleteLease
  <2> QED BY <1>3, <1>10, <2>1 DEF DeleteLease
<1> QED BY <1>5, <1>6, <1>7, <1>8, <1>9, <1>10 DEF Work

\* Every step keeps the address a client holds until the client gives it up, and
\* what a client whose writes succeed believes stays true.
LEMMA PatientNext ==
  ASSUME Pacing \in {"patient", "offer"}, BenignPrefix, ~ReadFaults
  PROVE  TypeOK /\ LocalsOK /\ ProperInv /\ PatientInv /\ [Next]_vars
           => /\ PatientInv'
              /\ \A c \in Clients : Keeps(c)
              /\ AckedIsStored => AckedIsStored'
<1> SUFFICES ASSUME TypeOK, LocalsOK, ProperInv, PatientInv, [Next]_vars
             PROVE  /\ PatientInv'
                    /\ \A c \in Clients : Keeps(c)
                    /\ \A c \in Clients : c \in PutFaults \/ (Believes(c) => Believes(c)')
  BY DEF AckedIsStored, Believes
<1> USE DEF Keeps, Believes, Holding
<1>1. ASSUME NEW p \in Procs, NEW m \in Message, Receive(p, m)
      PROVE  /\ PatientInv'
             /\ \A c \in Clients : Keeps(c)
             /\ \A c \in Clients : c \in PutFaults \/ (Believes(c) => Believes(c)')
  <2> DEFINE c == m.client
  <2>1. /\ pc[p] = "idle" /\ pc' = [pc EXCEPT ![p] = "find"]
        /\ msg' = [msg EXCEPT ![p] = m] /\ c \in Clients
        /\ UNCHANGED <<store, watchVars, lease, fresh, cand>>
        /\ \A d \in Clients \ {c} : acked'[d] = acked[d]
        /\ acked'[c] = IF m.type \in {"decline", "release"} THEN NoAddr ELSE acked[c]
    BY <1>1 DEF Receive, Goto, Message, TypeOK
  <2>2. /\ \A q \in Procs : pc[q] # "idle" => msg[q].client # c
        /\ \/ Quiet(c) \/ acked[c] = NoAddr
           \/ m.type \in {"decline", "release"}
    BY <1>1 DEF Receive, InPace, Settled
  <2>3. /\ pc'[p] = "find" /\ msg'[p] = m
        /\ \A q \in Procs \ {p} : pc'[q] = pc[q] /\ msg'[q] = msg[q]
    BY <2>1 DEF TypeOK
  <2>4. OwnHandler'
    BY <2>2, <2>3 DEF PatientInv, OwnHandler
  <2>5. Arriving'
    BY <2>1 DEF PatientInv, Arriving, LastArrives, watchVars
  <2>6. ASSUME NEW q \in Procs PROVE HandlerPatient(q)'
    <3>1. CASE q = p
      <4>1. m.type \in Types
        BY DEF Message
      <4>2. Quiet(c) => Quiet(c)'
        BY <2>1 DEF Quiet, watchVars
      <4> QED BY <2>1, <2>2, <2>3, <3>1, <4>1, <4>2
              DEF HandlerPatient, Searching, Types
    <3>2. CASE q # p /\ pc[q] = "idle"
      BY <2>3, <3>2 DEF HandlerPatient, Searching
    <3>3. CASE q # p /\ pc[q] # "idle"
      <4>1. msg[q].client \in Clients \ {c}
        BY <2>2, <3>3 DEF LocalsOK, HasLocals, Message
      <4>2. acked'[msg[q].client] = acked[msg[q].client] /\ HandlerPatient(q)
        BY <2>1, <4>1 DEF PatientInv
      <4> QED BY <2>1, <2>3, <3>3, <4>1, <4>2 DEF HandlerPatient, Quiet, watchVars
    <3> QED BY <3>1, <3>2, <3>3
  <2>7. ASSUME NEW d \in Clients
        PROVE  acked'[d] \in {acked[d], NoAddr} /\ store'[d] = store[d]
    BY <2>1
  <2> QED BY <2>4, <2>5, <2>6, <2>7 DEF PatientInv
<1>2. ASSUME NEW p \in Procs, Work(p)
      PROVE  /\ PatientInv'
             /\ \A c \in Clients : Keeps(c)
             /\ \A c \in Clients : c \in PutFaults \/ (Believes(c) => Believes(c)')
  <2>0. PICK c \in Clients : c = msg[p].client
    BY <1>2, WorkFacts
  <2>1. /\ pc[p] # "idle" /\ UNCHANGED watchVars
        /\ \A d \in Clients \ {c} : store'[d] = store[d] /\ acked'[d] = acked[d]
        /\ pc'[p] # "idle" => msg'[p] = msg[p]
    BY <1>2, <2>0, WorkFacts
  <2>2. /\ HandlerPatient(p)' /\ Keeps(c)
        /\ c \in PutFaults \/ (Believes(c) => Believes(c)')
    BY <1>2, <2>0, WorkPatient
  <2>3. \A q \in Procs \ {p} :
          pc'[q] = pc[q] /\ msg'[q] = msg[q] /\ lease'[q] = lease[q]
    BY <1>2, OtherHandlers
  <2>4. OwnHandler'
    BY <2>0, <2>1, <2>3 DEF PatientInv, OwnHandler
  <2>5. Arriving'
    BY <2>1 DEF PatientInv, Arriving, LastArrives, watchVars
  <2>6. ASSUME NEW q \in Procs \ {p} PROVE HandlerPatient(q)'
    <3>1. CASE pc[q] = "idle"
      BY <2>3, <3>1 DEF HandlerPatient, Searching
    <3>2. CASE pc[q] # "idle"
      <4>1. msg[q].client \in Clients \ {c}
        BY <2>0, <2>1, <3>2 DEF LocalsOK, HasLocals, Message, PatientInv, OwnHandler
      <4>2. /\ store'[msg[q].client] = store[msg[q].client]
            /\ acked'[msg[q].client] = acked[msg[q].client] /\ HandlerPatient(q)
        BY <2>1, <4>1 DEF PatientInv
      <4> QED BY <2>1, <2>3, <3>2, <4>1, <4>2 DEF HandlerPatient, Quiet, watchVars
    <3> QED BY <3>1, <3>2
  <2>7. ASSUME NEW d \in Clients \ {c}
        PROVE  Keeps(d) /\ (Believes(d) => Believes(d)')
    BY <2>1
  <2> QED BY <2>2, <2>4, <2>5, <2>6, <2>7 DEF PatientInv
<1>3. CASE WatchStep \/ Stop
  <2>1. UNCHANGED handlerVars /\ store' = store
    BY <1>3 DEF WatchStep, Stop, Watch!WatchStep, Watch!LoadInitial, Watch!Tick,
                Watch!Send, Watch!Deliver, Watch!Cancel, Watch!Close
  <2>2. /\ phase # "down" => \A k \in Clients : Quiet(k) => Quiet(k)'
        /\ Arriving'
    BY <1>3, <2>1, WatcherStepExchange DEF WatchStep, Stop, PatientInv
  <2>3. ASSUME NEW q \in Procs PROVE HandlerPatient(q)'
    <3>1. pc[q] # "idle" => phase # "down" /\ msg[q].client \in Clients
      BY DEF ProperInv, HandlerProper, LocalsOK, HasLocals, Message
    <3> QED BY <2>1, <2>2, <3>1 DEF PatientInv, HandlerPatient, handlerVars
  <2> QED BY <2>1, <2>2, <2>3 DEF PatientInv, OwnHandler, handlerVars
<1>4. CASE Crash
  <2>1. /\ store' = store /\ acked' = acked /\ phase' = "down"
        /\ pend' = {} /\ chan' = <<>> /\ \A p \in Procs : pc'[p] = "idle"
    BY <1>4 DEF Crash, Watch!Exit
  <2> QED BY <2>1 DEF PatientInv, OwnHandler, Arriving, HandlerPatient, Searching
<1>5. CASE UNCHANGED vars
  BY <1>5 DEF vars, PatientInv, OwnHandler, Arriving, LastArrives, HandlerPatient, Quiet
<1> QED BY <1>1, <1>2, <1>3, <1>4, <1>5 DEF Next

LEMMA PatientCorrect ==
  ASSUME Pacing \in {"patient", "offer"}, BenignPrefix, ~ReadFaults
  PROVE  Spec => [](TypeOK /\ LocalsOK /\ ProperInv /\ PatientInv)
<1> DEFINE Inv == TypeOK /\ LocalsOK /\ ProperInv /\ PatientInv
<1>1. Init => Inv
  BY TypeInit, ProperInit, PatientInit DEF Init, LocalsOK, HasLocals
<1>2. Inv /\ [Next]_vars => Inv'
  BY TypeNext, ProperNext, PatientNext
<1> QED BY <1>1, <1>2, PTL DEF Spec

\* What the last ACK promised a client is in the store if the client's writes
\* succeed, whatever writes fail for others, with any number of handlers at work,
\* and across stops and crashes in the middle of a message.
THEOREM AcksAreDurable ==
  ASSUME Pacing \in {"patient", "offer"}, BenignPrefix, ~ReadFaults
  PROVE  Spec => []AckedIsStored
<1> DEFINE Inv == TypeOK /\ LocalsOK /\ ProperInv /\ PatientInv
<1>1. Init => AckedIsStored
  BY DEF Init, AckedIsStored
<1>2. Inv /\ AckedIsStored /\ [Next]_vars => AckedIsStored'
  BY PatientNext
<1> QED BY <1>1, <1>2, PatientCorrect, PTL DEF Spec

\* Whatever writes fail, a client whose acknowledged address is stored keeps it
\* until it declines or releases it.
THEOREM AcksAreKept ==
  ASSUME Pacing \in {"patient", "offer"}, BenignPrefix, ~ReadFaults
  PROVE  Spec => AckedIsKept
<1> DEFINE Inv == TypeOK /\ LocalsOK /\ ProperInv /\ PatientInv
           Kept == \A c \in Clients : Holding(c) => Holding(c)' \/ acked'[c] = NoAddr
<1>1. Inv /\ [Next]_vars => [Kept]_vars
  BY PatientNext DEF Keeps
<1> QED BY <1>1, PatientCorrect, PTL DEF Spec, AckedIsKept

(***************************************************************************)
(* The address pool.  A handler starts either between the offer of an      *)
(* address and its acknowledgement, or when nothing about its client is on *)
(* its way.  An empty lease is only made for a client without one once the *)
(* scan has been through the whole pool, so its progress is invariant too. *)
(***************************************************************************)

\* The client has been offered a lease it was not told of yet.
Exchanging(c) == store[c] # NoLease /\ acked[c] = NoAddr

\* Store, cache and watcher agree that the client has no lease.
Unleased(c) == store[c] = NoLease /\ entries[c] = NoLease /\ Quiet(c)

\* A deleted lease leaves the cache.
Settles ==
  phase # "down" =>
    \A k \in Clients : Quiet(k) /\ store[k] = NoLease => entries[k] = NoLease

HandlerOffers(p) ==
  LET c == msg[p].client IN
  /\ pc[p] \in {"idle", "find"} => ~fresh[p]
  /\ pc[p] = "find" => Quiet(c) \/ (Exchanging(c) /\ msg[p].type # "release")
  /\ pc[p] \in Searching => fresh[p]
  /\ pc[p] \in Searching \cup {"put"} /\ fresh[p] => Exchanging(c) \/ Unleased(c)
  /\ pc[p] \in {"put", "reply"} /\ ~fresh[p] => lease[p] = store[c] \/ Exchanging(c)
  /\ pc[p] = "delete" => Quiet(c) /\ store[c] # NoLease

\* Every address of the pool before a is held.
Passed(a) == \A b \in Pool : (a # NoAddr /\ a <= b) \/ Holders(b) # {}

HandlerScans(p) ==
  LET unleased == store[msg[p].client] = NoLease IN
  /\ pc[p] \in {"scan", "rescan"} => cand[p] = NoAddr \/ RangeStart <= cand[p]
  /\ pc[p] \in {"scan", "rescan"} /\ unleased => Passed(cand[p])
  /\ pc[p] = "rescan" => ~ScanEnded(cand[p])
  /\ pc[p] = "put" /\ fresh[p] /\ unleased /\ lease[p].addr = NoAddr =>
       Passed(NoAddr)

\* The inductive invariant, next to ExchangeInv and PatientInv.
OfferInv ==
  /\ Settles
  /\ \A p \in Procs : HandlerOffers(p) /\ HandlerScans(p)

LEMMA OfferInit == Init => OfferInv
BY DEF Init, Watch!WatcherDown, OfferInv, Settles, HandlerOffers, HandlerScans,
       Searching

(***************************************************************************)
(* The watcher.                                                            *)
(***************************************************************************)

\* The watcher takes deleted leases out of the cache, and does nothing about a
\* client that is quiet.
LEMMA WatcherStepOffer ==
  ASSUME TypeOK, Arriving, Settles, ~ReadFaults, BenignPrefix,
         Watch!WatchStep \/ Watch!Cancel \/ Watch!Close
  PROVE  /\ Settles'
         /\ phase # "down" => \A k \in Clients : Quiet(k) => entries'[k] = entries[k]
<1> USE DEF Settles, Quiet
<1>0. /\ Watch!Unreadable = {{}} /\ Watch!Snapshot({}) = store
      /\ \A c \in Clients : Accepted(c)
      /\ chan \in Seq(Watch!Event) /\ pend \subseteq Watch!Event
  BY WatcherTypes
<1>2. CASE Watch!LoadInitial
  <2>1. \A k \in Clients : entries'[k] = store[k]
    BY <1>0, <1>2 DEF Watch!LoadInitial
  <2> QED BY <1>2, <2>1 DEF Watch!LoadInitial
<1>3. CASE Watch!Tick
  <2>1. /\ pend = {} /\ pend' = Watch!Diff(lastData, store) /\ lastData' = store
        /\ UNCHANGED <<store, entries, chan, phase>>
    BY <1>0, <1>3 DEF Watch!Tick
  <2>2. ASSUME NEW k \in Clients, Quiet(k)' PROVE Quiet(k)
    <3>1. lastData[k] # store[k] => [key |-> k, val |-> store[k]] \in pend'
      BY <2>1 DEF Watch!Diff
    <3> QED BY <2>1, <2>2, <3>1
  <2> QED BY <2>1, <2>2
<1>4. CASE \E e \in pend : Watch!Send(e)
  <2> PICK e \in pend : Watch!Send(e)
    BY <1>4
  <2>1. /\ chan' = Append(chan, e) /\ e \in Watch!Event /\ pend' = pend \ {e}
        /\ UNCHANGED <<store, entries, lastData, phase>>
    BY <1>0 DEF Watch!Send
  <2>2. /\ DOMAIN chan' = DOMAIN chan \cup {Len(chan) + 1}
        /\ \A i \in DOMAIN chan : chan'[i] = chan[i]
        /\ chan'[Len(chan) + 1] = e
    BY <1>0, <2>1
  <2>3. \A k \in Clients : Quiet(k)' => Quiet(k)
    BY <2>1, <2>2
  <2> QED BY <2>1, <2>3
<1>5. CASE Watch!Deliver
  <2>1. /\ chan # <<>> /\ chan' = Tail(chan) /\ Head(chan) = chan[1]
        /\ Head(chan) \in Watch!Event
        /\ UNCHANGED <<store, lastData, pend, phase>>
    BY <1>0, <1>5 DEF Watch!Deliver
  <2>2. /\ \A i \in DOMAIN chan :
             i = 1 \/ (i - 1 \in DOMAIN chan' /\ chan'[i - 1] = chan[i])
        /\ 1 \in DOMAIN chan /\ chan[1].key \in Clients
    BY <1>0, <2>1 DEF Watch!Event
  <2>3. \A k \in Clients :
          entries'[k] = IF k = chan[1].key THEN chan[1].val ELSE entries[k]
    BY <1>0, <1>5, <2>1, <2>2, WatcherTypes DEF Watch!Deliver, Watch!HandleEvent
  <2>4. ASSUME NEW k \in Clients, Quiet(k)', store[k] = NoLease, phase # "down"
        PROVE  entries'[k] = NoLease
    <3>1. CASE k # chan[1].key
      <4>1. Quiet(k)
        BY <2>1, <2>2, <2>4, <3>1
      <4> QED BY <2>3, <2>4, <3>1, <4>1
    <3>2. CASE k = chan[1].key
      <4>1. LastArrives(k) /\ lastData[k] = NoLease /\ \A e \in pend : e.key # k
        BY <2>1, <2>4 DEF Arriving
      <4>2. \A i \in DOMAIN chan : chan[i].key = k => i = 1
        BY <2>2, <2>4
      <4>3. chan[1].val = NoLease
        BY <2>2, <3>2, <4>1, <4>2 DEF LastArrives
      <4> QED BY <2>3, <3>2, <4>3
    <3> QED BY <3>1, <3>2
  <2> QED BY <2>1, <2>2, <2>3, <2>4
<1>6. CASE Watch!Cancel
  BY <1>6 DEF Watch!Cancel
<1>7. CASE Watch!Close
  BY <1>7 DEF Watch!Close
<1> QED BY <1>2, <1>3, <1>4, <1>5, <1>6, <1>7 DEF Watch!WatchStep

\* The cache shows everything about the clients that are quiet.
LEMMA QuietIsKnown ==
  ASSUME Arriving, Settles, phase # "down", NEW c \in Clients, Quiet(c)
  PROVE  entries[c] = store[c]
BY QuietIsCached DEF Settles

(***************************************************************************)
(* The handlers.                                                           *)
(***************************************************************************)

\* A deletion starts from a store the polling loop has seen, so it will see that
\* the lease is gone.
LEMMA WorkSettles ==
  ASSUME TypeOK, LocalsOK, ProperInv, OfferInv, NEW p \in Procs, Work(p)
  PROVE  Settles'
<1> PICK c \in Clients : c = msg[p].client
  BY WorkFacts
<1>1. /\ phase # "down" /\ UNCHANGED watchVars
      /\ \A d \in Clients \ {c} : store'[d] = store[d]
      /\ HandlerOffers(p)
  BY WorkFacts DEF OfferInv
<1>2. CASE store'[c] # NoLease \/ store'[c] = store[c]
  BY <1>1, <1>2 DEF OfferInv, Settles, Quiet, watchVars
<1>3. CASE store'[c] = NoLease /\ store'[c] # store[c]
  <2>1. ~PutLease(p) /\ ~Rename(p)
    <3> SUFFICES ASSUME PutLease(p) \/ Rename(p) PROVE FALSE
      OBVIOUS
    <3>1. Write(p) /\ lease[p] \in Lease
      BY DEF PutLease, Rename, LocalsOK, HasLocals
    <3> QED BY <1>3, <3>1, WriteIs, ConstantTypes
  <2>2. pc[p] = "delete"
    BY <1>3, <2>1 DEF Work, FindLease, CheckAddress, RecheckAddress, LockIpam,
       ScanExhausted, MarkInvalid, SendReply, DeleteLease
  <2>3. lastData'[c] # store'[c]
    BY <1>1, <1>3, <2>2 DEF HandlerOffers, Quiet, watchVars
  <2> QED BY <1>1, <2>3 DEF OfferInv, Settles, Quiet, watchVars
<1> QED BY <1>2, <1>3

LEMMA WorkOffers ==
  ASSUME TypeOK, LocalsOK, ProperInv, PatientInv, OfferInv, BenignPrefix,
         NEW p \in Procs, Work(p)
  PROVE  HandlerOffers(p)'
<1> USE DEF HandlerOffers, Exchanging, Unleased
<1> PICK c \in Clients : c = msg[p].client
  BY WorkFacts
<1>1. /\ pc[p] # "idle" /\ phase # "down" /\ UNCHANGED watchVars
      /\ pc'[p] # "idle" => msg'[p] = msg[p]
      /\ HandlerOffers(p) /\ Arriving /\ Settles
  BY WorkFacts DEF OfferInv, PatientInv
<1>2. store'[c] = store[c] /\ Quiet(c) => Quiet(c)'
  BY <1>1 DEF Quiet, watchVars
<1>3. ASSUME Finish(p) PROVE HandlerOffers(p)'
  BY <1>3 DEF Finish, Goto, TypeOK, Searching
<1>4. ASSUME pc[p] \in Searching, pc'[p] \in Searching \cup {"invalid", "put"},
             UNCHANGED <<store, acked, fresh>>
      PROVE  HandlerOffers(p)'
  BY <1>1, <1>2, <1>4 DEF Searching, watchVars
<1>5. CASE FindLease(p)
  <2>1. /\ UNCHANGED <<store, acked>> /\ pc[p] = "find" /\ ~fresh[p]
        /\ Quiet(c) => entries[c] = store[c] /\ Quiet(c)'
        /\ Quiet(c) \/ (Exchanging(c) /\ msg[p].type # "release")
        /\ UNCHANGED entries
    BY <1>1, <1>2, <1>5, QuietIsKnown DEF FindLease, watchVars
  <2>2. CASE FoundNone(p) /\ msg[p].type # "release"
    <3>1. /\ entries[c] = NoLease /\ pc'[p] \in {"lock", "check"} /\ fresh'[p]
          /\ msg'[p] = msg[p]
      BY <1>1, <2>2, LookupIsEntry DEF FoundNone, Goto, TypeOK
    <3> QED BY <2>1, <3>1 DEF Searching
  <2>3. ASSUME NEW l \in Lookup(c), Found(p, l), ~Finish(p) PROVE HandlerOffers(p)'
    <3>1. l = entries[c] /\ entries[c] # NoLease
      BY LookupIsEntry
    <3>2. /\ pc'[p] = IF msg[p].type = "release" THEN "delete" ELSE "put"
          /\ lease'[p] = l /\ UNCHANGED <<msg, fresh>>
      BY <2>3 DEF Found, Goto, TypeOK
    <3> QED BY <2>1, <3>1, <3>2 DEF Searching
  <2> QED BY <1>3, <1>5, <2>2, <2>3 DEF FindLease, FoundNone
<1>6. CASE CheckAddress(p) \/ RecheckAddress(p) \/ LockIpam(p) \/ ScanExhausted(p)
  BY <1>4, <1>6 DEF CheckAddress, RecheckAddress, LockIpam, ScanExhausted, Accept,
                    Reject, Allocated, Goto, TypeOK, Searching
<1>7. CASE MarkInvalid(p) \/ SendReply(p) \/ DeleteLease(p)
  BY <1>3, <1>7 DEF MarkInvalid, SendReply, DeleteLease
<1>8. CASE PutLease(p) /\ ~Finish(p)
  <2>1. /\ pc[p] = "put" /\ pc'[p] = "reply" /\ Write(p) /\ lease[p] \in Lease
        /\ UNCHANGED <<lease, fresh, acked>>
    BY <1>8 DEF PutLease, Goto, TypeOK, LocalsOK, HasLocals
  <2>2. /\ store'[c] \in {lease[p], store[c]}
        /\ lease[p] = store[c] => store'[c] = store[c]
        /\ lease[p] # NoLease
    BY <2>1, WriteIs, ConstantTypes
  <2> QED BY <1>1, <2>1, <2>2 DEF Searching
<1>9. CASE Rename(p)
  BY <1>1, <1>9 DEF Rename, Goto, TypeOK, Searching
<1> QED BY <1>3, <1>5, <1>6, <1>7, <1>8, <1>9 DEF Work, PutLease

LEMMA NextInRange ==
  ASSUME NEW a \in Addr, a = NoAddr \/ RangeStart <= a, ~ScanEnded(a)
  PROVE  NextAddr(a) = NoAddr \/ RangeStart <= NextAddr(a)
BY ConstantTypes DEF ScanEnded, NextAddr, NoAddr, Addr

LEMMA PassedNext ==
  ASSUME NEW a \in Addr, Passed(a), a = NoAddr \/ RangeStart <= a,
         ~ScanEnded(a), Holders(a) # {}
  PROVE  Passed(NextAddr(a))
<1>1. a \in 1..TopAddr /\ RangeStart <= a
  BY ConstantTypes DEF ScanEnded, NoAddr, Addr
<1>2. ASSUME NEW b \in Pool, Holders(b) = {}
      PROVE  NextAddr(a) # NoAddr /\ NextAddr(a) <= b
  <2>1. b \in RangeStart..RangeEnd /\ a <= b /\ a # b
    BY <1>2 DEF Passed, Pool
  <2> QED BY <1>1, <2>1, ConstantTypes DEF NextAddr, NoAddr
<1> QED BY <1>1, <1>2, ConstantTypes DEF Passed, NextAddr, NoAddr

LEMMA PassedEnd ==
  ASSUME NEW a \in Addr, Passed(a), a = NoAddr \/ RangeStart <= a, ScanEnded(a)
  PROVE  Passed(NoAddr)
<1> SUFFICES ASSUME NEW b \in Pool, Holders(b) = {} PROVE FALSE
  BY DEF Passed
<1>1. b \in RangeStart..RangeEnd /\ a <= b /\ RangeStart <= a /\ a \in RangeStart..b
  BY ConstantTypes DEF Passed, Pool, Addr
<1>2. a \in Subnet /\ a <= RangeEnd
  BY <1>1, ConstantTypes DEF Pool
<1> QED BY <1>1, <1>2, ConstantTypes DEF ScanEnded

\* A handler that turns away from an address while it scans has found a holder.
LEMMA WorkScans ==
  ASSUME TypeOK, LocalsOK, ProperInv, OfferInv, BenignPrefix, NEW p \in Procs, Work(p)
  PROVE  HandlerScans(p)'
<1> PICK c \in Clients : c = msg[p].client
  BY WorkFacts
<1>1. /\ HandlerScans(p) /\ HandlerProper(p) /\ HandlerOffers(p) /\ cand[p] \in Addr
      /\ pc[p] # "idle" /\ UNCHANGED watchVars
      /\ pc'[p] # "idle" => msg'[p] = msg[p]
  BY WorkFacts DEF OfferInv, ProperInv, TypeOK
<1>2. \A a : Passed(a) => Passed(a)'
  BY <1>1 DEF Passed, Holders, watchVars
<1>3. ASSUME pc'[p] \notin {"scan", "rescan", "put"} PROVE HandlerScans(p)'
  BY <1>3 DEF HandlerScans
<1>4. ASSUME Reject(p), pc[p] \in {"scan", "rescan"}, ~ScanEnded(cand[p]),
             Holders(cand[p]) # {} \/ OutOfRange(cand[p]), UNCHANGED <<store, msg>>
      PROVE  HandlerScans(p)'
  <2>1. ~OutOfRange(cand[p])
    BY <1>1, <1>4, ConstantTypes
       DEF HandlerScans, ScanEnded, OutOfRange, Addr, NoAddr
  <2>2. cand'[p] = NextAddr(cand[p]) /\ pc'[p] = "scan"
    BY <1>4 DEF Reject, Goto, TypeOK
  <2>3. /\ Passed(cand[p]) => Passed(NextAddr(cand[p]))
        /\ NextAddr(cand[p]) = NoAddr \/ RangeStart <= NextAddr(cand[p])
    BY <1>1, <1>4, <2>1, PassedNext, NextInRange DEF HandlerScans
  <2> QED BY <1>1, <1>2, <1>4, <2>2, <2>3 DEF HandlerScans
<1>5. ASSUME Reject(p), pc[p] \in {"check", "recheck"} PROVE HandlerScans(p)'
  BY <1>3, <1>5 DEF Reject, Goto, TypeOK
<1>6. CASE FindLease(p)
  <2>1. ~fresh[p] /\ (pc'[p] = "put" => fresh'[p] = fresh[p])
    BY <1>1, <1>6 DEF FindLease, FoundNone, Found, Finish, Goto, TypeOK, HandlerOffers
  <2>2. pc'[p] \notin {"scan", "rescan"}
    BY <1>6 DEF FindLease, FoundNone, Found, Finish, Goto, TypeOK
  <2> QED BY <2>1, <2>2 DEF HandlerScans
<1>7. CASE CheckAddress(p)
  <2>1. ~OwnHit(c, cand[p]) /\ UNCHANGED <<store, msg>>
    BY <1>7, NoOwnHit DEF CheckAddress
  <2>2. CASE Reject(p) /\ (Holders(cand[p]) # {} \/ OutOfRange(cand[p]))
    BY <1>4, <1>5, <1>7, <2>1, <2>2 DEF CheckAddress
  <2>3. CASE /\ Goto(p, IF pc[p] = "check" THEN "recheck" ELSE "rescan")
             /\ UNCHANGED <<lease, cand>>
    <3>1. CASE pc[p] = "check"
      BY <1>3, <2>3, <3>1 DEF Goto, TypeOK
    <3>2. CASE pc[p] = "scan" /\ ~ScanEnded(cand[p])
      BY <1>1, <1>2, <2>1, <2>3, <3>2 DEF Goto, TypeOK, HandlerScans, ScanEnded
    <3> QED BY <1>7, <3>1, <3>2 DEF CheckAddress
  <2> QED BY <1>7, <2>1, <2>2, <2>3 DEF CheckAddress
<1>8. CASE RecheckAddress(p)
  <2>1. CASE Accept(p)
    <3>1. cand[p] # NoAddr
      BY <1>1, <1>8, ConstantTypes DEF RecheckAddress, HandlerProper, OutOfRange, NoAddr
    <3>2. pc'[p] \in {"put", "invalid"} /\ lease'[p].addr = cand[p]
      BY <2>1 DEF Accept, Allocated, Goto, TypeOK
    <3> QED BY <3>1, <3>2 DEF HandlerScans
  <2>2. CASE Reject(p) /\ Holders(cand[p]) # {}
    BY <1>1, <1>4, <1>5, <1>8, <2>2 DEF RecheckAddress, HandlerScans
  <2> QED BY <1>8, <2>1, <2>2 DEF RecheckAddress
<1>9. CASE LockIpam(p)
  <2>1. pc'[p] = "scan" /\ cand'[p] = RangeStart
    BY <1>9 DEF LockIpam, Goto, TypeOK
  <2>2. Passed(RangeStart)
    BY ConstantTypes DEF Passed, Pool, NoAddr
  <2> QED BY <1>2, <2>1, <2>2, ConstantTypes DEF HandlerScans
<1>10. CASE ScanExhausted(p)
  <2>1. /\ store' = store /\ msg' = msg
        /\ store[c] = NoLease => Passed(NoAddr)
    BY <1>1, <1>10, PassedEnd DEF ScanExhausted, HandlerScans
  <2>2. pc'[p] \in {"put", "invalid"}
    BY <1>10 DEF ScanExhausted, Allocated, Goto, TypeOK
  <2> QED BY <1>2, <2>1, <2>2 DEF HandlerScans
<1>11. CASE MarkInvalid(p) \/ PutLease(p) \/ Rename(p) \/ SendReply(p) \/ DeleteLease(p)
  <2>1. pc'[p] \in {"idle", "reply", "send"}
    BY <1>11 DEF MarkInvalid, PutLease, Rename, SendReply, DeleteLease, Finish,
                 Goto, TypeOK
  <2> QED BY <1>3, <2>1
<1> QED BY <1>6, <1>7, <1>8, <1>9, <1>10, <1>11 DEF Work

LEMMA OfferNext ==
  ASSUME Pacing = "offer", BenignPrefix, ~ReadFaults
  PROVE  TypeOK /\ LocalsOK /\ ProperInv /\ ExchangeInv /\ PatientInv /\ OfferInv
           /\ [Next]_vars => OfferInv'
<1> SUFFICES ASSUME TypeOK, LocalsOK, ProperInv, ExchangeInv, PatientInv, OfferInv,
                    [Next]_vars
             PROVE  OfferInv'
  OBVIOUS
<1>1. ASSUME NEW p \in Procs, NEW m \in Message, Receive(p, m)
      PROVE  OfferInv'
  <2>1. /\ \A q \in Procs : pc[q] = "idle"
        /\ \/ Quiet(m.client)
           \/ m.type # "release" /\ store[m.client] # NoLease /\ acked[m.client] = NoAddr
        /\ UNCHANGED <<store, watchVars, lease, fresh, cand>>
    BY <1>1 DEF Receive, InPace, Settled
  <2>2. /\ msg'[p] = m /\ m.client \in Clients
        /\ \A q \in Procs : pc'[q] = IF q = p THEN "find" ELSE "idle"
        /\ acked'[m.client] \in {acked[m.client], NoAddr}
    BY <1>1, <2>1 DEF Receive, Goto, Message, TypeOK
  <2>3. Settles'
    BY <2>1 DEF OfferInv, Settles, Quiet, watchVars
  <2>4. Quiet(m.client) => Quiet(m.client)'
    BY <2>1 DEF Quiet, watchVars
  <2>5. ASSUME NEW q \in Procs PROVE HandlerOffers(q)' /\ HandlerScans(q)'
    <3>1. ~fresh'[q]
      BY <2>1 DEF OfferInv, HandlerOffers
    <3> QED BY <2>1, <2>2, <2>4, <3>1
            DEF HandlerOffers, HandlerScans, Searching, Exchanging
  <2> QED BY <2>3, <2>5 DEF OfferInv
<1>2. ASSUME NEW p \in Procs, Work(p) PROVE OfferInv'
  <2>1. pc[p] # "idle"
    BY <1>2, WorkFacts
  <2>2. \A q \in Procs \ {p} : pc'[q] = "idle" /\ ~fresh'[q]
    BY <1>2, <2>1, OtherHandlers DEF ExchangeInv, OneAtATime, OfferInv, HandlerOffers
  <2>3. \A q \in Procs \ {p} : HandlerOffers(q)' /\ HandlerScans(q)'
    BY <2>2 DEF HandlerOffers, HandlerScans, Searching
  <2> QED BY <1>2, <2>3, WorkSettles, WorkOffers, WorkScans DEF OfferInv
<1>3. CASE WatchStep \/ Stop
  <2>1. UNCHANGED handlerVars /\ store' = store
    BY <1>3 DEF WatchStep, Stop, Watch!WatchStep, Watch!LoadInitial, Watch!Tick,
                Watch!Send, Watch!Deliver, Watch!Cancel, Watch!Close
  <2>2. /\ Settles'
        /\ phase # "down" =>
             \A k \in Clients : Quiet(k) => Quiet(k)' /\ entries'[k] = entries[k]
    BY <1>3, <2>1, WatcherStepExchange, WatcherStepOffer
       DEF WatchStep, Stop, PatientInv, OfferInv
  <2>3. ASSUME NEW p \in Procs PROVE HandlerOffers(p)' /\ HandlerScans(p)'
    <3>1. CASE pc[p] = "idle"
      BY <2>1, <3>1 DEF OfferInv, HandlerOffers, HandlerScans, Searching, handlerVars
    <3>2. CASE pc[p] # "idle"
      <4>1. phase # "down" /\ msg[p].client \in Clients
        BY <3>2 DEF ProperInv, HandlerProper, LocalsOK, HasLocals, Message
      <4>2. HandlerOffers(p)'
        BY <2>1, <2>2, <4>1
           DEF OfferInv, HandlerOffers, Exchanging, Unleased, handlerVars
      <4>3. ASSUME Unleased(msg[p].client), NEW a, Passed(a) PROVE Passed(a)'
        <5>1. \A k \in Clients : entries'[k] = entries[k]
          BY <2>2, <3>2, <4>1, <4>3 DEF ExchangeInv, OthersQuiet, Unleased
        <5> QED BY <4>3, <5>1 DEF Passed, Holders
      <4>4. pc[p] \in {"scan", "rescan"} \/ (pc[p] = "put" /\ fresh[p]) =>
              store[msg[p].client] # NoLease \/ Unleased(msg[p].client)
        BY DEF OfferInv, HandlerOffers, Exchanging, Searching
      <4>5. HandlerScans(p)'
        BY <2>1, <4>3, <4>4 DEF OfferInv, HandlerScans, handlerVars
      <4> QED BY <4>2, <4>5
    <3> QED BY <3>1, <3>2
  <2> QED BY <2>2, <2>3 DEF OfferInv
<1>4. CASE Crash
  <2>1. phase' = "down" /\ \A p \in Procs : pc'[p] = "idle" /\ ~fresh'[p]
    BY <1>4 DEF Crash, Watch!Exit
  <2> QED BY <2>1 DEF OfferInv, Settles, HandlerOffers, HandlerScans, Searching
<1>5. CASE UNCHANGED vars
  BY <1>5 DEF vars, OfferInv, Settles, HandlerOffers, HandlerScans, Exchanging,
              Unleased, Quiet, Passed, Holders
<1> QED BY <1>1, <1>2, <1>3, <1>4, <1>5 DEF Next

(***************************************************************************)
(* The refinement.                                                         *)
(***************************************************************************)

\* The lease of a client in the abstract pool.
LEMMA LeaseInStoreIs ==
  ASSUME TypeOK, NEW c \in Clients
  PROVE  /\ LeaseInStore[c] = IF store[c] = NoLease THEN NoLease ELSE store[c].addr
         /\ LeaseInStore[c] = NoLease <=> store[c] = NoLease
BY ProperType, ConstantTypes DEF LeaseInStore, Lease

\* The pool's view of a step that touches one client's lease, or its belief.
LEMMA PoolStep ==
  ASSUME TypeOK, NEW c \in Clients,
         \A d \in Clients \ {c} : store'[d] = store[d] /\ acked'[d] = acked[d]
  PROVE  /\ LeaseInStore' = [LeaseInStore EXCEPT ![c] =
              IF store'[c] = NoLease THEN NoLease ELSE store'[c].addr]
         /\ Told' = IF Holding(c)' THEN Told \cup {c} ELSE Told \ {c}
<1>1. \A d \in Clients :
        LeaseInStore'[d] = IF d = c
                             THEN IF store'[c] = NoLease THEN NoLease ELSE store'[c].addr
                             ELSE LeaseInStore[d]
  BY DEF LeaseInStore
<1>2. \A d \in Clients \ {c} : Holding(d)' <=> Holding(d)
  BY DEF Holding
<1> QED BY <1>1, <1>2 DEF LeaseInStore, Told

\* The cache a handler searches for a client without a lease is the store.
LEMMA SearchedIsStore ==
  ASSUME ExchangeInv, PatientInv, Settles, phase # "down",
         NEW p \in Procs, pc[p] # "idle", Unleased(msg[p].client), NEW d \in Clients
  PROVE  entries[d] = store[d]
BY QuietIsKnown DEF ExchangeInv, OthersQuiet, PatientInv, Unleased

\* A handler that writes a lease grants an address no other client has, or none
\* because it offered one before or because the pool is exhausted.
LEMMA WriteGrants ==
  ASSUME TypeOK, LocalsOK, ProperInv, ExchangeInv, PatientInv, OfferInv,
         NEW p \in Procs, PutLease(p) \/ Rename(p), store' # store
  PROVE  AbstractPool!Next
<1> PICK c \in Clients : c = msg[p].client
  BY WorkFacts DEF Work
<1> DEFINE a == lease[p].addr
<1>1. /\ pc[p] = "put" \/ (pc[p] = "reply" /\ ~fresh[p])
      /\ Write(p) /\ acked' = acked /\ lease[p] \in Lease /\ phase # "down"
      /\ HandlerOffers(p) /\ HandlerPatient(p) /\ HandlerProper(p) /\ HandlerScans(p)
  BY WorkFacts DEF Work, PutLease, Rename, LocalsOK, HasLocals, OfferInv, PatientInv,
                   ProperInv
<1>2. store' = [store EXCEPT ![c] = lease[p]] /\ lease[p] # store[c]
  BY <1>1, WriteIs DEF Write, Watch!Put
<1>3. /\ \A d \in Clients : store'[d] = IF d = c THEN lease[p] ELSE store[d]
      /\ lease[p] # NoLease
  BY <1>1, <1>2, ProperType, ConstantTypes
<1>4. /\ LeaseInStore' = [LeaseInStore EXCEPT ![c] = a]
      /\ Told' = IF Holding(c)' THEN Told \cup {c} ELSE Told \ {c}
  BY <1>1, <1>3, PoolStep
<1>5. c \notin Told
  BY <1>1, <1>2 DEF HandlerPatient, Told
<1>6. c \notin Reserved /\ a \in RangeStart..RangeEnd \cup {NoAddr}
  BY <1>1, <1>2, <1>3 DEF HandlerProper, ProperInv, Proper
<1>7. CASE a = NoAddr
  <2>1. ~Holding(c)'
    BY <1>3, <1>7 DEF Holding
  <2>2. ASSUME store[c] = NoLease, NEW b \in Pool PROVE b \in AbstractPool!Held
    <3>1. pc[p] = "put" /\ fresh[p] /\ Unleased(c)
      BY <1>1, <1>2, <2>2 DEF HandlerOffers, Exchanging
    <3>2. PICK d \in Clients : entries[d] # NoLease /\ entries[d].addr = b
      BY <1>1, <1>7, <2>2, <3>1 DEF HandlerScans, Passed, Holders
    <3>3. entries[d] = store[d]
      BY <1>1, <3>1, SearchedIsStore DEF OfferInv
    <3>4. LeaseInStore[d] = b
      BY <3>2, <3>3, LeaseInStoreIs
    <3> QED BY <3>4 DEF AbstractPool!Held
  <2>3. LeaseInStore[c] # NoLease \/ Pool \subseteq AbstractPool!Held
    BY <2>2, LeaseInStoreIs
  <2>4. Told' = Told
    BY <1>4, <1>5, <2>1
  <2>5. AbstractPool!GrantNothing(c)
    BY <1>4, <1>5, <1>7, <2>3, <2>4 DEF AbstractPool!GrantNothing
  <2> QED BY <2>5 DEF AbstractPool!Next
<1>8. CASE a # NoAddr
  <2>1. ASSUME NEW d \in Clients \ {c}, LeaseInStore[d] = a PROVE FALSE
    <3>1. a # NoLease
      BY <1>1, ConstantTypes DEF Lease
    <3>2. store[d] \in Lease /\ store[d].addr = a
      BY <2>1, <3>1, LeaseInStoreIs, ProperType
    <3>3. Carries(d, store[d]) /\ Carries(c, lease[p])
      BY <1>1 DEF Carries
    <3> QED BY <1>1, <1>8, <3>2, <3>3 DEF ExchangeInv, Disjoint
  <2>2. Told' \in {Told, Told \cup {c}}
    BY <1>4, <1>5
  <2>3. AbstractPool!Grant(c, a)
    BY <1>4, <1>5, <2>1, <2>2 DEF AbstractPool!Grant
  <2> QED BY <1>6, <1>8, <2>3 DEF AbstractPool!Next
<1> QED BY <1>7, <1>8

\* A handler that deletes a lease releases it.
LEMMA DeleteReleases ==
  ASSUME TypeOK, LocalsOK, ProperInv, PatientInv,
         NEW p \in Procs, DeleteLease(p), store' # store
  PROVE  AbstractPool!Next
<1> PICK c \in Clients : c = msg[p].client
  BY WorkFacts DEF Work
<1>1. /\ c \notin Reserved /\ acked[c] = NoAddr /\ acked' = acked
      /\ store' = [store EXCEPT ![c] = NoLease]
  BY DEF DeleteLease, ProperInv, HandlerProper, PatientInv, HandlerPatient, Watch!Delete
<1>2. \A d \in Clients : store'[d] = IF d = c THEN NoLease ELSE store[d]
  BY <1>1, ProperType
<1>3. ~Holding(c) /\ ~Holding(c)'
  BY <1>1, <1>2 DEF Holding
<1>4. LeaseInStore' = [LeaseInStore EXCEPT ![c] = NoLease] /\ Told' = Told \ {c}
  BY <1>1, <1>2, <1>3, PoolStep
<1>5. AbstractPool!Release(c)
  BY <1>1, <1>3, <1>4 DEF AbstractPool!Release, Reserved, Told
<1> QED BY <1>5 DEF AbstractPool!Next

\* An ACK tells its client of the lease in the store, or of another that was
\* never stored.
LEMMA ReplyTells ==
  ASSUME TypeOK, LocalsOK, ProperInv, PatientInv, NEW p \in Procs, SendReply(p)
  PROVE  [AbstractPool!Next]_AbstractPool!vars
<1> PICK c \in Clients : c = msg[p].client
  BY WorkFacts DEF Work
<1>1. /\ store' = store /\ acked'[c] \in {acked[c], lease[p].addr}
      /\ \A d \in Clients \ {c} : acked'[d] = acked[d]
      /\ lease[p] = store[c] \/ ~Holding(c)
  BY DEF SendReply, TypeOK, PatientInv, HandlerPatient
<1>2. LeaseInStore' = LeaseInStore
  BY <1>1 DEF LeaseInStore
<1>3. Told' = IF Holding(c)' THEN Told \cup {c} ELSE Told \ {c}
  BY <1>1, PoolStep
<1>4. CASE Holding(c)'
  <2>1. LeaseInStore[c] \notin {NoAddr, NoLease}
    BY <1>1, <1>4, LeaseInStoreIs DEF Holding
  <2>2. AbstractPool!Acknowledge(c)
    BY <1>2, <1>3, <1>4, <2>1 DEF AbstractPool!Acknowledge
  <2> QED BY <2>2 DEF AbstractPool!Next
<1>5. CASE ~Holding(c)'
  <2>1. ~Holding(c)
    BY <1>1, <1>5 DEF Holding
  <2>2. Told' = Told
    BY <1>3, <1>5, <2>1 DEF Told
  <2> QED BY <1>2, <2>2 DEF AbstractPool!vars
<1> QED BY <1>4, <1>5

LEMMA ReceiveLeaves ==
  ASSUME TypeOK, NEW p \in Procs, NEW m \in Message, Receive(p, m)
  PROVE  [AbstractPool!Next]_AbstractPool!vars
<1> DEFINE c == m.client
<1>1. /\ store' = store /\ c \in Clients
      /\ \A d \in Clients \ {c} : acked'[d] = acked[d]
      /\ acked'[c] \in {acked[c], NoAddr}
  BY DEF Receive, Message, TypeOK
<1>2. LeaseInStore' = LeaseInStore
  BY <1>1 DEF LeaseInStore
<1>3. Told' = IF Holding(c)' THEN Told \cup {c} ELSE Told \ {c}
  BY <1>1, PoolStep
<1>4. CASE Holding(c)'
  <2>1. Holding(c)
    BY <1>1, <1>4 DEF Holding
  <2>2. Told' = Told
    BY <1>1, <1>3, <1>4, <2>1 DEF Told
  <2> QED BY <1>2, <2>2 DEF AbstractPool!vars
<1>5. CASE ~Holding(c)'
  <2>1. AbstractPool!Leave(c)
    BY <1>2, <1>3, <1>5 DEF AbstractPool!Leave
  <2> QED BY <1>1, <2>1 DEF AbstractPool!Next
<1> QED BY <1>4, <1>5

LEMMA StepImplements ==
  ASSUME TypeOK, LocalsOK, ProperInv, ExchangeInv, PatientInv, OfferInv, [Next]_vars
  PROVE  [AbstractPool!Next]_AbstractPool!vars
<1>1. CASE UNCHANGED <<store, acked>>
  BY <1>1 DEF AbstractPool!vars, LeaseInStore, Told, Holding
<1>2. CASE \E p \in Procs, m \in Message : Receive(p, m)
  BY <1>2, ReceiveLeaves
<1>3. ASSUME NEW p \in Procs, Work(p) PROVE [AbstractPool!Next]_AbstractPool!vars
  <2>1. CASE SendReply(p)
    BY <2>1, ReplyTells
  <2>2. CASE PutLease(p) \/ Rename(p) \/ DeleteLease(p)
    <3>1. acked' = acked
      BY <2>2 DEF PutLease, Rename, DeleteLease
    <3> QED BY <1>1, <2>2, <3>1, WriteGrants, DeleteReleases
  <2> QED BY <1>1, <1>3, <2>1, <2>2 DEF Work, FindLease, CheckAddress,
             RecheckAddress, LockIpam, ScanExhausted, MarkInvalid
<1>4. CASE WatchStep \/ Stop \/ Crash \/ UNCHANGED vars
  BY <1>1, <1>4 DEF vars, handlerVars, WatchStep, Watch!WatchStep, Watch!LoadInitial,
     Watch!Tick, Watch!Send, Watch!Deliver, Stop, Watch!Cancel, Watch!Close, Crash,
     Watch!Exit
<1> QED BY <1>2, <1>3, <1>4 DEF Next

LEMMA InitImplements ==
  ASSUME Init PROVE AbstractPool!Init
<1>1. ASSUME NEW c \in Clients
      PROVE  LeaseInStore[c] = IF c \in Reserved THEN Reservations[c] ELSE NoLease
  <2>1. c \in Reserved => Reservation(c) \in Lease
    BY ConstantTypes DEF Reservation, Lease
  <2>2. store[c] = IF c \in Reserved THEN Reservation(c) ELSE NoLease
    BY DEF Init, Reservation
  <2> QED BY <2>1, <2>2, ConstantTypes DEF LeaseInStore, Reservation
<1>2. Told = {}
  BY DEF Init, Told, Holding
<1> QED BY <1>1, <1>2 DEF AbstractPool!Init, LeaseInStore, Reserved

\* When clients take turns, and hurry only between an offer and its ACK, the server
\* is an address pool: no address is granted that another client has, an empty
\* lease only to a client that was offered one before or once the pool is exhausted,
\* and what a client was told stays its own until it leaves, whatever writes fail
\* and wherever the service stops or crashes.
THEOREM ImplementsPool ==
  ASSUME Pacing = "offer", BenignPrefix, ~ReadFaults
  PROVE  Spec => AssignsLikePool
<1> DEFINE Inv == /\ TypeOK /\ LocalsOK /\ ProperInv
                  /\ ExchangeInv /\ PatientInv /\ OfferInv
<1>1. Init => Inv
  BY TypeInit, ProperInit, ExchangeInit, PatientInit, OfferInit
     DEF Init, LocalsOK, HasLocals
<1>2. Inv /\ [Next]_vars => Inv'
  BY TypeNext, ProperNext, ExchangeNext, PatientNext, OfferNext
<1>3. Init => AbstractPool!Init
  BY InitImplements
<1>4. Inv /\ [Next]_vars => [AbstractPool!Next]_AbstractPool!vars
  BY StepImplements
<1> QED BY <1>1, <1>2, <1>3, <1>4, PTL DEF Spec, AssignsLikePool, AbstractPool!Spec

=============================================================================
