----------------------------- MODULE DhcpServer -----------------------------
(***************************************************************************)
(* The DHCP service: goroutines handling DISCOVER, REQUEST, DECLINE and    *)
(* RELEASE messages next to the watcher that feeds the lease cache they    *)
(* decide on.  A handler reads the cache (FindLease, IsIPFree) and writes  *)
(* the store (Lease.Put, Lease.Delete), so whatever another handler, a     *)
(* tick or a delivery does in between is visible to it or not depending on *)
(* the interleaving.  One scope; its Default flag is always set, so        *)
(* findScopeForRequest always finds it.                                    *)
(***************************************************************************)
EXTENDS Ipam, LeaseKeys, FiniteSets

CONSTANTS
  Clients,      \* DeviceIdentifiers: the MAC addresses of the devices
  Procs,        \* goroutines started by Serve, one per datagram
  Wants,        \* values of the requested-address option; NoAddr: no option
  Reservations, \* reserved addresses, a function on a subset of Clients
  NoLease,      \* the absence of a lease
  NoMsg,        \* the absence of a message
  ChanCap,      \* capacity of the watcher's channel
  Pacing,       \* what the environment promises about the arrival of messages
  MayStop,      \* whether the service may stop, crash and start again
  PutFaults,    \* the clients whose leases' writes may fail
  ReadFaults    \* whether copying a value out of the store may fail

\* Lease, reduced to its Address and to whether Expiry is -1 (IsReservation).
Lease == [addr : Addr, fixed : BOOLEAN]

Types == {"discover", "request", "decline", "release"}

\* Request4, reduced to the fields the handlers decide on; a release carries
\* no requested address.
Message ==
  {m \in [type : Types, client : Clients, want : Wants] :
     m.type = "release" => m.want = NoAddr}

Reserved == DOMAIN Reservations

ASSUME ServerAssumption ==
  /\ SEP \notin Clients
  /\ Wants \subseteq Addr /\ NoAddr \in Wants
  /\ Reserved \subseteq Clients
  /\ Reservations \in [Reserved -> Addr \ {NoAddr}]
  /\ \A c, d \in Reserved : c # d => Reservations[c] # Reservations[d]
  /\ NoLease \notin Lease \cup Addr
  /\ NoMsg \notin Message
  /\ ChanCap \in Nat \ {0}
  /\ Pacing \in {"any", "patient", "exchange", "offer"}
  /\ PutFaults \subseteq Clients
  /\ {MayStop, ReadFaults} \subseteq BOOLEAN

VARIABLES
  store, entries, lastData, pend, chan, phase,   \* see StoreWatcher
  pc,          \* where the handler of each goroutine is
  msg,         \* the message it handles
  lease,       \* its local variable match
  fresh,       \* whether match was made by leaseFor
  cand,        \* the address it is checking or about to check
  acked        \* the address each client believes it holds, from its last ACK

vars == <<store, entries, lastData, pend, chan, phase,
          pc, msg, lease, fresh, cand, acked>>

Watch == INSTANCE StoreWatcher WITH
  Keys <- Clients, Values <- Lease, NoValue <- NoLease,
  Visible <- {c \in Clients : Accepted(c)}

handlerVars == <<pc, msg, lease, fresh, cand, acked>>
watchVars == <<entries, lastData, pend, chan, phase>>

PCs == {"idle", "find", "check", "recheck", "lock", "scan", "rescan",
        "put", "invalid", "reply", "send", "delete"}

TypeOK ==
  /\ Watch!WatcherTypeOK
  /\ pc \in [Procs -> PCs]
  /\ msg \in [Procs -> Message \cup {NoMsg}]
  /\ lease \in [Procs -> Lease \cup {NoLease}]
  /\ fresh \in [Procs -> BOOLEAN]
  /\ cand \in [Procs -> Addr]
  /\ acked \in [Clients -> Addr]

\* The database may hold reservations when the server first starts.
Init ==
  /\ store = [c \in Clients |->
                IF c \in Reserved
                  THEN [addr |-> Reservations[c], fixed |-> TRUE]
                  ELSE NoLease]
  /\ Watch!WatcherDown
  /\ pc = [p \in Procs |-> "idle"]
  /\ msg = [p \in Procs |-> NoMsg]
  /\ lease = [p \in Procs |-> NoLease]
  /\ fresh = [p \in Procs |-> FALSE]
  /\ cand = [p \in Procs |-> NoAddr]
  /\ acked = [c \in Clients |-> NoAddr]

(***************************************************************************)
(* Reads of the cache.                                                     *)
(***************************************************************************)

\* leases.GetWithPrefix(id), as a set of at most one lease.
Lookup(id) ==
  {entries[d] : d \in {e \in Clients :
                         entries[e] # NoLease /\ EntryKey(e) = LeaseKey(id)}}

\* leases.GetOK(id), where IsIPFree passes the bare identifier as the key.
OwnHit(id, a) ==
  \E d \in Clients :
    entries[d] # NoLease /\ EntryKey(d) = <<id>> /\ entries[d].addr = a

\* Mutant: reservations do not count as used.
OrdinaryHolders(a) ==
  {d \in Clients : entries[d] # NoLease /\ entries[d].addr = a /\ ~entries[d].fixed}

\* The entries a pass of IsIPFree over leases.Iter stops at.
Holders(a) == {d \in Clients : entries[d] # NoLease /\ entries[d].addr = a}

(***************************************************************************)
(* Handlers.                                                               *)
(***************************************************************************)

Goto(p, l) == pc' = [pc EXCEPT ![p] = l]

\* The handler returns.
Finish(p) ==
  /\ Goto(p, "idle")
  /\ msg' = [msg EXCEPT ![p] = NoMsg]
  /\ lease' = [lease EXCEPT ![p] = NoLease]
  /\ fresh' = [fresh EXCEPT ![p] = FALSE]
  /\ cand' = [cand EXCEPT ![p] = NoAddr]

\* Nothing about client c is on its way from the store to the cache.
Quiet(c) ==
  /\ lastData[c] = store[c]
  /\ \A e \in pend : e.key # c
  /\ \A i \in DOMAIN chan : chan[i].key # c

\* No handler is running, and nothing about the given clients is on its way.
Settled(cs) == (\A p \in Procs : pc[p] = "idle") /\ \A c \in cs : Quiet(c)

\* What the environment promises; "any" is nothing.  "patient": each client waits
\* for the end of its own handler, and once it holds an address, for the cache to
\* have caught up on it before it sends the next DISCOVER or REQUEST; the clients
\* go on concurrently.  "exchange": clients take turns, so that nothing about
\* another client is on its way when a message arrives, while the messages of one
\* exchange may come faster than the polling loop.  "offer": they also take turns,
\* and one hurries only between the offer of an address and its acknowledgement.
InPace(m) ==
  LET c == m.client IN
  /\ Pacing = "patient" =>
       /\ \A p \in Procs : pc[p] # "idle" => msg[p].client # c
       /\ Quiet(c) \/ acked[c] = NoAddr \/ m.type \in {"decline", "release"}
  /\ Pacing \in {"exchange", "offer"} => Settled(Clients \ {c})
  /\ Pacing = "offer" =>
       \/ Quiet(c)
       \/ m.type # "release" /\ store[c] # NoLease /\ acked[c] = NoAddr

\* Serve, Handle and HandleRequest: a goroutine starts on a message.  The
\* socket is never closed, so this goes on after the watcher was cancelled.  A
\* client stops using the address it declines or releases when it says so.
Receive(p, m) ==
  /\ pc[p] = "idle"
  /\ phase # "down"
  /\ InPace(m)
  /\ Goto(p, "find")
  /\ msg' = [msg EXCEPT ![p] = m]
  /\ acked' = IF m.type \in {"decline", "release"}
                THEN [acked EXCEPT ![m.client] = NoAddr] ELSE acked
  /\ UNCHANGED <<store, watchVars, lease, fresh, cand>>

\* FindLease returned nil: leaseFor makes a lease, starting with the requested
\* address if there is one; a release has nothing to do.
FoundNone(p) ==
  /\ Lookup(msg[p].client) = {}
  /\ IF msg[p].type = "release"
       THEN Finish(p)
       ELSE /\ Goto(p, IF msg[p].want = NoAddr THEN "lock" ELSE "check")
            /\ fresh' = [fresh EXCEPT ![p] = TRUE]
            /\ cand' = [cand EXCEPT ![p] = msg[p].want]
            /\ UNCHANGED <<msg, lease>>

\* Mutant: a reservation is released like any lease.
FoundAnyReleased(p, l) ==
  /\ l \in Lookup(msg[p].client)
  /\ Goto(p, IF msg[p].type = "release" THEN "delete" ELSE "put")
  /\ lease' = [lease EXCEPT ![p] = l]
  /\ UNCHANGED <<msg, fresh, cand>>

\* FindLease returned a lease, which every handler but release stores again; a
\* reservation is not released.
Found(p, l) ==
  /\ l \in Lookup(msg[p].client)
  /\ IF msg[p].type = "release" /\ l.fixed
       THEN Finish(p)
       ELSE /\ Goto(p, IF msg[p].type = "release" THEN "delete" ELSE "put")
            /\ lease' = [lease EXCEPT ![p] = l]
            /\ UNCHANGED <<msg, fresh, cand>>

FindLease(p) ==
  /\ pc[p] = "find"
  /\ FoundNone(p) \/ \E l \in Lookup(msg[p].client) : Found(p, l)
  /\ UNCHANGED <<store, watchVars, acked>>

\* Mutant: a request acknowledges the new lease before storing it.
AllocatedUnstored(p, a) ==
  /\ Goto(p, CASE msg[p].type = "decline" -> "invalid"
               [] msg[p].type = "request" -> "reply"
               [] OTHER -> "put")
  /\ lease' = [lease EXCEPT ![p] = [addr |-> a, fixed |-> FALSE]]
  /\ cand' = [cand EXCEPT ![p] = NoAddr]

\* leaseFor is done.  A decline of a device without a lease renames the new
\* lease "invalid" and drops it; the other handlers store it.
Allocated(p, a) ==
  /\ Goto(p, IF msg[p].type = "decline" THEN "invalid" ELSE "put")
  /\ lease' = [lease EXCEPT ![p] = [addr |-> a, fixed |-> FALSE]]
  /\ cand' = [cand EXCEPT ![p] = NoAddr]

\* IsIPFree said yes; UseIP does nothing.
Accept(p) == Allocated(p, cand[p])

\* IsIPFree said no: setLeaseIP turns to NextFreeAddress, which turns to the
\* next address.
Reject(p) ==
  /\ UNCHANGED lease
  /\ IF pc[p] \in {"check", "recheck"}
       THEN /\ Goto(p, "lock")
            /\ cand' = [cand EXCEPT ![p] = NoAddr]
       ELSE /\ Goto(p, "scan")
            /\ cand' = [cand EXCEPT ![p] = NextAddr(cand[p])]

\* IsIPFree up to the end of its first pass over the cache and of the range
\* check.
CheckAddress(p) ==
  /\ pc[p] = "check" \/ (pc[p] = "scan" /\ ~ScanEnded(cand[p]))
  /\ IF OwnHit(msg[p].client, cand[p])
       THEN Accept(p)
       ELSE IF Holders(cand[p]) # {} \/ OutOfRange(cand[p])
              THEN Reject(p)
              ELSE /\ Goto(p, IF pc[p] = "check" THEN "recheck" ELSE "rescan")
                   /\ UNCHANGED <<lease, cand>>
  /\ UNCHANGED <<store, watchVars, msg, fresh, acked>>

\* The second pass of IsIPFree, over a cache that may have changed since; it
\* stops at any entry with the address, map order being arbitrary.  (All leases
\* are of the one scope.)
RecheckAddress(p) ==
  /\ pc[p] \in {"recheck", "rescan"}
  /\ \/ Holders(cand[p]) = {} /\ Accept(p)
     \/ \E d \in Holders(cand[p]) :
          IF Identifier(d) = <<msg[p].client>> THEN Accept(p) ELSE Reject(p)
  /\ UNCHANGED <<store, watchVars, msg, fresh, acked>>

\* NextFreeAddress takes the IPAM's mutex, held for the whole scan.
LockIpam(p) ==
  /\ pc[p] = "lock"
  /\ \A q \in Procs : pc[q] \notin {"scan", "rescan"}
  /\ Goto(p, "scan")
  /\ cand' = [cand EXCEPT ![p] = RangeStart]
  /\ UNCHANGED <<store, watchVars, msg, lease, fresh, acked>>

\* NextFreeAddress returns nil, and the lease keeps its empty address.
ScanExhausted(p) ==
  /\ pc[p] = "scan"
  /\ ScanEnded(cand[p])
  /\ Allocated(p, NoAddr)
  /\ UNCHANGED <<store, watchVars, msg, fresh, acked>>

\* The lease that the decline handler marked "invalid" is stored nowhere.
MarkInvalid(p) ==
  /\ pc[p] = "invalid"
  /\ Finish(p)
  /\ UNCHANGED <<store, watchVars, acked>>

\* Lease.Put, or its error: it is logged and the handler goes on all the same.
Write(p) ==
  \/ Watch!Put(msg[p].client, lease[p])
  \/ msg[p].client \in PutFaults /\ UNCHANGED store

PutLease(p) ==
  /\ pc[p] = "put"
  /\ Write(p)
  /\ IF msg[p].type = "decline"
       THEN Finish(p)
       ELSE Goto(p, "reply") /\ UNCHANGED <<msg, lease, fresh, cand>>
  /\ UNCHANGED <<watchVars, acked>>

\* createReply stores the lease once more if the host name is not the one it
\* was stored with, which a lease made by leaseFor has from this very message.
Rename(p) ==
  /\ pc[p] = "reply" /\ ~fresh[p]
  /\ Write(p)
  /\ Goto(p, "send")
  /\ UNCHANGED <<watchVars, msg, lease, fresh, cand, acked>>

\* The OFFER or ACK goes out, and a client takes the address an ACK carries.
SendReply(p) ==
  /\ pc[p] \in {"reply", "send"}
  /\ acked' = IF msg[p].type = "request"
                THEN [acked EXCEPT ![msg[p].client] = lease[p].addr] ELSE acked
  /\ Finish(p)
  /\ UNCHANGED <<store, watchVars>>

\* FreeIP does nothing; Lease.Delete, or its error, ends the release.
DeleteLease(p) ==
  /\ pc[p] = "delete"
  /\ \/ Watch!Delete(msg[p].client)
     \/ msg[p].client \in PutFaults /\ UNCHANGED store
  /\ Finish(p)
  /\ UNCHANGED <<watchVars, acked>>

Work(p) ==
  \/ FindLease(p)
  \/ CheckAddress(p) \/ RecheckAddress(p)
  \/ LockIpam(p) \/ ScanExhausted(p)
  \/ MarkInvalid(p)
  \/ PutLease(p) \/ Rename(p) \/ SendReply(p)
  \/ DeleteLease(p)

(***************************************************************************)
(* The rest of the process.                                                *)
(***************************************************************************)

WatchStep == Watch!WatchStep /\ UNCHANGED handlerVars

\* Service.Stop cancels the watcher and leaves the handlers alone.
Stop ==
  /\ MayStop
  /\ Watch!Cancel \/ Watch!Close
  /\ UNCHANGED handlerVars

\* The process ends and every handler with it; the clients remember their ACKs.
Crash ==
  /\ MayStop
  /\ Watch!Exit
  /\ pc' = [p \in Procs |-> "idle"]
  /\ msg' = [p \in Procs |-> NoMsg]
  /\ lease' = [p \in Procs |-> NoLease]
  /\ fresh' = [p \in Procs |-> FALSE]
  /\ cand' = [p \in Procs |-> NoAddr]
  /\ UNCHANGED acked

Next ==
  \/ \E p \in Procs, m \in Message : Receive(p, m)
  \/ \E p \in Procs : Work(p)
  \/ WatchStep
  \/ Stop
  \/ Crash

Spec == Init /\ [][Next]_vars

\* Every goroutine and the polling loop keep running; sync.Mutex is starvation
\* free, so a goroutine waiting for the IPAM's mutex gets it in the end.
FairSpec ==
  /\ Spec
  /\ WF_vars(WatchStep)
  /\ \A p \in Procs : WF_vars(Work(p)) /\ SF_vars(LockIpam(p))

(***************************************************************************)
(* Properties.                                                             *)
(***************************************************************************)

\* No address is leased to two clients, neither when one of them retries faster
\* than the polling loop, nor when a write fails, nor after a crash in the middle
\* of an exchange.  An empty lease, handed out when the pool is exhausted, has
\* no address.
NoDuplicateLease ==
  \A c, d \in Clients :
    (c # d /\ store[c] # NoLease /\ store[d] # NoLease)
      => store[c].addr = NoAddr \/ store[c].addr # store[d].addr

\* No two clients have been told by an ACK that the same address is theirs.
NoDoubleAck ==
  \A c, d \in Clients :
    c # d => acked[c] = NoAddr \/ acked[c] # acked[d]

\* The client believes in the address its lease in the store has.
Holding(c) ==
  acked[c] # NoAddr /\ store[c] # NoLease /\ store[c].addr = acked[c]

\* The address a client was given by its last ACK, and has not given back, is
\* in its lease in the store: it survives a crash and is known after a restart,
\* whatever writes fail for other clients.  (A write that fails for the client
\* itself breaks this, as the code acknowledges all the same.)
AckedIsStored == \A c \in Clients \ PutFaults : acked[c] # NoAddr => Holding(c)

\* Once the address of an ACK is stored, only its client's DECLINE or RELEASE
\* ends that: no renewal, crash, restart, failed write or other client makes the
\* server store another lease, or acknowledge another address.
AckedIsKept ==
  [][\A c \in Clients : Holding(c) => Holding(c)' \/ acked'[c] = NoAddr]_vars

\* A reservation is never released, moved or turned into an ordinary lease,
\* whatever messages of whichever clients are handled at the same time.
ReservationKept ==
  \A c \in Reserved : store[c] = [addr |-> Reservations[c], fixed |-> TRUE]

\* No other client is given a reserved address, even one in the pool that is
\* asked for by name while the reservation is being rewritten.
ReservedAddressExclusive ==
  \A c \in Clients \ Reserved :
    store[c] # NoLease => \A d \in Reserved : store[c].addr # Reservations[d]

\* Every address the server gives out by itself lies in the configured range,
\* whatever address the client asked for.
AddressesInRange ==
  \A c \in Clients \ Reserved :
    store[c] # NoLease => store[c].addr \in RangeStart..RangeEnd \cup {NoAddr}

\* No address outside the subnet is leased: ipam.go:12 says that IsIPFree should
\* also check whether the address is in the range and in the subnet.
LeasesInSubnet ==
  \A c \in Clients \ Reserved :
    store[c] # NoLease => store[c].addr \in Subnet \cup {NoAddr}

\* The address a device without a lease declines is never leased afterwards,
\* which is what the comment in HandleDHCPDecline4 wants "invalid" for.
DeclinedAddressWithheld ==
  \A p \in Procs, a \in Addr \ {NoAddr} :
    [](pc[p] = "invalid" /\ lease[p] # NoLease /\ lease[p].addr = a =>
         [](\A c \in Clients : store[c] = NoLease \/ store[c].addr # a))

\* Every message is answered or dropped in the end: no handler is stuck
\* waiting for the IPAM's mutex or scanning the pool for ever.
RequestsFinish == \A p \in Procs : pc[p] # "idle" ~> pc[p] = "idle"

\* When clients take turns, and hurry only between an offer and its ACK, the leases
\* in the store behave as AddressPool says: the handlers, their cache and the
\* polling loop together implement it.
LeaseInStore ==
  [c \in Clients |-> IF store[c] = NoLease THEN NoLease ELSE store[c].addr]

Told == {c \in Clients : Holding(c)}

AbstractPool == INSTANCE AddressPool WITH
  Addresses <- RangeStart..RangeEnd, Pool <- Pool, Reserved <- Reservations,
  Empty <- NoAddr, None <- NoLease, lease <- LeaseInStore, told <- Told

AssignsLikePool == AbstractPool!Spec

=============================================================================
