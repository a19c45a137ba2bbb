# A formal model of the enhance DHCP server

`enhance` is a small DHCPv4 server for one subnet. It keeps its leases in a
badger database, mirrors them in a map in memory by polling the database, and
decides every message on that map. This directory holds TLA+ models of its
parts, the TLC configurations that check them on small instances, and theorems
about them that the TLA+ proof system checks for every instance.

Paths below are relative to the repository (`pkg/...`, `cmd/...`).

## 1. The system

| Component | Source | State | Operations |
|---|---|---|---|
| Storage client | `pkg/storage/client.go`, `key.go` | the badger database, a `RWMutex`; per watch: previous snapshot `lastData`, channel of 100 events | `Get`, `Put`, `Delete`, `Watch`/`watchLoop`, `getFullKey` |
| Watcher | `pkg/storage/watcher/` | `entries` (the cache) under a `RWMutex`, the cancel function | `Start`, `loadInitial`, `startWatch`, `handleEvent`, `Stop`, `GetOK`, `GetWithPrefix`, `Iter` |
| DHCP handlers, leases | `pkg/services/dhcp/dhcp_handler4*.go`, `lease.go`, `middleware.go` | one goroutine per datagram with its lease `match`, a pointer into the cache when `FindLease` found one | `Serve`, `HandleRequest`, four handlers, `FindLease`, `setLeaseIP`, `Put`, `Delete`, `createReply` |
| IPAM | `pkg/services/dhcp/ipam_internal.go` | range, two mutexes | `NextFreeAddress`, `IsIPFree`; `UseIP` and `FreeIP` are empty |
| Scope | `pkg/services/dhcp/scope.go` | subnet, mask, TTL | `findScopeForRequest`, `leaseFor`, configuration |
| Reply routing | `pkg/services/dhcp/dhcp_handler4.go`, `ethernet.go` | none | `Handle`, `sendEthernet` |
| Service manager | `pkg/service_manager/` | the map of services under a `RWMutex`, the instances and their contexts | `StartService`, `StopService` |
| Configuration, commands | `pkg/config`, `cmd` | global configuration | load, `server`, `data` |
| OUI database, utils | `pkg/services/dhcp/oui`, `pkg/utils` | the list of vendor blocks | `Load`, `Lookup`; masks. Nothing in the program calls either package |

How they interact:

```
  datagram -> Serve -> go Handle -> HandleRequest -> Discover | Request | Decline | Release
                                        |  reads                     | writes
                                        v                            v
                                  Watcher.entries            storage.Client (badger)
                                        ^                            |
                          handleEvent   |    chan (100)     diff     |  every 100 ms
                                        +---- startWatch <- watchLoop <-+
```

No handler ever writes the cache, and no handler ever reads the store. What
makes the server hard to get right is that loop: between the moment a handler
decides and the moment its decision is in the cache lie its own remaining
steps, a database write, up to a tick, and a channel. Everything else that can
go wrong (two handlers at once, a stop, a crash, a failed write, a scan that
cannot read a value) goes wrong inside that window.

What makes each component correct:

- storage client and watcher: the cache only moves forward in time, loses no
  deletion it could know about, and ends up equal to the store when writing stops;
- handlers and IPAM: no address is leased to two clients, an acknowledged
  address is durable, reservations are untouchable, addresses come from the
  range and the subnet, every handler ends;
- keys: the client, the watcher and the lease agree on the key of a lease;
- lease records: the server keeps a lease at least as long as its client,
  memory and database agree, nothing half-written is stored;
- reply routing: a reply reaches the network of the client that asked, and no
  request ends the process;
- service manager: a service runs at most once, and the map says whether it does;
- vendor database: an address is attributed to the vendor that owns it.

`PROJECT.json` lists every hazard of this code at its line, with the properties
that cover it.

The sources do not compile as they stand (`scope.go` uses `fmt` without
importing it, `ipam_internal.go` uses `errors` and fields `RangeStart` and
`RangeEnd` that `InternalIPAM` does not have); the model takes the evident
meaning, that the range is the configured one. The configuration's
`reservations` are never read; a lease is a reservation when its stored
`expiry` is -1, so the model has reservations that are already in the database.

## 2. The modules

| Module | Models | Composes |
|---|---|---|
| `StoreWatcher` | storage client, polling loop, channel, cache; an open module of actions | |
| `WatchedStore` | `StoreWatcher` with arbitrary writers, faulty scans and restarts | extends `StoreWatcher` |
| `LeaseKeys` | the strings a lease is stored, watched and looked up under | |
| `Ipam` | address arithmetic: range, successor, where the scan ends | |
| `DhcpServer` | handlers, IPAM and watcher together | extends `Ipam`, `LeaseKeys`; instance of `StoreWatcher` |
| `AddressPool` | the abstract specification of address assignment | instance in `DhcpServer` |
| `LeaseRecord` | host name, lease time and expiry of one client's record, shared in memory | instance of `StoreWatcher` |
| `ReplyRouting` | `Handle`: what becomes of a datagram, and where its answer goes | |
| `ServiceManager` | start and stop of services by concurrent callers | |
| `OneService` | the abstract specification of a service | instance in `ServiceManager` |
| `Masks` | prefix lengths to octets, of `oui` and of `utils` | |
| `OuiDb` | the vendor database: loading and looking up | extends `Masks` |
| `MCWatchedStore`, `MCDhcpServer`, `MCLeaseRecord`, `MCCalls` | values, symmetry and views for TLC; `MCCalls` runs `ReplyRouting` and `OuiDb` | |
| `DhcpServerProofs`, `ExchangeProofs`, `OfferProofs` | theorems about `DhcpServer`: under any interleaving, when clients take turns, and when they are patient once they hold an address | each extends the one before |
| `LeaseRecordProofs`, `WatchedStoreProofs`, `ServiceManagerProofs`, `ReplyRoutingProofs`, `OuiDbProofs` | theorems about these modules | |

### StoreWatcher and WatchedStore

| Variable | Code |
|---|---|
| `store` | the badger database below the watched prefix |
| `entries` | `Watcher.entries` |
| `lastData` | `lastData` of `watchLoop` |
| `pend` | the events of the current tick that are not sent yet (the position in the two loops at `client.go:276` and `292`) |
| `chan` | the `WatchChan` |
| `phase` | not started, watching, cancelled (`Watcher.Stop`), closed (`watchLoop` returned) |

| Action | Code |
|---|---|
| `Put`, `Delete` | one `db.Update` under the client's write lock, hence one step |
| `LoadInitial` | `Watcher.Start`: nobody reads the cache before it returns, hence one step |
| `Tick` | one read transaction, hence one consistent snapshot; `watchLoop` does not take the client's lock, which is why nothing else is excluded |
| `Send` | one iteration of the two loops; map order is any order, PUTs come before DELETEs; blocks while the channel is full |
| `Deliver` | one iteration of `startWatch`, `handleEvent` included |
| `Cancel`, `Close`, `Exit` | `Watcher.Stop`; `ctx.Done` in `watchLoop`; the end of the process |

`ReadFaults` lets a scan skip any set of keys, the `continue` after a failed
`ValueCopy`. `WatchedStore` numbers the writes so that its properties can speak
of older and newer values; the code's values differ from write to write too,
because a lease carries its expiry.

### LeaseKeys

Strings are sequences of tokens, `"/"` being one, so that `TrimPrefix`,
`Key.String` and `getFullKey` are modelled by what they do. `Accepted` is
`handleEvent`'s filter, `Identifier` what `leaseFromKV` recovers.

### DhcpServer

| Variable | Code |
|---|---|
| `pc[p]` | where goroutine `p`'s handler is |
| `msg[p]` | `Request4`: type, client (MAC address), requested address |
| `lease[p]`, `fresh[p]` | the local `match`, and whether `leaseFor` made it |
| `cand[p]` | the address being checked (`requestedIP`, `currentIP`) |
| `acked[c]` | history: the address the client believes it holds from its last ACK |

A handler's steps are cut where another goroutine can see or change something
in between: the cache lookup, each of the two passes of `IsIPFree` for each
address, taking the IPAM's mutex, each write to the store, the reply. `PutFaults` is the set of the clients whose
leases' writes may fail. The
mutex `scopeLock` and the cache's `RWMutex` only cover the inside of one step;
the mutex `ipf` is held from `scan` to the end of the scan, which `LockIpam`'s
guard says.

| Action | Code |
|---|---|
| `Receive` | `Serve`, `Handle`, `HandleRequest` |
| `FindLease` | `FindLease`, and each handler's branch on its result |
| `CheckAddress` | `IsIPFree` up to the range check, and the scan's loop condition |
| `RecheckAddress` | the second pass of `IsIPFree` |
| `LockIpam`, `ScanExhausted` | `NextFreeAddress` |
| `MarkInvalid` | the end of `HandleDHCPDecline4` without a lease |
| `PutLease`, `Rename`, `DeleteLease` | the writes of the handlers and of `createReply`; a failed write changes nothing and is ignored, as in the code |
| `SendReply` | the reply, which every client receives |
| `WatchStep`, `Stop`, `Crash` | the watcher, `Service.Stop`, the end of the process |

Two branches of `FindLease` and `findScopeForRequest` cannot be taken and are
left out: there is one scope, its `Default` flag is always set, and every lease
points to it. A lease is reduced to its address and whether it is a
reservation; nothing in the code decides on expiry times, which are in
`LeaseRecord`.

`Pacing` says what the environment promises about the arrival of messages; it
is an assumption on the clients and the network, not on the code, and the guard
`InPace` of `Receive` is its only use.

- `"any"`: nothing. Any number of handlers run at once.
- `"patient"`: each client waits for the end of its own handler, and once it
  holds an address, for the cache to have caught up on it before it sends the
  next DISCOVER or REQUEST. Handlers of different clients run concurrently, and a
  client without an acknowledged address (one that has just been offered its
  first, say) may answer within the tick of 100 ms. A client waits for its answer
  before it sends the next message, and one that holds an address does not ask
  again before half of its lease is over, which is why this can be asked of it.
  It leaves out a client that is started again, or repeats its REQUEST because the
  ACK got lost, within a tick of that ACK. No run uses it; it is what the proofs
  of `AckedIsStored` and `AckedIsKept` get by with.
- `"exchange"`: clients take turns. When a client's message arrives, no handler
  is running and nothing about any *other* client is on its way from the store
  to the cache. The messages of one client may come as fast as they like: a
  DISCOVER, the REQUEST that answers its OFFER and a retry within one tick are
  the usual case on a home network.
- `"offer"`: clients take turns, and hurry only between the offer of an address
  and its acknowledgement. This has the usual exchange, a DISCOVER and a REQUEST
  within one tick, any number of times over, and a DECLINE that follows at once;
  it leaves out that a client retries what was already acknowledged, or releases
  what was only offered, before the cache has caught up.

`AckedIsStored`, `AckedIsKept` and `AssignsLikePool` need the patience after the
ACK; under `"exchange"` all three are violated. A message that
overtakes the polling loop finds no lease, and if the client's own lease
reaches the cache while its handler is looking for an address, `IsIPFree`
refuses that address too (see "Other disagreements"): the lease in the store is
replaced by one with another address, or with none. Before the ACK that changes
an offer, which `AddressPool` allows; after it, what the client was promised.

Messages of two clients within one tick are `"any"` or `"patient"`, and there two
clients may be acknowledged the same address (`dhcp_race`).

### AddressPool

What a client may rely on. An address is granted only while no other client has
it. A client that has been told its address (`told`: the address of its last ACK
is the one in its stored lease) keeps it until it declines or releases it; what
it was only offered may be replaced. A client without a lease gets an empty one
only when nothing in the pool is left, and reservations are never released.
`DhcpServer` implements it under `lease <- LeaseInStore`, `told <- Told`:
everything about handlers, events and the cache is a stutter, a `Put` of a fresh
lease is a `Grant` or a `GrantNothing`, an ACK an `Acknowledge`, the arrival of a
DECLINE or RELEASE a `Leave`, and a `Delete` a `Release`. That the store may
change its mind about an offer is part of the specification because the code
does: a REQUEST that overtakes the lease its DISCOVER made allocates again.

### LeaseRecord

`FindLease` returns the pointer the cache holds, so several handlers of one
client, and the cache itself, may share one record. One client is enough, since
clients share no record; two handlers of it run at once.

| Variable | Code |
|---|---|
| `heap`, `cache` | the records in memory, and the one `Watcher.entries` points to; a record nothing points to is dropped (`Collected`, the garbage collector) |
| `match[p]`, `dur[p]`, `raw[p]` | the record handler `p` works on, the duration it stores it for, and what `json.Marshal` made of it |
| `again[p]` | whether this is the second `Put`, the one of `createReply` |
| `now` | the clock, in seconds |
| `until` | history: when the lease ends that the client was last acknowledged |
| `names` | history: the host names of the first record and of the messages |
| `hasty` | history: a message came before the server had settled |
| `overlapped` | history: a message came while another was handled |
| `failed`, `orphaned` | history: a write failed; the record was deleted before a tick saw it |

| Action | Code |
|---|---|
| `FindLease` | `FindLease`, `leaseFor`, and the handlers' choice of duration |
| `Stamp`, `Marshal`, `Write` | the three parts of `Lease.Put`; others may write to the record between them |
| `Compare`, `Assign`, `Send` | `createReply`: a string is two words, and a read between the two writes finds neither name (`Torn`) |
| `DeleteLease` | `Lease.Delete` |
| `WatchStep` | the actions of `StoreWatcher`, with the cache seen through `entries <- Entries` |
| `Clock` | a second passes |

`ReadFaults` is as in `StoreWatcher`: a scan may leave the record out.

`AddressLeaseTime` is set by nothing but what the database holds already, so it
is part of the initial record. The second `Put` passes `Expiry`, a point in
time, as a duration; with a real clock that stores a date decades away, which
the model shows as `now + Expiry`. Doing so over and over would in the end
overflow a `time.Duration`; the bounded clock stays below that.

### ReplyRouting

One datagram and the host it arrives at. `srv` is the host: bound to an
interface or not, whether its kernel names the interface a datagram came from
(it is asked only if the socket is not bound), whether `instance.ip` is set
(unset, gopacket refuses the frame), whether raw frames can be sent. `req` is
the datagram with what the handlers make of it.

| Action | Code |
|---|---|
| `Serve`, `Ignore`, `Answer` | `Serve`, and `Handle` up to the handlers' result; `recoverMiddleware4` turns a panic into no reply |
| `Choose` | the peer, `useEthernet` and `woob`; the dereference of a nil `woob`, after `recover` has returned, ends the process |
| `SendEthernet`, `FallBack` | `sendEthernet` and its failure |
| `WriteTo`, `WriteFails` | the broadcast that every reply which is not a frame ends in |
| `Boot` | the process is started again |

The branch for NAKs is left out because no handler makes one.

### ServiceManager and OneService

| Variable | Code |
|---|---|
| `services` | `sm.services`; one service is registered, hence one entry |
| `watcher[i]`, `cancelled` | the watcher of instance `i`, and the instances whose context is cancelled |
| `serving` | the instances whose socket is bound; `Service.Stop` closes none |
| `pc[p]`, `mine[p]` | where caller `p` is, and the instance its call is about |
| `overlapped` | history: whether two calls were ever in progress at once |

Taking `serviceMutex` and what is done under it are separate steps, because the
`delete` after a failed start takes no lock. As in Go, a waiting writer keeps
new readers out, and an unlocking writer lets the waiting readers in. The
program's only caller, `serverCmd`, starts, waits for a signal and stops, one
call after the other; that callers may overlap is what the mutex promises, and
the properties say what remains true then. `Refuse` is for a service whose
`Start` returns an error; the DHCP service ends the process with `log.Fatal`
instead, which is `Exit`.

`OneService` says what callers may rely on: of all instances at most one is up.
`ServiceManager` implements it under `up <- Live`, the instances whose watcher
runs, as long as calls do not overlap.

### Masks and OuiDb

`CIDRMask` and `IPv4Mask` are the two ways of the code to make octets of a
prefix length; `MasksAgree` compares them on all 33 lengths. `OuiDb` reads a
file line by line as `Load` does and looks addresses up in the result; `&` of
two octets is `AndOctet`, bit by bit. A line is
reduced to what the regular expressions and `ParseOUI` make of it: an entry with
its octets, whether it is hexadecimal, and a vendor; a line that is skipped; a
line the first expression does not match.

## 3. The runs

| Run | Bounds | Shows |
|---|---|---|
| `watch_cache` | 2 keys, 4 writes, 1 faulty scan, channel of 2, restarts, fairness | `NoStaleReturn`: no entry goes back to an older value; `OrphanOnlyIfUnseen`: only a deletion the loop could not have seen leaves an orphan; `ReportsArrive`: what the loop has seen of a key is in the cache once no event of the key is under way; `Converges`; `TypeOK` |
| `dhcp_offer` | `Pacing = "offer"`: 3 clients, one with a reservation in a range of 3, another with write failures, 1 handler, 4 addresses, stop, crash | `AssignsLikePool` (refinement), `AckedIsStored`, `AckedIsKept`, `TypeOK` |
| `dhcp_exchange` | `Pacing = "exchange"`, write failures for all clients, a range that reaches one address past the subnet, otherwise as `dhcp_offer` | `NoDuplicateLease`, `AddressesInRange` |
| `dhcp_concurrent` | `Pacing = "any"`: 2 clients, one with a reservation that both may ask for, 2 handlers, a range of 1 that ends with the address space, fairness | `ReservationKept`, `ReservedAddressExclusive`, `RequestsFinish` |
| `lease_record` | 2 handlers of a client, 2 messages, 2 host names, 2 instants, lease times 0 and 1, write failures; scans read every value | `CacheAgrees`, `NoTornName`, `RecordOutlivesClient`, `ExpiryInReach`, `ReservationStays`, `TypeOK` |
| `services` | 3 callers, 2 instances, refused starts, exits, fairness | `MapTellsTruth`, `StoppedByOne`, `CallsReturn`, `ActsLikeOneService` (refinement), `TypeOK` |
| `calls` | 2 networks and every kind of server and request; files of up to 3 lines, 3 prefixes, 4 addresses | `ReplyReachesClient`, `NoRequestKills`, `RouteTypeOK`; `VendorFound`, `NeverMisattributed` |
| `shipped_prefix` | the prefix of `config.json`, 1 handler | violated `NoDuplicateLease` |
| `dhcp_race` | 2 handlers | violated `NoDoubleAck` |
| `dhcp_decline` | 1 handler | violated `DeclinedAddressWithheld` |
| `dhcp_subnet` | 1 client, 1 handler, a range that reaches one address past the subnet | violated `LeasesInSubnet` |
| `relay` | 2 networks | violated `RelayIsAnswered` |

Why the bounds are enough. A key's fate in the cache depends on its own events
and their order in the channel, so two keys and four writes make every overlap
of a snapshot, a full channel and a later write; a channel of two is full after
one tick over two keys. Two handlers interleave in every way two requests can,
and the properties speak of pairs of clients. A third client in the runs with
one handler exhausts the pool, so empty leases, stored and released, are
part of them. In `dhcp_offer` the writes for one of the two clients without a
reservation may fail, and the other's may not: `AckedIsStored` is about the
second, `AckedIsKept` and `AssignsLikePool` about both. The ranges of these runs
end at the last address of the address space, so the scan runs into `Addr.Next`'s
wrap, and where one handler runs an address below the range (1) can be asked for.
In `dhcp_concurrent` the reserved address is the whole range and may be asked for
by name, so that every allocation that does not respect it shows; two handlers of the
other client compete for the mutex, and one of them may run next to a handler
that stores the reservation again.

In `lease_record` two messages of one client are all that can share a record
twice over, and everything its properties compare (a record before and after a
`Put`, a name and another, the store and what the client was told) involves two;
the second instant lets time pass between any two steps. The lease time 1 is
shorter than the scope's, 2; one that is longer falls under the exemption of
`RecordOutlivesClient`. Scans that skip the record are left to the proofs, which
have them where the property allows it. In `services` the
third caller is there for a reader and a writer that wait while another writer
holds the lock; a second instance is what a wrong start makes. In `calls` a
second network is the wrong one to answer on, and the third line of a file is
what can change the answer two lines gave.

`lease_record` uses symmetry in the handlers, and a view that forgets where in
memory a record lies and the history its properties do not ask for; no action
depends on either, and all its properties are safety properties. `dhcp_exchange`
and `dhcp_concurrent` use a view without `acked`, which no action reads under
their pacing and no property of theirs mentions; a step that changes `acked`
changes `pc` as well, so the view takes no step for a stutter, and the liveness
property of `dhcp_concurrent` means the same with it as without.

Deadlock is checked in every run but two. `lease_record` stops when its messages
and its time are used up, and `calls` at the end of the vendors' file. Where the
process may start again (`watch_cache`, `services`) nothing ever stops.

Fairness: `FairSpec` of `WatchedStore` and `DhcpServer` has weak fairness for
the watcher's step (a ticker that keeps firing and two runnable goroutines) and
for each handler (a runnable goroutine), and strong fairness for taking the
IPAM's mutex, because Go's `sync.Mutex` switches to first-come-first-served
when a waiter starves. That of `ServiceManager` has weak fairness for each
caller's steps and strong fairness for its taking the lock, because
`sync.RWMutex` starves neither readers nor writers. No fairness is assumed of
messages, calls, stops or crashes.

### Disagreements found

1. `shipped_prefix`: with the prefix in `config.json` the watcher drops every
   event. The cache stays empty, no device ever has a lease, and every device
   is given the first address of the range.
2. `dhcp_race`: two concurrent requests are acknowledged the same address;
   `UseIP`, meant to close that window, is empty.
3. `dhcp_decline`: a declined address is handed to the next device.
4. `relay`: `Handle` works out that the answer to a relayed request goes back to
   the relay, and then overwrites that peer with the broadcast address and the
   client port (`dhcp_handler4.go:96-105` and `157`). A relay hears none of it.
5. `dhcp_subnet`: an address that a client asks for is compared with the range
   only, and `ipam.go:12` says with the range and the subnet
   (`ipam_internal.go:102-109`). The two are configured separately.

### Other disagreements

These show as conditions in properties that hold, and have no run of their own.

- A lease that is loaded at the start and released before the first tick stays
  in the cache, and blocks its address, until the next restart: the first
  snapshot is compared with an empty one (`client.go:238`). It is the exception
  in `OrphanOnlyIfUnseen`, and `Converges` allows for it.
- A device is meant to be free to take its own address (`ipam_internal.go:87`),
  but the key looked up there is never in the map: a device is refused its own
  address whenever `FindLease` ran before its lease reached the cache.
  This is why `AssignsLikePool` lets an offer change, and why it and
  `AckedIsStored` need a client that is patient after its ACK.
- A client that changes its host name gets an expiry decades away
  (`lease.go:189`): the condition of `ExpiryInReach`. One whose messages overlap
  then may get a torn name stored (`NoTornName`).
- Handlers change the cached record before they store it: after a failed write,
  or when two messages of one client overlap, cache and store may differ for as
  long as nothing else is stored (`lease.go:142-148`). A scan that skips a
  reservation makes the next message replace it (`client.go:256`). These are the
  conditions of `CacheAgrees` and `ReservationStays`.
- A reply that has no interface to go out on, from a socket bound to none, goes
  where the routing table sends broadcasts: `LeftToRoutes` in
  `ReplyReachesClient`.
- Two overlapping starts run two instances, of which the map knows one; a failed
  start deletes without the lock whatever is in the map (`service_manager.go:50`
  and `66`): the condition of `MapTellsTruth`.
- The vendor database never finds a prefix longer than three octets, unless its
  further octets are 0, and finds one entry that is not hexadecimal for every
  address (`ouitools.go:202-203`): the conditions of `VendorFound`.

## 4. The proofs

All theorems hold for any values of the constants: any number of clients,
handlers, addresses, keys, callers, instances, networks and lines of a file, any
channel capacity, range, subnet and durations. They use the named assumptions of
their modules (`ServerAssumption`, `IpamAssumption`, `PrefixAssumption`,
`WatcherAssumption`, `WritesAssumption`, `RecordAssumption`, `ManagerAssumption`,
`RoutingAssumption`, `OuiAssumption`), which only say what the constants are
(reserved addresses are distinct, a MAC address is not the separator, no interface is not an
interface, there are finitely many handlers, the negotiation takes no longer
than the scope's lease time, the clock does not start at 0).

`DhcpServer`:

| Theorem | States | Further assumptions |
|---|---|---|
| `TypeCorrect` | `Spec => [](TypeOK /\ LocalsOK)` | none |
| `ReservationsSafe`, `ReservedExclusive`, `RangeKept` | `Spec => [](ReservationKept /\ ReservedAddressExclusive /\ AddressesInRange)`, and the last two alone | `BenignPrefix`, `~ReadFaults` |
| `NoDuplicates` | `Spec => []NoDuplicateLease` | `BenignPrefix`, `~ReadFaults`, `Pacing` is `"exchange"` or `"offer"` |
| `AcksAreDurable` | `Spec => []AckedIsStored` | `BenignPrefix`, `~ReadFaults`, `Pacing` is `"patient"` or `"offer"` |
| `AcksAreKept` | `Spec => AckedIsKept` | `BenignPrefix`, `~ReadFaults`, `Pacing` is `"patient"` or `"offer"` |
| `ImplementsPool` | `Spec => AssignsLikePool`, that is `DhcpServer` implements `AddressPool` | `BenignPrefix`, `~ReadFaults`, `Pacing = "offer"` |

The other modules, without further assumptions but for `ReservationsStay` and
`RecordsOutliveClients`, which assume `~ReadFaults`. What the formulas exempt is
written in them and in the comments of the properties.

| Theorem | States |
|---|---|
| `CacheTyped`, `CacheMovesForward`, `DeletionsArrive`, `WhatWasSeenArrives` | `WatchedStore`: `Spec => []TypeOK`, `Spec => NoStaleReturn`, `Spec => OrphanOnlyIfUnseen`, `Spec => []ReportsArrive` |
| `RecordTyped`, `ReservationsStay`, `ExpiryStaysInReach`, `NamesStayWhole`, `CacheSettles`, `RecordsOutliveClients` | `LeaseRecord`: `Spec => []TypeOK`, `Spec => ReservationStays`, `Spec => []I` for `ExpiryInReach`, `NoTornName`, `CacheAgrees`, `RecordOutlivesClient` |
| `ManagerTyped`, `OneStopper`, `MapIsTrue` | `ServiceManager`: `Spec => []I` for `TypeOK`, `StoppedByOne`, `MapTellsTruth` |
| `ImplementsOneService` | `Spec => ActsLikeOneService`, that is `ServiceManager` implements `OneService` while calls do not overlap |
| `RoutingTyped`, `RepliesArrive`, `RequestsDoNotKill` | `ReplyRouting`: `RouteSpec => []I` for `RouteTypeOK`, `ReplyReachesClient`, `NoRequestKills` |
| `VendorsAreFound`, `NobodyMisattributed` | `OuiDb`: `OuiSpec => []I` for `VendorFound`, `NeverMisattributed` |

`BenignPrefix` says that the client's prefix is empty or a single separator;
with another prefix the properties fail (`shipped_prefix`). `~ReadFaults` is
needed because a skipped value (`client.go:121-125`, `256-260`) looks like a
deletion: a lease or a reservation leaves the cache for a tick, and a message
that comes then is handled as if it were not there. `LeaseRecord` needs it for
the same reason.

- `DhcpServerProofs` first establishes what the keys do under a benign prefix: the
  key a handler looks up is the key the watcher files (`LookupKey`), no event
  of a lease is filtered (`EveryLeaseAccepted`), the identifier recovered from
  a key is the client's (`IdentifierIsId`), and the bare identifier is never a
  key (`BareKeyMisses`), which is why a device's own address is not exempt.
  Then types: `TypeOK` is not inductive, since `lease[p].addr` only makes sense
  where a handler has a lease; `LocalsOK` says where.
  Then reservations: `ProperInv` says that wherever a value of a key can be
  (store, cache, pending event, channel, a handler's local lease) it is proper:
  the reservation for a reserved client, otherwise nothing or an address in the
  range that is nobody's reservation. That the cache always has the
  reservations while the server runs is what makes both passes of `IsIPFree`
  refuse their addresses, and what keeps a handler of a reserved client out of
  the allocating and deleting states.
- `ExchangeProofs`: a client carries an address if a lease with it is
  anywhere between the local lease of its handler and the cache (store, pending
  event, channel, cache). `ExchangeInv` says that no two clients carry the same
  address (`Disjoint`), that everybody but the client being served is quiet
  (`OthersQuiet`), and that the last value the polling loop saw of a key is the
  last to reach the cache (`Arriving`). `Disjoint` alone is not inductive: that
  `IsIPFree` refuses an address somebody else carries needs the other two, by
  which the cache shows everything a quiet client carries. Only the second pass
  of `IsIPFree` makes a client carry something new; every other step moves
  leases along. An orphan of the initial load only blocks an address, so it does
  no harm here.
- `OfferProofs`: `PatientInv` is about every handler. One that looks for an
  address works for a client that holds none; one that stores or acknowledges a
  lease has the very lease of the store in hand, or its client holds none. It
  follows from `Arriving` at the place where a handler looks into the cache: the
  cache has the stored lease of a client about which nothing is on its way
  (`QuietIsCached`). With other clients at work nothing more is needed, because
  no handler writes another client's key. That gives `AcksAreDurable` and
  `AcksAreKept`.
  For `ImplementsPool`, `OfferInv` says where the client of a handler stands:
  between an offer and its ACK (`Exchanging`), or without a lease anywhere
  (`Unleased`), whenever something fresh may be stored for it; that a deleted
  lease leaves the cache (`Settles`); and that a scan for a client without a lease
  has found every earlier address of the pool held (`Passed`), so that its empty
  lease means an exhausted pool. That a granted address is no other client's is
  `Disjoint` of `ExchangeInv`. Then every step is one of `AddressPool` or a
  stutter.
- `WatchedStoreProofs`: `CacheInv` says that the values of a key on their way
  from the store to the cache are in the order of their writes. `Behind`: nothing
  that was read is newer than what is stored or recorded in `lastData`.
  `Ordered`: the PUTs in `entries`, `chan`, `pend` get newer, in this order.
  `Unrecorded`: what `lastData` does not have and the store has is newer than
  everything under way, but for the value `loadInitial` read, which the first
  tick sends again. `Recorded`: the last event under way of a key brings what
  `lastData` holds, which is why no deletion is lost. A faulty scan makes a
  value travel twice; `Before` allows for it. None of the theorems' formulas is
  inductive by itself, since each only looks at the end of that chain.
  `WhatWasSeenArrives` is the safety half of `Converges`: it says what the cache
  holds once nothing is left to do, and fairness only that this happens.
- `LeaseRecordProofs`: `MemInv` describes memory. The record that the cache or a
  handler points to exists, a handler points to one exactly while it works on it
  (`Pointed`), its message fits the place it is at (`Placed`), and nothing moves
  before the watcher has started (`Silent`). So there is always a place
  for a new record (the pigeonhole argument in `FreeIsFree`, for which `Objects` has
  one place more than there are pointers), and what a step does to a record it
  does to no other.
  `Records` are all the copies of the record there are: in memory, in the
  handlers' hands, in the store, in the events. `WorkSpread`, `WatchSpread` and
  `RestSpread` say which new ones a step can make, once for all the invariants
  that speak of every copy. `KindInv`: either all are reservations or none is;
  durations are no negative numbers in the second case, so that no sum of time
  and duration is -1. `ReachInv`: while the client sticks to one name no copy's
  expiry is out of reach, nobody assigns a name, and no duration is an expiry.
  The other three have conditions. `Solo`: until messages overlap, one handler
  works. `WholeInv`: until messages overlap or a second name is used, the only
  torn name is in the record that is being assigned to, so what is marshalled is
  whole. `CalmInv`, until messages overlap or a write fails: what the cache,
  `lastData` and the store have to do with each other at each place of that
  handler. When no event is under way, either the record it works on is the
  cached one, or the cache is what the last tick saw, and what it stores is
  reported by the next tick (`LastEvent`, `NotLost`); so the cache catches up once
  the last tick has seen the store, but for a record that was deleted unseen
  (`orphaned`). `CacheAgrees` says only what is left of it when all is quiet.
  `OutliveInv`, for messages that find the server settled (`ReadyInv`): the stored
  record lasts as long as the client's lease, and so does the one a handler is
  working on, from `Stamp` on for the scope's time from when the client asked
  (`Timely`), which the second `Put` of `createReply` must not undo.
- `ServiceManagerProofs`: `SafeInv` says who owns an instance (`Owned`: nobody
  else is about to insert or to stop it, and it is not in the map). It holds
  however calls overlap and gives two of the theorems. `Sequential` adds what
  holds while they do not: at most one caller is busy, and `Progress` says how the
  map and the instances relate at each place of its call. A step that changes `Live` is then a start from
  nothing up, or a stop.
- `OuiDbProofs`: `OuiInv` says that the blocks are the entries of the file in
  their order (`Origin`). So the first block that contains an address stems from
  the first entry whose block does (`LookupIs`), and which addresses a block
  contains is arithmetic (`ContainsIs`, from `AndAll`, `AndNone` and `Mask24`).
  That a set of line numbers has a least one is the library's well-foundedness
  of `<` (`MinIsLeast`).
- `ReplyRoutingProofs`: the invariant says, between `Choose` and the reply, that
  the interface chosen for a frame or a broadcast is the one the request came
  from, and that a server that knows it gets to the frame only with one; without
  an interface the reply is one of those `LeftToRoutes` names.

The inductive invariants were checked by TLC on instances like those above before
they were proved.

Only proved: `AckedIsStored` and `AckedIsKept` for concurrent handlers (`"patient"`),
and those properties of `LeaseRecord` that survive scans which skip the record
(`CacheAgrees`, `NoTornName`, `ExpiryInReach`) for such scans. Only model-checked:
everything that needs fairness (`Converges`, `RequestsFinish`,
`CallsReturn`), because the provers have no fairness and no `ENABLED`.

## 5. Not modelled, and the plan

Done: every component that decides anything, as listed in section 2, the runs of
section 3 and the theorems of section 4.

Every invariant and every action property of the passing runs is a theorem.
Next, in `DhcpServer`: a release that races with a write of another handler of
the same client, which no property covers yet, and what `"patient"` leaves of
`AssignsLikePool` besides `AcksAreKept`, when clients do not take turns.

Left out, with the reason:

- badger (a transaction is one atomic step), sockets, the bytes of a raw frame
  and logging are I/O.
- The configuration is read once before any goroutine runs, and constants
  stand for it. The mask made of the characters of `"255.255.255.0"`
  (`scope.go:61`) only goes into an option of the reply.
- The options of a reply: nothing fills the scope's options, so the loop over
  them is dead, and the tables of option codes serve nothing else.
- `Delete` of a prefix, `Get` of a single key, `Scope.Put`, `UsableSize`,
  `GetService`: nothing calls them. The `data` command prints the database.
- A failed `ReadFrom`, after which `Serve` returns and the service stays in the
  map, and what a stopped instance, whose socket stays open, goes on answering:
  the program stops a service only when it ends.
- The constructor of a cache entry never fails on what the service itself has
  stored, so the error path of `handleEvent` (`watcher.go:136-140`), which would
  drop an event, is left out.
- `ethernet.go:61-62`: if gopacket cannot decode the packet the code has built
  itself, the error branch asks a nil layer for its type and panics.
  `ReplyRouting` leaves that out.
