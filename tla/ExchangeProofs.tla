--------------------------- MODULE ExchangeProofs ---------------------------
(***************************************************************************)
(* Clients that take turns.  When nothing about another client is on its   *)
(* way while a client's messages are handled, no address is leased twice,  *)
(* even though the messages of one exchange overtake the polling loop.     *)
(* The argument: an address belongs to whoever has it anywhere between the *)
(* local lease of a handler and the cache, and the cache shows all there   *)
(* is of the clients that are quiet.                                       *)
(***************************************************************************)
EXTENDS DhcpServerProofs

OthersQuiet ==
  \A p \in Procs :
    pc[p] # "idle" => \A k \in Clients \ {msg[p].client} : Quiet(k)

\* The last value the polling loop saw of a key is the last that reaches the
\* cache.  (A key it has not seen yet may be in the cache from the initial load.)
LastArrives(k) ==
  \/ \E e \in pend : e.key = k
  \/ \E i \in DOMAIN chan :
       /\ chan[i].key = k /\ chan[i].val = lastData[k]
       /\ \A j \in DOMAIN chan : j > i => chan[j].key # k
  \/ /\ lastData[k] \in {entries[k], NoLease}
     /\ \A j \in DOMAIN chan : chan[j].key # k

Arriving ==
  IF phase = "down" THEN pend = {} /\ chan = <<>> ELSE
    /\ \A e \in pend : e.val = lastData[e.key]
    /\ \A k \in Clients : LastArrives(k)

\* Value v of client k is somewhere between the handler that writes it and the
\* cache.
Carries(k, v) ==
  \/ v = store[k] \/ v = entries[k]
  \/ \E e \in pend : e.key = k /\ e.val = v
  \/ \E i \in DOMAIN chan : chan[i].key = k /\ chan[i].val = v
  \/ \E p \in Procs :
       pc[p] \in {"put", "reply"} /\ msg[p].client = k /\ lease[p] = v

Disjoint ==
  \A k, d \in Clients : k # d =>
    \A v, w \in Lease :
      Carries(k, v) /\ Carries(d, w) => v.addr = NoAddr \/ v.addr # w.addr

\* The inductive invariant.
ExchangeInv == OneAtATime /\ OthersQuiet /\ Arriving /\ Disjoint

(***************************************************************************)
(* Proofs.                                                                 *)
(***************************************************************************)

LEMMA ExchangeInit == Init => ExchangeInv
<1> SUFFICES ASSUME Init PROVE ExchangeInv
  OBVIOUS
<1>1. OneAtATime /\ OthersQuiet /\ Arriving
  BY DEF Init, Watch!WatcherDown, OneAtATime, OthersQuiet, Arriving
<1>2. ASSUME NEW k \in Clients, NEW v \in Lease, Carries(k, v)
      PROVE  k \in Reserved /\ v.addr = Reservations[k]
  <2>1. v # NoLease
    BY ConstantTypes
  <2>2. v = store[k]
    BY <1>2, <2>1 DEF Init, Watch!WatcherDown, Watch!Absent, Carries
  <2> QED BY <2>1, <2>2 DEF Init
<1>3. Disjoint
  BY <1>2, ServerAssumption DEF Disjoint
<1> QED BY <1>1, <1>3 DEF ExchangeInv

(***************************************************************************)
(* The watcher.                                                            *)
(***************************************************************************)

\* Nothing about a client that is quiet starts on its way, the last value seen
\* of every other is still the last to arrive, and no value appears for a
\* client that was not on its way already.
LEMMA WatcherStepExchange ==
  ASSUME TypeOK, Arriving, ~ReadFaults, BenignPrefix,
         Watch!WatchStep \/ Watch!Cancel \/ Watch!Close, UNCHANGED handlerVars
  PROVE  /\ phase # "down" => \A k \in Clients : Quiet(k) => Quiet(k)'
         /\ Arriving'
         /\ \A k \in Clients, v \in Lease : Carries(k, v)' => Carries(k, v)
<1> USE DEF Arriving, LastArrives, Carries, Quiet, handlerVars
<1>0. /\ Watch!Unreadable = {{}} /\ Watch!Snapshot({}) = store
      /\ \A c \in Clients : Accepted(c)
      /\ chan \in Seq(Watch!Event) /\ pend \subseteq Watch!Event
      /\ NoLease \notin Lease
  BY WatcherTypes, ConstantTypes
<1>2. CASE Watch!LoadInitial
  <2>1. /\ \A k \in Clients : entries'[k] = store[k]
        /\ \A k \in Clients : lastData'[k] = NoLease
        /\ phase = "down" /\ UNCHANGED <<store, pend, chan>>
    BY <1>0, <1>2, WatcherTypes DEF Watch!LoadInitial, Watch!Absent
  <2> QED BY <2>1
<1>3. CASE Watch!Tick
  <2>1. /\ pend = {} /\ pend' = Watch!Diff(lastData, store) /\ lastData' = store
        /\ UNCHANGED <<store, entries, chan, phase>>
    BY <1>0, <1>3 DEF Watch!Tick
  <2>2. \A e \in pend' : /\ e.key \in Clients /\ e.val = store[e.key]
                         /\ lastData[e.key] # store[e.key]
    BY <2>1 DEF Watch!Diff
  <2>3. ASSUME NEW k \in Clients, lastData[k] # store[k]
        PROVE  \E e \in pend' : e.key = k
    <3>1. [key |-> k, val |-> store[k]] \in pend'
      BY <2>1, <2>3 DEF Watch!Diff
    <3> QED BY <3>1
  <2>4. \A k \in Clients : Quiet(k) => Quiet(k)'
    BY <2>1, <2>2
  <2>5. Arriving'
    <3>1. ASSUME NEW k \in Clients, lastData[k] = store[k], LastArrives(k)
          PROVE  LastArrives(k)'
      BY <2>1, <3>1
    <3> QED BY <2>1, <2>2, <2>3, <3>1, <1>3 DEF Watch!Tick
  <2>6. \A k \in Clients, v \in Lease : Carries(k, v)' => Carries(k, v)
    BY <2>1, <2>2
  <2> QED BY <2>4, <2>5, <2>6
<1>4. CASE \E e \in pend : Watch!Send(e)
  <2> PICK e \in pend : Watch!Send(e)
    BY <1>4
  <2>1. /\ chan' = Append(chan, e) /\ e \in Watch!Event /\ pend' = pend \ {e}
        /\ UNCHANGED <<store, entries, lastData, phase>>
    BY <1>0 DEF Watch!Send
  <2>2. /\ DOMAIN chan' = DOMAIN chan \cup {Len(chan) + 1}
        /\ \A i \in DOMAIN chan : chan'[i] = chan[i] /\ i < Len(chan) + 1
        /\ chan'[Len(chan) + 1] = e
    BY <1>0, <2>1
  <2>3. \A k \in Clients : Quiet(k) => Quiet(k)'
    BY <2>1, <2>2
  <2>4. ASSUME NEW k \in Clients, phase # "down"
        PROVE  LastArrives(k)'
    <3>1. CASE e.key = k
      <4>1. /\ chan'[Len(chan) + 1].key = k
            /\ chan'[Len(chan) + 1].val = lastData'[k]
        BY <2>1, <2>2, <2>4, <3>1
      <4>2. \A j \in DOMAIN chan' : ~(j > Len(chan) + 1)
        BY <1>0, <2>1
      <4> QED BY <2>2, <4>1, <4>2
    <3>2. CASE e.key # k
      BY <2>1, <2>2, <2>4, <3>2
    <3> QED BY <3>1, <3>2
  <2>5. \A k \in Clients, v \in Lease : Carries(k, v)' => Carries(k, v)
    BY <2>1, <2>2
  <2> QED BY <2>1, <2>3, <2>4, <2>5
<1>5. CASE Watch!Deliver
  <2>1. /\ chan # <<>> /\ chan' = Tail(chan) /\ Head(chan) = chan[1]
        /\ Head(chan) \in Watch!Event
        /\ UNCHANGED <<store, lastData, pend, phase>>
    BY <1>0, <1>5 DEF Watch!Deliver
  <2>2. \A i \in DOMAIN chan' : i + 1 \in DOMAIN chan /\ chan'[i] = chan[i + 1]
    BY <1>0, <2>1
  <2>3. \A i \in DOMAIN chan :
          i = 1 \/ (i - 1 \in DOMAIN chan' /\ chan'[i - 1] = chan[i])
    BY <1>0, <2>1
  <2>4. 1 \in DOMAIN chan /\ DOMAIN chan \subseteq Nat /\ DOMAIN chan' \subseteq Nat
        /\ chan[1].key \in Clients
    BY <1>0, <2>1 DEF Watch!Event
  <2>5. \A k \in Clients :
          entries'[k] = IF k = chan[1].key THEN chan[1].val ELSE entries[k]
    BY <1>0, <1>5, <2>1, <2>4, WatcherTypes DEF Watch!Deliver, Watch!HandleEvent
  <2>6. \A k \in Clients : Quiet(k) => Quiet(k)'
    BY <2>1, <2>2
  <2>7. ASSUME NEW k \in Clients, phase # "down"
        PROVE  LastArrives(k)'
    <3>1. LastArrives(k)
      BY <2>7
    <3>2. CASE \E f \in pend : f.key = k
      BY <2>1, <3>2
    <3>3. ASSUME NEW i \in DOMAIN chan, chan[i].key = k, chan[i].val = lastData[k],
                 \A j \in DOMAIN chan : j > i => chan[j].key # k
          PROVE  LastArrives(k)'
      <4>1. CASE i = 1
        <5>1. \A j \in DOMAIN chan' : chan'[j].key # k
          <6>1. \A j \in DOMAIN chan' : j \in 1..Len(chan') /\ j + 1 > 1
            BY <1>0, <2>1
          <6> QED BY <2>2, <3>3, <4>1, <6>1
        <5>2. entries'[k] = lastData'[k]
          BY <2>1, <2>5, <3>3, <4>1
        <5> QED BY <5>1, <5>2
      <4>2. CASE i # 1
        <5>1. /\ i - 1 \in DOMAIN chan' /\ chan'[i - 1] = chan[i]
          BY <2>3, <4>2
        <5>2. \A j \in DOMAIN chan' : j > i - 1 => chan'[j].key # k
          <6>1. \A j \in DOMAIN chan' : j > i - 1 => j + 1 > i
            BY <2>4
          <6> QED BY <2>2, <3>3, <6>1
        <5> QED BY <2>1, <3>3, <5>1, <5>2
      <4> QED BY <4>1, <4>2
    <3>4. CASE /\ lastData[k] \in {entries[k], NoLease}
               /\ \A j \in DOMAIN chan : chan[j].key # k
      BY <2>1, <2>2, <2>4, <2>5, <3>4
    <3> QED BY <3>1, <3>2, <3>3, <3>4
  <2>8. Arriving'
    BY <2>1, <2>7
  <2>9. \A k \in Clients, v \in Lease : Carries(k, v)' => Carries(k, v)
    BY <2>1, <2>2, <2>4, <2>5
  <2> QED BY <2>6, <2>8, <2>9
<1>6. CASE Watch!Cancel
  BY <1>6 DEF Watch!Cancel
<1>7. CASE Watch!Close
  BY <1>7 DEF Watch!Close
<1> QED BY <1>2, <1>3, <1>4, <1>5, <1>6, <1>7 DEF Watch!WatchStep

(***************************************************************************)
(* The handlers.                                                           *)
(***************************************************************************)

\* A running handler has its client, and the service runs.
LEMMA Working ==
  ASSUME LocalsOK, ProperInv, NEW p \in Procs, Work(p)
  PROVE  pc[p] # "idle" /\ phase # "down" /\ msg[p].client \in Clients
<1>1. pc[p] # "idle"
  BY DEF Work, FindLease, CheckAddress, RecheckAddress, LockIpam,
         ScanExhausted, MarkInvalid, PutLease, Rename, SendReply, DeleteLease
<1> QED BY <1>1 DEF LocalsOK, HasLocals, Message, ProperInv, HandlerProper

\* A handler writes the lease of its own client, with a value of that client.
LEMMA WorkWrites ==
  ASSUME TypeOK, NEW p \in Procs, msg[p].client \in Clients, Work(p)
  PROVE  /\ \A k \in Clients \ {msg[p].client} : store'[k] = store[k]
         /\ \A v \in Lease : store'[msg[p].client] = v => Carries(msg[p].client, v)
<1> DEFINE c == msg[p].client
<1>1. CASE pc[p] \in {"put", "reply"} /\ Write(p)
  <2>1. \/ store' = store
        \/ \A k \in Clients : store'[k] = IF k = c THEN lease[p] ELSE store[k]
    BY <1>1, ProperType DEF Write, Watch!Put
  <2> QED BY <1>1, <2>1 DEF Carries
<1>2. CASE DeleteLease(p)
  <2>1. \/ store' = store
        \/ \A k \in Clients : store'[k] = IF k = c THEN NoLease ELSE store[k]
    BY <1>2, ProperType DEF DeleteLease, Watch!Delete
  <2> QED BY <2>1, ConstantTypes DEF Carries
<1>3. CASE store' = store
  BY <1>3 DEF Carries
<1> QED
  BY <1>1, <1>2, <1>3
     DEF Work, FindLease, CheckAddress, RecheckAddress, LockIpam,
         ScanExhausted, MarkInvalid, PutLease, Rename, SendReply

\* The cache shows everything there is of a quiet client.
LEMMA QuietIsShown ==
  ASSUME OneAtATime, Arriving, phase # "down", NEW p \in Procs, pc[p] # "idle",
         NEW k \in Clients, Quiet(k), k # msg[p].client,
         NEW v \in Lease, Carries(k, v)
  PROVE  entries[k] = v
<1>1. store[k] # NoLease => entries[k] = store[k]
  BY DEF Arriving, LastArrives, Quiet
<1>2. \A q \in Procs : pc[q] \in {"put", "reply"} => q = p
  BY DEF OneAtATime
<1> QED BY <1>1, <1>2, ConstantTypes DEF Carries, Quiet

\* An address that passes the second look of IsIPFree is nobody else's.
LEMMA FreeAddressIsUnclaimed ==
  ASSUME TypeOK, ExchangeInv, BenignPrefix, phase # "down",
         NEW p \in Procs, pc[p] # "idle", msg[p].client \in Clients, NEW a,
         \/ Holders(a) = {}
         \/ \E d \in Holders(a) : Identifier(d) = <<msg[p].client>>,
         NEW k \in Clients \ {msg[p].client}, NEW v \in Lease, Carries(k, v)
  PROVE  a = NoAddr \/ v.addr # a
<1>1. entries[k] = v
  BY QuietIsShown DEF ExchangeInv, OthersQuiet
<1>2. CASE Holders(a) = {}
  BY <1>1, <1>2, ConstantTypes DEF Holders
<1>3. CASE \E d \in Holders(a) : Identifier(d) = <<msg[p].client>>
  <2> PICK d \in Holders(a) : Identifier(d) = <<msg[p].client>>
    BY <1>3
  <2>1. d = msg[p].client
    BY IdentifierIsId
  <2>2. entries[d] \in Lease /\ entries[d].addr = a /\ Carries(d, entries[d])
    BY <2>1, ProperType DEF Holders, Carries
  <2> QED BY <2>1, <2>2 DEF ExchangeInv, Disjoint
<1> QED BY <1>2, <1>3

\* The lease a handler stores is its client's already, unless it has just been
\* made, with an address nobody else has or with none.
LEMMA WorkLease ==
  ASSUME TypeOK, LocalsOK, ProperInv, ExchangeInv, BenignPrefix,
         NEW p \in Procs, Work(p), pc'[p] \in {"put", "reply"}
  PROVE  \/ Carries(msg[p].client, lease'[p])
         \/ \A k \in Clients \ {msg[p].client}, w \in Lease :
              Carries(k, w) => lease'[p].addr = NoAddr \/ w.addr # lease'[p].addr
<1> DEFINE c == msg[p].client
<1>1. pc[p] # "idle" /\ phase # "down" /\ c \in Clients
  BY Working
<1>2. ASSUME NEW a, Allocated(p, a)
      PROVE  lease'[p].addr = a
  BY <1>2 DEF Allocated, TypeOK
<1>3. ASSUME Finish(p) PROVE FALSE
  BY <1>3 DEF Finish, Goto, TypeOK
<1>4. ASSUME Reject(p) PROVE FALSE
  BY <1>4 DEF Reject, Goto, TypeOK
<1>5. CASE FindLease(p)
  <2>1. CASE FoundNone(p)
    BY <1>3, <2>1 DEF FoundNone, Goto, TypeOK
  <2>2. ASSUME NEW l \in Lookup(c), Found(p, l)
        PROVE  Carries(c, lease'[p])
    <3>1. l = entries[c]
      BY <1>1, LookupIsEntry
    <3>2. lease'[p] = l
      BY <1>3, <2>2 DEF Found, TypeOK
    <3> QED BY <3>1, <3>2 DEF Carries
  <2> QED BY <1>5, <2>1, <2>2 DEF FindLease
<1>6. CASE CheckAddress(p)
  <2>1. ~OwnHit(c, cand[p])
    BY <1>1, NoOwnHit
  <2> QED BY <1>4, <1>6, <2>1 DEF CheckAddress, Goto, TypeOK
<1>7. CASE RecheckAddress(p)
  <2>1. /\ Allocated(p, cand[p])
        /\ \/ Holders(cand[p]) = {}
           \/ \E d \in Holders(cand[p]) : Identifier(d) = <<c>>
    BY <1>4, <1>7 DEF RecheckAddress, Accept
  <2>2. lease'[p].addr = cand[p]
    BY <1>2, <2>1
  <2> QED BY <1>1, <2>1, <2>2, FreeAddressIsUnclaimed
<1>8. CASE LockIpam(p)
  BY <1>8 DEF LockIpam, Goto, TypeOK
<1>9. CASE ScanExhausted(p)
  BY <1>2, <1>9 DEF ScanExhausted
<1>10. CASE MarkInvalid(p) \/ SendReply(p) \/ DeleteLease(p)
  BY <1>3, <1>10 DEF MarkInvalid, SendReply, DeleteLease
<1>11. CASE PutLease(p)
  BY <1>3, <1>11 DEF PutLease, Carries
<1>12. CASE Rename(p)
  BY <1>12 DEF Rename, Goto, TypeOK
<1> QED BY <1>5, <1>6, <1>7, <1>8, <1>9, <1>10, <1>11, <1>12 DEF Work

LEMMA WorkMessage ==
  ASSUME TypeOK, NEW p \in Procs, Work(p)
  PROVE  pc'[p] # "idle" => msg'[p] = msg[p]
BY DEF TypeOK, Work, FindLease, FoundNone, Found, CheckAddress,
   RecheckAddress, Accept, Reject, Allocated, LockIpam, ScanExhausted,
   MarkInvalid, PutLease, Rename, SendReply, DeleteLease, Finish, Goto

LEMMA WorkExchange ==
  ASSUME TypeOK, LocalsOK, ProperInv, ExchangeInv, BenignPrefix,
         NEW p \in Procs, Work(p)
  PROVE  ExchangeInv'
<1> DEFINE c == msg[p].client
<1>1. pc[p] # "idle" /\ phase # "down" /\ c \in Clients
  BY Working
<1>2. \A q \in Procs \ {p} : pc[q] = "idle" /\ pc'[q] = "idle"
  BY <1>1, OtherHandlers DEF ExchangeInv, OneAtATime
<1>3. OneAtATime'
  BY <1>2 DEF OneAtATime
<1>4. UNCHANGED watchVars
  BY WorkLeavesWatcher
<1>5. OthersQuiet'
  <2>1. \A k \in Clients \ {c} : Quiet(k)'
    BY <1>1, <1>4, WorkWrites DEF ExchangeInv, OthersQuiet, Quiet, watchVars
  <2> QED BY <1>2, <2>1, WorkMessage DEF OthersQuiet
<1>6. Arriving'
  BY <1>4 DEF ExchangeInv, Arriving, LastArrives, watchVars
<1>7. ASSUME NEW k \in Clients, NEW v \in Lease, Carries(k, v)'
      PROVE  \/ Carries(k, v)
             \/ /\ k = c
                /\ \A d \in Clients \ {c}, w \in Lease :
                     Carries(d, w) => v.addr = NoAddr \/ w.addr # v.addr
  <2>1. CASE v = store'[k]
    BY <1>1, <2>1, WorkWrites DEF Carries
  <2>2. CASE \E q \in Procs :
               pc'[q] \in {"put", "reply"} /\ msg'[q].client = k /\ lease'[q] = v
    BY <1>2, <2>2, WorkMessage, WorkLease
  <2>3. CASE \/ v = entries[k]
             \/ \E e \in pend : e.key = k /\ e.val = v
             \/ \E i \in DOMAIN chan : chan[i].key = k /\ chan[i].val = v
    BY <2>3 DEF Carries
  <2> QED BY <1>4, <1>7, <2>1, <2>2, <2>3 DEF Carries, watchVars
<1>8. Disjoint'
  BY <1>7 DEF ExchangeInv, Disjoint
<1> QED BY <1>3, <1>5, <1>6, <1>8 DEF ExchangeInv

(***************************************************************************)
(* The whole server.                                                       *)
(***************************************************************************)

LEMMA ReceiveExchange ==
  ASSUME TypeOK, ExchangeInv, Pacing \in {"exchange", "offer"},
         NEW p \in Procs, NEW m \in Message, Receive(p, m)
  PROVE  ExchangeInv'
<1>1. Settled(Clients \ {m.client})
  BY DEF Receive, InPace, Settled
<1>2. /\ \A q \in Procs \ {p} : pc'[q] = "idle"
      /\ pc'[p] = "find" /\ msg'[p] = m
  BY <1>1 DEF Settled, Receive, Goto, TypeOK
<1>3. UNCHANGED <<store, watchVars>>
  BY DEF Receive
<1>4. OneAtATime' /\ OthersQuiet'
  BY <1>1, <1>2, <1>3 DEF OneAtATime, OthersQuiet, Settled, Quiet, watchVars
<1>5. Arriving'
  BY <1>3 DEF ExchangeInv, Arriving, LastArrives, watchVars
<1>6. \A k \in Clients, v \in Lease : Carries(k, v)' => Carries(k, v)
  BY <1>2, <1>3 DEF Carries, watchVars
<1>7. Disjoint'
  BY <1>6 DEF ExchangeInv, Disjoint
<1> QED BY <1>4, <1>5, <1>7 DEF ExchangeInv

LEMMA ExchangeNext ==
  ASSUME Pacing \in {"exchange", "offer"}, BenignPrefix, ~ReadFaults
  PROVE  TypeOK /\ LocalsOK /\ ProperInv /\ ExchangeInv /\ [Next]_vars
           => ExchangeInv'
<1> SUFFICES ASSUME TypeOK, LocalsOK, ProperInv, ExchangeInv, [Next]_vars
             PROVE  ExchangeInv'
  OBVIOUS
<1>1. CASE \E p \in Procs, m \in Message : Receive(p, m)
  BY <1>1, ReceiveExchange
<1>2. CASE \E p \in Procs : Work(p)
  BY <1>2, WorkExchange
<1>3. CASE WatchStep \/ Stop
  <2>1. UNCHANGED handlerVars
    BY <1>3 DEF WatchStep, Stop
  <2>2. /\ phase # "down" => \A k \in Clients : Quiet(k) => Quiet(k)'
        /\ Arriving'
        /\ \A k \in Clients, v \in Lease : Carries(k, v)' => Carries(k, v)
    BY <1>3, <2>1, WatcherStepExchange DEF WatchStep, Stop, ExchangeInv
  <2>3. OneAtATime' /\ OthersQuiet'
    BY <2>1, <2>2
       DEF ExchangeInv, OneAtATime, OthersQuiet, ProperInv, HandlerProper, handlerVars
  <2>4. Disjoint'
    BY <2>2 DEF ExchangeInv, Disjoint
  <2> QED BY <2>2, <2>3, <2>4 DEF ExchangeInv
<1>4. CASE Crash
  <2>1. /\ store' = store /\ entries' = Watch!Absent /\ phase' = "down"
        /\ pend' = {} /\ chan' = <<>> /\ pc' = [p \in Procs |-> "idle"]
    BY <1>4 DEF Crash, Watch!Exit
  <2>2. OneAtATime' /\ OthersQuiet' /\ Arriving'
    BY <2>1 DEF OneAtATime, OthersQuiet, Arriving
  <2>3. \A k \in Clients, v \in Lease : Carries(k, v)' => Carries(k, v)
    BY <2>1, ConstantTypes DEF Carries, Watch!Absent
  <2>4. Disjoint'
    BY <2>3 DEF ExchangeInv, Disjoint
  <2> QED BY <2>2, <2>4 DEF ExchangeInv
<1>5. CASE UNCHANGED vars
  BY <1>5 DEF vars, ExchangeInv, OneAtATime, OthersQuiet, Quiet, Arriving,
              LastArrives, Disjoint, Carries
<1> QED BY <1>1, <1>2, <1>3, <1>4, <1>5 DEF Next

\* As long as clients take turns, no address is leased to two of them, however
\* fast the messages of one exchange come, whatever writes fail, and wherever
\* the service stops or crashes.
THEOREM NoDuplicates ==
  ASSUME Pacing \in {"exchange", "offer"}, BenignPrefix, ~ReadFaults
  PROVE  Spec => []NoDuplicateLease
<1> DEFINE Inv == TypeOK /\ LocalsOK /\ ProperInv /\ ExchangeInv
<1>1. Init => Inv
  BY TypeInit, ProperInit, ExchangeInit DEF Init, LocalsOK, HasLocals
<1>2. Inv /\ [Next]_vars => Inv'
  BY TypeNext, ProperNext, ExchangeNext
<1>3. Inv => NoDuplicateLease
  BY ProperType DEF ExchangeInv, Disjoint, Carries, NoDuplicateLease
<1> QED BY <1>1, <1>2, <1>3, PTL DEF Spec

=============================================================================
