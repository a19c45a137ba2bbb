-------------------------- MODULE DhcpServerProofs --------------------------
(***************************************************************************)
(* Theorems about DhcpServer for any number of clients, goroutines and     *)
(* addresses.  First what the lease keys come to when the storage client   *)
(* has no prefix, or the prefix "/": the three parties that build keys     *)
(* agree.  Then what holds under any interleaving: type correctness, which *)
(* addresses new leases have, and that reservations are untouchable.       *)
(***************************************************************************)
EXTENDS DhcpServer, SequenceTheorems, TLAPS

\* The client prefixes under which getFullKey leaves a lease key as it is.
BenignPrefix == ClientPrefix \in {<<>>, <<SEP>>}

\* How to recognise a part of a string.
LEMMA SubSeqIs ==
  ASSUME NEW S, NEW s \in Seq(S), NEW m \in Nat \ {0}, NEW n \in Nat,
         m <= n, n <= Len(s),
         NEW u \in Seq(S), Len(u) = n - m + 1,
         \A i \in 1..Len(u) : u[i] = s[m + i - 1]
  PROVE  SubSeq(s, m, n) = u
<1>1. \A i \in m..n : s[i] \in S OBVIOUS
<1>2. /\ SubSeq(s, m, n) \in Seq(S)
      /\ Len(SubSeq(s, m, n)) = n - m + 1
      /\ \A i \in 1..n - m + 1 : SubSeq(s, m, n)[i] = s[m + i - 1]
  BY <1>1, SubSeqProperties
<1> DEFINE t == SubSeq(s, m, n)
<1>3. t \in Seq(S) /\ Len(t) = Len(u) BY <1>2
<1>4. \A i \in 1..Len(t) : t[i] = u[i] BY <1>2
<1> HIDE DEF t
<1>5. t = u BY <1>3, <1>4, SeqEqual
<1> QED BY <1>5 DEF t

(***************************************************************************)
(* The keys.                                                               *)
(***************************************************************************)

\* The six parts of a lease key.
LEMMA LeaseKeyParts ==
  ASSUME NEW id
  PROVE  /\ LeaseKey(id) \in Seq({SEP, "dhcp", "leases", id})
         /\ Len(LeaseKey(id)) = 6
         /\ LeaseKey(id)[1] = SEP /\ LeaseKey(id)[2] = "dhcp"
         /\ LeaseKey(id)[3] = SEP /\ LeaseKey(id)[4] = "leases"
         /\ LeaseKey(id)[5] = SEP /\ LeaseKey(id)[6] = id
<1> DEFINE parts == <<"dhcp", "leases", id>>
           f == [i \in 1..6 |-> IF i % 2 = 1 THEN SEP ELSE parts[i \div 2]]
<1>1. Len(parts) = 3 OBVIOUS
<1>2. LeaseKey(id) = f BY <1>1 DEF LeaseKey, KeyString
<1>3. /\ f[1] = SEP /\ f[2] = parts[1] /\ f[3] = SEP
      /\ f[4] = parts[2] /\ f[5] = SEP /\ f[6] = parts[3]
  <2>1. /\ 1 % 2 = 1 /\ 2 % 2 = 0 /\ 3 % 2 = 1 /\ 4 % 2 = 0 /\ 5 % 2 = 1 /\ 6 % 2 = 0
        /\ 2 \div 2 = 1 /\ 4 \div 2 = 2 /\ 6 \div 2 = 3
    OBVIOUS
  <2> QED BY <2>1
<1>4. f \in Seq({SEP, "dhcp", "leases", id})
  <2>1. f \in [1..6 -> {SEP, "dhcp", "leases", id}] BY <1>3
  <2> QED BY <2>1
<1>5. Len(f) = 6 BY <1>4
<1> QED BY <1>2, <1>3, <1>4, <1>5

\* The five parts of the watched prefix.
LEMMA WatchKeyParts ==
  /\ WatchKey \in Seq({SEP, "dhcp", "leases"})
  /\ Len(WatchKey) = 5
  /\ WatchKey[1] = SEP /\ WatchKey[2] = "dhcp" /\ WatchKey[3] = SEP
  /\ WatchKey[4] = "leases" /\ WatchKey[5] = SEP
<1> DEFINE parts == <<"dhcp", "leases">>
           f == [i \in 1..5 |-> IF i % 2 = 1 THEN SEP ELSE parts[i \div 2]]
<1>1. Len(parts) = 2 OBVIOUS
<1>2. WatchKey = f BY <1>1 DEF WatchKey, KeyString
<1>3. /\ f[1] = SEP /\ f[2] = parts[1] /\ f[3] = SEP
      /\ f[4] = parts[2] /\ f[5] = SEP
  <2>1. /\ 1 % 2 = 1 /\ 2 % 2 = 0 /\ 3 % 2 = 1 /\ 4 % 2 = 0 /\ 5 % 2 = 1
        /\ 2 \div 2 = 1 /\ 4 \div 2 = 2
    OBVIOUS
  <2> QED BY <2>1
<1>4. f \in Seq({SEP, "dhcp", "leases"})
  <2>1. f \in [1..5 -> {SEP, "dhcp", "leases"}] BY <1>3
  <2> QED BY <2>1
<1>5. Len(f) = 5 BY <1>4
<1> QED BY <1>2, <1>3, <1>4, <1>5

\* The storage client leaves a key that starts with the separator as it is.
LEMMA FullKeyIsKey ==
  ASSUME BenignPrefix, NEW S, SEP \in S, NEW k \in Seq(S),
         Len(k) >= 2, k[1] = SEP
  PROVE  FullKey(k) = k
<1>1. CASE ClientPrefix = <<>>
  BY <1>1 DEF FullKey
<1>2. CASE ClientPrefix = <<SEP>>
  <2> DEFINE s == <<SEP>>
             n == Len(k)
             t == SubSeq(k, 2, n)
  <2>1. s \in Seq(S) /\ Len(s) = 1 /\ s[1] = SEP /\ n \in Nat OBVIOUS
  <2>4. SubSeq(s, 2, 1) = <<>> BY SubSeqEmpty
  <2> HIDE DEF s
  <2>0. \A i \in 1..Len(s) : s[i] = s[1 + i - 1] /\ s[i] = k[1 + i - 1]
    BY <2>1
  <2>2. SubSeq(s, 1, 1) = s BY <2>0, <2>1, SubSeqIs
  <2>3. SubSeq(k, 1, 1) = s BY <2>0, <2>1, SubSeqIs
  <2>5. TrimPrefix(s, s) = <<>> BY <2>1, <2>2, <2>4 DEF TrimPrefix
  <2>6. TrimPrefix(k, s) = t BY <2>1, <2>3 DEF TrimPrefix
  <2>7. <<>> \o s \o t = k
    <3>1. /\ t \in Seq(S) /\ Len(t) = n - 1
          /\ \A i \in 1..n - 1 : t[i] = k[i + 1]
      BY <2>1, SubSeqProperties
    <3> HIDE DEF t
    <3> DEFINE w == s \o t
    <3>2. <<>> \o s = s BY <2>1
    <3>3. /\ w \in Seq(S) /\ Len(w) = n
          /\ \A i \in 1..n : w[i] = IF i <= 1 THEN s[i] ELSE t[i - 1]
      <4>1. Len(s) + Len(t) = n BY <2>1, <3>1
      <4>2. /\ w \in Seq(S) /\ Len(w) = Len(s) + Len(t)
            /\ \A i \in 1..Len(s) + Len(t) :
                 w[i] = IF i <= Len(s) THEN s[i] ELSE t[i - Len(s)]
        <5>1. s \in Seq(S) /\ t \in Seq(S) BY <2>1, <3>1
        <5> QED BY ONLY <5>1, ConcatProperties, Zenon
      <4> HIDE DEF w
      <4> QED BY <2>1, <4>1, <4>2
    <3> HIDE DEF w
    <3>4. \A i \in 1..n : w[i] = k[i] BY <2>1, <3>1, <3>3
    <3>5. w = k BY <3>3, <3>4, SeqEqual
    <3> QED BY <3>2, <3>5 DEF w
  <2>8. ClientPrefix # <<>> BY <1>2
  <2> QED BY <1>2, <2>5, <2>6, <2>7, <2>8 DEF FullKey, s
<1> QED BY <1>1, <1>2 DEF BenignPrefix

\* Lease.Put stores a lease under the key its handler built.
LEMMA EntryKeyIsLeaseKey ==
  ASSUME BenignPrefix, NEW id
  PROVE  EntryKey(id) = LeaseKey(id)
<1> DEFINE k == LeaseKey(id)
           S == {SEP, "dhcp", "leases", id}
<1>1. SEP \in S /\ k \in Seq(S) /\ Len(k) >= 2 /\ k[1] = SEP BY LeaseKeyParts
<1> HIDE DEF k, S
<1>2. FullKey(k) = k BY <1>1, FullKeyIsKey
<1> QED BY <1>2 DEF EntryKey, k

\* FindLease looks up the lease of the client it was asked for and no other.
LEMMA LookupKey ==
  ASSUME BenignPrefix, NEW c, NEW d
  PROVE  EntryKey(d) = LeaseKey(c) <=> d = c
<1>1. LeaseKey(c)[6] = c /\ LeaseKey(d)[6] = d BY LeaseKeyParts
<1> QED BY <1>1, EntryKeyIsLeaseKey

\* IsIPFree's lookup of a bare identifier finds nothing.
LEMMA BareKeyMisses ==
  ASSUME BenignPrefix, NEW c, NEW d
  PROVE  EntryKey(d) # <<c>>
<1>1. Len(LeaseKey(d)) = 6 BY LeaseKeyParts
<1>2. Len(<<c>>) = 1 OBVIOUS
<1> QED BY <1>1, <1>2, EntryKeyIsLeaseKey

\* leaseFromKV recovers the identifier a lease was stored under.
LEMMA IdentifierIsId ==
  ASSUME BenignPrefix, NEW id
  PROVE  Identifier(id) = <<id>>
<1> DEFINE S == {SEP, "dhcp", "leases", id}
           k == LeaseKey(id)
           u == <<id>>
<1>1. /\ k \in Seq(S) /\ Len(k) = 6
      /\ k[1] = SEP /\ k[2] = "dhcp" /\ k[3] = SEP
      /\ k[4] = "leases" /\ k[5] = SEP /\ k[6] = id
  BY LeaseKeyParts
<1>2. WatchKey \in Seq(S) BY WatchKeyParts
<1>3. u \in Seq(S) /\ Len(u) = 1 /\ u[1] = id OBVIOUS
<1> HIDE DEF k, u, S
<1>4. SubSeq(k, 1, 5) = WatchKey BY <1>1, <1>2, WatchKeyParts, SubSeqIs
<1>5. SubSeq(k, 6, 6) = u BY <1>1, <1>3, SubSeqIs
<1>6. TrimPrefix(k, WatchKey) = u
  BY <1>1, <1>4, <1>5, WatchKeyParts DEF TrimPrefix
<1> QED BY <1>6, EntryKeyIsLeaseKey DEF Identifier, k, u

\* The watcher sees the lease of every client.
LEMMA EveryLeaseAccepted ==
  ASSUME BenignPrefix, NEW id, id # SEP
  PROVE  Accepted(id)
<1> DEFINE k == LeaseKey(id)
           S == {SEP, "dhcp", "leases", id}
<1>1. /\ k \in Seq(S) /\ Len(k) = 6
      /\ k[1] = SEP /\ k[2] = "dhcp" /\ k[3] = SEP
      /\ k[4] = "leases" /\ k[5] = SEP /\ k[6] = id
  BY LeaseKeyParts
<1>2. WatchKey \in Seq(S) BY WatchKeyParts
<1>3. FullKey(WatchKey) = WatchKey BY WatchKeyParts, FullKeyIsKey
<1> HIDE DEF k, S
<1>4. SubSeq(k, 1, 5) = WatchKey BY <1>1, <1>2, WatchKeyParts, SubSeqIs
<1>5. Scanned(id)
  BY <1>1, <1>3, <1>4, WatchKeyParts, EntryKeyIsLeaseKey DEF Scanned, k
<1>6. \A i \in DOMAIN Identifier(id) : Identifier(id)[i] # SEP
  BY IdentifierIsId
<1> QED BY <1>5, <1>6 DEF Accepted

(***************************************************************************)
(* Type correctness.                                                       *)
(***************************************************************************)

\* The constants, unfolded once.
LEMMA ConstantTypes ==
  /\ TopAddr \in Nat \ {0} /\ RangeStart \in 1..TopAddr /\ RangeEnd \in 1..TopAddr
  /\ Subnet \subseteq 1..TopAddr
  /\ Wants \subseteq Addr /\ NoAddr \in Wants /\ NoAddr \in Addr
  /\ Reserved \subseteq Clients
  /\ \A c \in Reserved : Reservations[c] \in Addr /\ Reservations[c] # NoAddr
  /\ NoLease \notin Lease /\ NoLease \notin Addr /\ NoMsg \notin Message
BY IpamAssumption, ServerAssumption DEF NoAddr, Addr

\* The zero address comes after the last one, so scanning stays in Addr.
LEMMA NextAddrType == ASSUME NEW a \in Addr PROVE NextAddr(a) \in Addr
BY ConstantTypes DEF NextAddr, Addr, NoAddr

LEMMA TypeInit == Init => TypeOK
<1> SUFFICES ASSUME Init PROVE TypeOK
  OBVIOUS
<1>1. store \in [Clients -> Lease \cup {NoLease}]
  BY ConstantTypes DEF Init, Lease
<1>2. Watch!WatcherTypeOK
  BY <1>1 DEF Init, Watch!WatcherDown, Watch!WatcherTypeOK, Watch!Held,
              Watch!Absent, Watch!Event
<1>3. /\ pc \in [Procs -> PCs]
      /\ msg \in [Procs -> Message \cup {NoMsg}]
      /\ lease \in [Procs -> Lease \cup {NoLease}]
      /\ fresh \in [Procs -> BOOLEAN]
      /\ cand \in [Procs -> Addr]
      /\ acked \in [Clients -> Addr]
  BY ConstantTypes DEF Init, PCs
<1> QED BY <1>2, <1>3 DEF TypeOK

\* A step of the watcher keeps the types of what the watcher owns.
LEMMA WatcherStepType ==
  ASSUME Watch!WatcherTypeOK,
         Watch!WatchStep \/ Watch!Cancel \/ Watch!Close \/ Watch!Exit
  PROVE  Watch!WatcherTypeOK'
<1> USE DEF Watch!WatcherTypeOK
<1> DEFINE Held == Lease \cup {NoLease}
<1>1. Watch!Held = Held /\ Watch!Event = [key : Clients, val : Held]
  BY DEF Watch!Held, Watch!Event
<1>2. \A bad : Watch!Snapshot(bad) \in [Clients -> Held]
  BY <1>1 DEF Watch!Snapshot
<1>3. Watch!Absent \in [Clients -> Held]
  BY DEF Watch!Absent
<1> HIDE DEF Held
<1>4. CASE Watch!LoadInitial
  BY <1>1, <1>2, <1>3, <1>4 DEF Watch!LoadInitial, Held
<1>5. CASE Watch!Tick
  <2> PICK bad \in Watch!Unreadable :
        /\ lastData' = Watch!Snapshot(bad)
        /\ pend' = Watch!Diff(lastData, Watch!Snapshot(bad))
    BY <1>5 DEF Watch!Tick
  <2>1. pend' \subseteq Watch!Event
    BY <1>1, <1>2 DEF Watch!Diff
  <2> QED BY <1>1, <1>2, <1>5, <2>1 DEF Watch!Tick
<1>6. CASE \E e \in pend : Watch!Send(e)
  BY <1>1, <1>6 DEF Watch!Send
<1>7. CASE Watch!Deliver
  <2>1. Head(chan) \in Watch!Event /\ Tail(chan) \in Seq(Watch!Event)
    BY <1>7 DEF Watch!Deliver
  <2>2. Watch!HandleEvent(entries, Head(chan)) \in [Clients -> Held]
    BY <1>1, <2>1 DEF Watch!HandleEvent
  <2> QED BY <1>1, <1>7, <2>1, <2>2 DEF Watch!Deliver
<1>8. CASE Watch!Cancel
  BY <1>1, <1>8 DEF Watch!Cancel
<1>9. CASE Watch!Close
  BY <1>1, <1>9 DEF Watch!Close
<1>10. CASE Watch!Exit
  BY <1>1, <1>3, <1>10 DEF Watch!Exit
<1> QED BY <1>4, <1>5, <1>6, <1>7, <1>8, <1>9, <1>10 DEF Watch!WatchStep

LEMMA ReceiveType ==
  ASSUME TypeOK, NEW p \in Procs, NEW m \in Message, Receive(p, m)
  PROVE  TypeOK'
<1>1. Watch!WatcherTypeOK'
  BY DEF TypeOK, Receive, watchVars, Watch!WatcherTypeOK
<1>2. acked' \in [Clients -> Addr]
  BY ConstantTypes DEF TypeOK, Receive
<1>3. "find" \in PCs
  BY DEF PCs
<1> QED BY <1>1, <1>2, <1>3 DEF TypeOK, Receive, Goto

\* What Finish and Allocated leave behind is well typed.
LEMMA FinishType ==
  ASSUME TypeOK, NEW p \in Procs, Finish(p)
  PROVE  /\ pc' \in [Procs -> PCs]
         /\ msg' \in [Procs -> Message \cup {NoMsg}]
         /\ lease' \in [Procs -> Lease \cup {NoLease}]
         /\ fresh' \in [Procs -> BOOLEAN]
         /\ cand' \in [Procs -> Addr]
BY ConstantTypes DEF TypeOK, Finish, Goto, PCs

LEMMA AllocatedType ==
  ASSUME TypeOK, NEW p \in Procs, NEW a \in Addr, Allocated(p, a)
  PROVE  /\ pc' \in [Procs -> PCs]
         /\ lease' \in [Procs -> Lease \cup {NoLease}]
         /\ cand' \in [Procs -> Addr]
<1>1. [addr |-> a, fixed |-> FALSE] \in Lease
  BY DEF Lease
<1> QED BY <1>1, ConstantTypes DEF TypeOK, Allocated, Goto, PCs

LEMMA RejectType ==
  ASSUME TypeOK, NEW p \in Procs, Reject(p)
  PROVE  /\ pc' \in [Procs -> PCs]
         /\ lease' \in [Procs -> Lease \cup {NoLease}]
         /\ cand' \in [Procs -> Addr]
<1>1. NextAddr(cand[p]) \in Addr
  BY NextAddrType DEF TypeOK
<1> QED BY <1>1, ConstantTypes DEF TypeOK, Reject, Goto, PCs

\* TypeOK is not inductive: the reply takes its address from the local lease,
\* so a running handler must have its message, and its lease once it has been
\* found or allocated.
HasLocals(p) ==
  /\ pc[p] # "idle" => msg[p] \in Message
  /\ pc[p] \in {"put", "invalid", "reply", "send", "delete"} => lease[p] \in Lease

LEMMA WorkType ==
  ASSUME TypeOK, NEW p \in Procs, HasLocals(p), Work(p)
  PROVE  TypeOK'
<1> USE DEF watchVars
<1>1. CASE FindLease(p)
  <2>1. msg[p] \in Message /\ msg[p].want \in Addr
    BY <1>1, ConstantTypes DEF FindLease, HasLocals, Message
  <2>2. CASE FoundNone(p)
    <3>1. CASE msg[p].type = "release"
      BY <1>1, <2>2, <3>1, FinishType
         DEF FindLease, FoundNone, TypeOK, Watch!WatcherTypeOK
    <3>2. CASE msg[p].type # "release"
      BY <1>1, <2>1, <2>2, <3>2
         DEF FindLease, FoundNone, Goto, PCs, TypeOK, Watch!WatcherTypeOK
    <3> QED BY <3>1, <3>2
  <2>3. ASSUME NEW l \in Lookup(msg[p].client), Found(p, l)
        PROVE  TypeOK'
    <3>1. l \in Lease \cup {NoLease}
      BY DEF Lookup, TypeOK, Watch!WatcherTypeOK, Watch!Held
    <3>2. CASE msg[p].type = "release" /\ l.fixed
      BY <1>1, <2>3, <3>2, FinishType
         DEF FindLease, Found, TypeOK, Watch!WatcherTypeOK
    <3>3. CASE ~(msg[p].type = "release" /\ l.fixed)
      BY <1>1, <2>3, <3>1, <3>3
         DEF FindLease, Found, Goto, PCs, TypeOK, Watch!WatcherTypeOK
    <3> QED BY <3>2, <3>3
  <2> QED BY <1>1, <2>2, <2>3 DEF FindLease
<1>2. CASE CheckAddress(p)
  <2>1. cand[p] \in Addr BY DEF TypeOK
  <2>2. /\ pc' \in [Procs -> PCs]
        /\ lease' \in [Procs -> Lease \cup {NoLease}]
        /\ cand' \in [Procs -> Addr]
    <3>1. CASE Accept(p) BY <2>1, <3>1, AllocatedType DEF Accept
    <3>2. CASE Reject(p) BY <3>2, RejectType
    <3>3. CASE /\ Goto(p, IF pc[p] = "check" THEN "recheck" ELSE "rescan")
               /\ UNCHANGED <<lease, cand>>
      BY <3>3 DEF Goto, PCs, TypeOK
    <3> QED BY <1>2, <3>1, <3>2, <3>3 DEF CheckAddress
  <2> QED BY <1>2, <2>2 DEF CheckAddress, TypeOK, Watch!WatcherTypeOK
<1>3. CASE RecheckAddress(p)
  <2>1. cand[p] \in Addr BY DEF TypeOK
  <2>2. /\ pc' \in [Procs -> PCs]
        /\ lease' \in [Procs -> Lease \cup {NoLease}]
        /\ cand' \in [Procs -> Addr]
    <3>1. CASE Accept(p) BY <2>1, <3>1, AllocatedType DEF Accept
    <3>2. CASE Reject(p) BY <3>2, RejectType
    <3> QED BY <1>3, <3>1, <3>2 DEF RecheckAddress
  <2> QED BY <1>3, <2>2 DEF RecheckAddress, TypeOK, Watch!WatcherTypeOK
<1>4. CASE LockIpam(p)
  BY <1>4, ConstantTypes
     DEF LockIpam, Goto, PCs, Addr, TypeOK, Watch!WatcherTypeOK
<1>5. CASE ScanExhausted(p)
  BY <1>5, ConstantTypes, AllocatedType
     DEF ScanExhausted, TypeOK, Watch!WatcherTypeOK
<1>6. CASE MarkInvalid(p)
  BY <1>6, FinishType DEF MarkInvalid, TypeOK, Watch!WatcherTypeOK
<1>7. ASSUME Write(p) PROVE store' \in [Clients -> Watch!Held]
  BY <1>7 DEF Write, Watch!Put, Watch!Held, TypeOK, Watch!WatcherTypeOK
<1>8. CASE PutLease(p)
  <2>1. CASE msg[p].type = "decline"
    BY <1>7, <1>8, <2>1, FinishType
       DEF PutLease, TypeOK, Watch!WatcherTypeOK
  <2>2. CASE msg[p].type # "decline"
    BY <1>7, <1>8, <2>2
       DEF PutLease, Goto, PCs, TypeOK, Watch!WatcherTypeOK
  <2> QED BY <2>1, <2>2
<1>9. CASE Rename(p)
  BY <1>7, <1>9 DEF Rename, Goto, PCs, TypeOK, Watch!WatcherTypeOK
<1>10. CASE SendReply(p)
  <2>1. lease[p] \in Lease BY <1>10 DEF SendReply, HasLocals
  <2>2. acked' \in [Clients -> Addr] BY <1>10, <2>1 DEF SendReply, Lease, TypeOK
  <2> QED BY <1>10, <2>2, FinishType DEF SendReply, TypeOK, Watch!WatcherTypeOK
<1>11. CASE DeleteLease(p)
  <2>1. store' \in [Clients -> Watch!Held]
    BY <1>11 DEF DeleteLease, Watch!Delete, Watch!Held, TypeOK, Watch!WatcherTypeOK
  <2> QED BY <1>11, <2>1, FinishType DEF DeleteLease, TypeOK, Watch!WatcherTypeOK
<1> QED BY <1>1, <1>2, <1>3, <1>4, <1>5, <1>6, <1>8, <1>9, <1>10, <1>11 DEF Work

\* Init and every step establish or keep the locals of every handler.
LocalsOK == \A p \in Procs : HasLocals(p)

LEMMA WorkLocals ==
  ASSUME TypeOK, LocalsOK, NEW p \in Procs, Work(p)
  PROVE  LocalsOK'
<1> SUFFICES ASSUME NEW q \in Procs PROVE HasLocals(q)'
  BY DEF LocalsOK
<1>0. HasLocals(p) /\ HasLocals(q)
  BY DEF LocalsOK
<1>1. CASE q # p
  <2>1. pc'[q] = pc[q] /\ msg'[q] = msg[q] /\ lease'[q] = lease[q]
    BY <1>1 DEF TypeOK, Work, FindLease, FoundNone, Found, CheckAddress,
       RecheckAddress, Accept, Reject, Allocated, LockIpam, ScanExhausted,
       MarkInvalid, PutLease, Rename, SendReply, DeleteLease, Finish, Goto
  <2> QED BY <1>0, <2>1 DEF HasLocals
<1>2. CASE q = p
  <2> SUFFICES HasLocals(p)'
    BY <1>2
  <2> USE DEF HasLocals, Goto, TypeOK
  <2>1. pc[p] # "idle" => msg[p] \in Message
    BY <1>0
  <2>2. CASE FindLease(p)
    <3>1. msg[p] \in Message BY <2>1, <2>2 DEF FindLease
    <3>2. CASE FoundNone(p)
      BY <3>1, <3>2 DEF FoundNone, Finish
    <3>3. ASSUME NEW l \in Lookup(msg[p].client), Found(p, l)
          PROVE  HasLocals(p)'
      <4>1. l \in Lease
        BY DEF Lookup, Watch!WatcherTypeOK, Watch!Held
      <4> QED BY <3>1, <3>3, <4>1 DEF Found, Finish
    <3> QED BY <2>2, <3>2, <3>3 DEF FindLease
  <2>3. ASSUME NEW a \in Addr, Allocated(p, a), msg[p] \in Message, msg' = msg
        PROVE  HasLocals(p)'
    <3>1. [addr |-> a, fixed |-> FALSE] \in Lease BY DEF Lease
    <3> QED BY <2>3, <3>1 DEF Allocated
  <2>4. ASSUME Reject(p), msg[p] \in Message, msg' = msg
        PROVE  HasLocals(p)'
    BY <2>4 DEF Reject
  <2>5. CASE CheckAddress(p)
    <3>1. msg[p] \in Message /\ cand[p] \in Addr /\ msg' = msg
      BY <2>1, <2>5 DEF CheckAddress
    <3>2. CASE Accept(p) BY <2>3, <3>1, <3>2 DEF Accept
    <3>3. CASE Reject(p) BY <2>4, <3>1, <3>3
    <3>4. CASE /\ Goto(p, IF pc[p] = "check" THEN "recheck" ELSE "rescan")
               /\ UNCHANGED <<lease, cand>>
      BY <3>1, <3>4
    <3> QED BY <2>5, <3>2, <3>3, <3>4 DEF CheckAddress
  <2>6. CASE RecheckAddress(p)
    <3>1. msg[p] \in Message /\ cand[p] \in Addr /\ msg' = msg
      BY <2>1, <2>6 DEF RecheckAddress
    <3>2. CASE Accept(p) BY <2>3, <3>1, <3>2 DEF Accept
    <3>3. CASE Reject(p) BY <2>4, <3>1, <3>3
    <3> QED BY <2>6, <3>2, <3>3 DEF RecheckAddress
  <2>7. CASE LockIpam(p)
    BY <2>1, <2>7 DEF LockIpam
  <2>8. CASE ScanExhausted(p)
    BY <2>1, <2>3, <2>8, ConstantTypes DEF ScanExhausted
  <2>9. CASE MarkInvalid(p) \/ SendReply(p) \/ DeleteLease(p)
    BY <2>9 DEF MarkInvalid, SendReply, DeleteLease, Finish
  <2>10. CASE PutLease(p)
    BY <1>0, <1>2, <2>10 DEF PutLease, Finish
  <2>11. CASE Rename(p)
    BY <1>0, <1>2, <2>11 DEF Rename
  <2> QED BY <1>2, <2>2, <2>5, <2>6, <2>7, <2>8, <2>9, <2>10, <2>11 DEF Work
<1> QED BY <1>1, <1>2

LEMMA TypeNext == TypeOK /\ LocalsOK /\ [Next]_vars => TypeOK' /\ LocalsOK'
<1> SUFFICES ASSUME TypeOK, LocalsOK, [Next]_vars PROVE TypeOK' /\ LocalsOK'
  OBVIOUS
<1>1. CASE \E p \in Procs, m \in Message : Receive(p, m)
  <2> PICK p \in Procs, m \in Message : Receive(p, m)
    BY <1>1
  <2>1. LocalsOK'
    BY DEF Receive, Goto, LocalsOK, HasLocals, TypeOK
  <2> QED BY <2>1, ReceiveType
<1>2. CASE \E p \in Procs : Work(p)
  BY <1>2, WorkType, WorkLocals DEF LocalsOK
<1>3. CASE WatchStep \/ Stop
  <2>1. Watch!WatcherTypeOK' /\ UNCHANGED handlerVars
    BY <1>3, WatcherStepType DEF WatchStep, Stop, TypeOK
  <2> QED BY <2>1 DEF TypeOK, LocalsOK, HasLocals, handlerVars
<1>4. CASE Crash
  <2>1. Watch!WatcherTypeOK'
    BY <1>4, WatcherStepType DEF Crash, TypeOK
  <2>2. /\ pc' \in [Procs -> PCs]
        /\ msg' \in [Procs -> Message \cup {NoMsg}]
        /\ lease' \in [Procs -> Lease \cup {NoLease}]
        /\ fresh' \in [Procs -> BOOLEAN]
        /\ cand' \in [Procs -> Addr]
        /\ acked' = acked
    BY <1>4, ConstantTypes DEF Crash, PCs
  <2>3. LocalsOK'
    BY <1>4 DEF Crash, LocalsOK, HasLocals
  <2> QED BY <2>1, <2>2, <2>3 DEF TypeOK
<1>5. CASE UNCHANGED vars
  BY <1>5 DEF vars, TypeOK, LocalsOK, HasLocals, Watch!WatcherTypeOK
<1> QED BY <1>1, <1>2, <1>3, <1>4, <1>5 DEF Next

\* Every variable of the server and its watcher keeps its type in every
\* reachable state, for any number of clients and handler goroutines; the
\* locals of a handler are set by the time it uses them.
THEOREM TypeCorrect == Spec => [](TypeOK /\ LocalsOK)
<1>1. Init => TypeOK /\ LocalsOK
  BY TypeInit DEF Init, LocalsOK, HasLocals
<1> QED BY <1>1, TypeNext, PTL DEF Spec

(***************************************************************************)
(* Reservations survive every interleaving of handlers, ticks, deliveries, *)
(* stops and crashes, provided that the storage client's prefix keeps the  *)
(* lease keys as they are and that every scan of the store reads every     *)
(* value; and no address outside the range is ever leased.  The argument:  *)
(* wherever the value of a key can be (the store, the cache, an event      *)
(* under way, a handler's local lease), it is proper.                      *)
(***************************************************************************)

\* The reserved client's lease, and the leases another client may have.
Reservation(c) == [addr |-> Reservations[c], fixed |-> TRUE]

Proper(c, v) ==
  IF c \in Reserved
    THEN v = Reservation(c)
    ELSE \/ v = NoLease
         \/ /\ v.addr \in RangeStart..RangeEnd \cup {NoAddr}
            /\ \A d \in Reserved : v.addr # Reservations[d]

EventsProper ==
  /\ \A e \in pend : Proper(e.key, e.val)
  /\ \A i \in DOMAIN chan : Proper(chan[i].key, chan[i].val)

\* FindLease always finds a reservation, so a handler of a reserved client
\* allocates nothing and deletes nothing.
HandlerProper(p) ==
  pc[p] # "idle" =>
    /\ phase # "down"
    /\ msg[p].client \in Reserved => pc[p] \in {"find", "put", "reply", "send"}
    /\ pc[p] \in {"recheck", "rescan"} => ~OutOfRange(cand[p])
    /\ pc[p] \in {"put", "reply", "send"} => Proper(msg[p].client, lease[p])

\* The inductive invariant.
ProperInv ==
  /\ \A c \in Clients : Proper(c, store[c])
  /\ phase # "down" => \A c \in Clients : Proper(c, entries[c])
  /\ EventsProper
  /\ \A p \in Procs : HandlerProper(p)

(***************************************************************************)
(* Proofs.                                                                 *)
(***************************************************************************)

LEMMA ProperInit == Init => ProperInv
<1> SUFFICES ASSUME Init PROVE ProperInv
  OBVIOUS
<1>1. \A c \in Clients : Proper(c, store[c])
  BY DEF Init, Proper, Reservation
<1>2. EventsProper
  BY DEF Init, Watch!WatcherDown, EventsProper
<1> QED BY <1>1, <1>2
        DEF Init, Watch!WatcherDown, ProperInv, HandlerProper

\* What a key of the store, the cache or an event holds is well typed.
LEMMA ProperType ==
  ASSUME TypeOK
  PROVE  /\ store \in [Clients -> Lease \cup {NoLease}]
         /\ entries \in [Clients -> Lease \cup {NoLease}]
         /\ \A e \in pend : e.key \in Clients
         /\ \A i \in DOMAIN chan : chan[i].key \in Clients
<1>1. /\ chan \in Seq(Watch!Event) /\ pend \subseteq Watch!Event
      /\ store \in [Clients -> Watch!Held] /\ entries \in [Clients -> Watch!Held]
  BY DEF TypeOK, Watch!WatcherTypeOK
<1>2. \A i \in DOMAIN chan : chan[i] \in Watch!Event
  BY <1>1
<1> QED BY <1>1, <1>2 DEF Watch!Held, Watch!Event

\* The watcher moves values about and never changes one: what it loads, finds
\* in a scan or delivers is proper because the store and the events are.
LEMMA WatcherStepProper ==
  ASSUME TypeOK, ProperInv, ~ReadFaults, BenignPrefix,
         Watch!WatchStep \/ Watch!Cancel \/ Watch!Close
  PROVE  /\ store' = store
         /\ phase # "down" => phase' # "down"
         /\ phase' # "down" => \A c \in Clients : Proper(c, entries'[c])
         /\ EventsProper'
<1> USE DEF ProperInv, EventsProper
<1>0. Watch!Unreadable = {{}}
  BY DEF Watch!Unreadable
<1>1. Watch!Snapshot({}) = store
  BY DEF Watch!Snapshot, TypeOK, Watch!WatcherTypeOK
<1>2. CASE Watch!LoadInitial
  <2>1. \A c \in Clients : Accepted(c)
    BY EveryLeaseAccepted, ServerAssumption
  <2> QED BY <1>0, <1>1, <1>2, <2>1 DEF Watch!LoadInitial
<1>3. CASE Watch!Tick
  <2>1. pend' = Watch!Diff(lastData, store)
    BY <1>0, <1>1, <1>3 DEF Watch!Tick
  <2>2. \A e \in pend' : e.key \in Clients /\ e.val = store[e.key]
    BY <2>1 DEF Watch!Diff
  <2> QED BY <1>3, <2>2 DEF Watch!Tick
<1>4. CASE \E e \in pend : Watch!Send(e)
  <2> PICK e \in pend : Watch!Send(e)
    BY <1>4
  <2>1. chan' = Append(chan, e) /\ chan \in Seq(Watch!Event) /\ e \in Watch!Event
    BY DEF Watch!Send, TypeOK, Watch!WatcherTypeOK
  <2>2. \A i \in DOMAIN chan' : Proper(chan'[i].key, chan'[i].val)
    BY <2>1
  <2> QED BY <2>2 DEF Watch!Send
<1>5. CASE Watch!Deliver
  <2>1. chan \in Seq(Watch!Event) /\ chan # <<>> /\ chan' = Tail(chan)
    BY <1>5 DEF Watch!Deliver, TypeOK, Watch!WatcherTypeOK
  <2>2. \A i \in DOMAIN chan' : Proper(chan'[i].key, chan'[i].val)
    BY <2>1
  <2>3. Proper(Head(chan).key, Head(chan).val)
    BY <2>1
  <2>4. \A c \in Clients : phase # "down" => Proper(c, entries'[c])
    BY <1>5, <2>3, ProperType DEF Watch!Deliver, Watch!HandleEvent
  <2> QED BY <1>5, <2>2, <2>4 DEF Watch!Deliver
<1>6. CASE Watch!Cancel
  BY <1>6 DEF Watch!Cancel
<1>7. CASE Watch!Close
  BY <1>7 DEF Watch!Close
<1> QED BY <1>2, <1>3, <1>4, <1>5, <1>6, <1>7 DEF Watch!WatchStep

(***************************************************************************)
(* What the handlers read.                                                 *)
(***************************************************************************)

\* FindLease gets the lease of its client, and none of anybody else's.
LEMMA LookupIsEntry ==
  ASSUME BenignPrefix, NEW c \in Clients
  PROVE  Lookup(c) = IF entries[c] = NoLease THEN {} ELSE {entries[c]}
BY LookupKey DEF Lookup

LEMMA NoOwnHit ==
  ASSUME BenignPrefix, NEW c, NEW a
  PROVE  ~OwnHit(c, a)
BY BareKeyMisses DEF OwnHit

\* An address that both passes of IsIPFree let through is in the range and
\* not a reserved one: a reservation is in the cache as long as the server runs.
LEMMA FreeAddressIsProper ==
  ASSUME TypeOK, ProperInv, BenignPrefix, NEW c \in Clients \ Reserved,
         NEW a \in Addr, ~OutOfRange(a), phase # "down",
         Holders(a) = {} \/ \E d \in Holders(a) : Identifier(d) = <<c>>
  PROVE  Proper(c, [addr |-> a, fixed |-> FALSE])
<1>1. a \in RangeStart..RangeEnd
  BY ConstantTypes DEF OutOfRange, Addr
<1>2. \A d \in Reserved : a # Reservations[d]
  <2>1. CASE Holders(a) = {}
    <3> SUFFICES ASSUME NEW d \in Reserved, a = Reservations[d] PROVE FALSE
      OBVIOUS
    <3>1. d \in Clients /\ entries[d] = Reservation(d)
      BY ConstantTypes DEF ProperInv, Proper
    <3>2. entries[d] # NoLease
      <4>1. Reservation(d) \in Lease BY ConstantTypes DEF Reservation, Lease
      <4> QED BY <3>1, <4>1, ConstantTypes
    <3>3. d \in Holders(a) BY <3>1, <3>2 DEF Holders, Reservation
    <3> QED BY <2>1, <3>3
  <2>2. CASE \E d \in Holders(a) : Identifier(d) = <<c>>
    <3> PICK d \in Holders(a) : Identifier(d) = <<c>>
      BY <2>2
    <3>1. d = c BY IdentifierIsId
    <3>2. entries[c] # NoLease /\ entries[c].addr = a BY <3>1 DEF Holders
    <3>3. Proper(c, entries[c]) BY DEF ProperInv
    <3> QED BY <3>2, <3>3 DEF Proper
  <2> QED BY <2>1, <2>2
<1> QED BY <1>1, <1>2 DEF Proper

(***************************************************************************)
(* The steps of the handlers.                                              *)
(***************************************************************************)

\* A handler only writes its own locals.
LEMMA OtherHandlers ==
  ASSUME TypeOK, NEW p \in Procs, NEW q \in Procs \ {p}, Work(p)
  PROVE  /\ pc'[q] = pc[q] /\ msg'[q] = msg[q]
         /\ lease'[q] = lease[q] /\ cand'[q] = cand[q] /\ fresh'[q] = fresh[q]
BY DEF TypeOK, Work, FindLease, FoundNone, Found, CheckAddress,
   RecheckAddress, Accept, Reject, Allocated, LockIpam, ScanExhausted,
   MarkInvalid, PutLease, Rename, SendReply, DeleteLease, Finish, Goto

\* A handler leaves the watcher alone.
LEMMA WorkLeavesWatcher ==
  ASSUME NEW p \in Procs, Work(p)
  PROVE  UNCHANGED watchVars
BY DEF Work, FindLease, CheckAddress, RecheckAddress, LockIpam, ScanExhausted,
   MarkInvalid, PutLease, Rename, SendReply, DeleteLease, watchVars

\* What the handler writes to the store is proper for its client; in
\* particular it deletes no reservation.
LEMMA WorkStoreProper ==
  ASSUME TypeOK, LocalsOK, ProperInv, NEW p \in Procs, Work(p)
  PROVE  \A c \in Clients : Proper(c, store'[c])
<1> USE DEF ProperInv
<1>1. msg[p].client \in Clients
  <2>1. msg[p] \in Message
    BY DEF LocalsOK, HasLocals, Work, FindLease, CheckAddress, RecheckAddress,
       LockIpam, ScanExhausted, MarkInvalid, PutLease, Rename, SendReply,
       DeleteLease
  <2> QED BY <2>1 DEF Message
<1>2. CASE pc[p] \in {"put", "reply"} /\ Write(p)
  <2>1. Proper(msg[p].client, lease[p])
    BY <1>2 DEF HandlerProper
  <2> QED BY <1>1, <1>2, <2>1, ProperType DEF Write, Watch!Put
<1>3. CASE DeleteLease(p)
  <2>1. msg[p].client \notin Reserved
    BY <1>3 DEF HandlerProper, DeleteLease
  <2>2. Proper(msg[p].client, NoLease)
    BY <2>1 DEF Proper
  <2> QED BY <1>1, <1>3, <2>2, ProperType DEF DeleteLease, Watch!Delete
<1>4. CASE UNCHANGED store
  BY <1>4
<1> QED
  BY <1>2, <1>3, <1>4
     DEF Work, FindLease, CheckAddress, RecheckAddress, LockIpam,
         ScanExhausted, MarkInvalid, PutLease, Rename, SendReply

\* The handler itself stays proper.
LEMMA WorkHandlerProper ==
  ASSUME TypeOK, LocalsOK, ProperInv, BenignPrefix, NEW p \in Procs, Work(p)
  PROVE  HandlerProper(p)'
<1> DEFINE c == msg[p].client
<1>1. pc[p] # "idle" /\ phase # "down" /\ phase' = phase
  BY WorkLeavesWatcher
     DEF ProperInv, HandlerProper, Work, FindLease, CheckAddress,
         RecheckAddress, LockIpam, ScanExhausted, MarkInvalid, PutLease, Rename,
         SendReply, DeleteLease, watchVars
<1>2. c \in Clients /\ HandlerProper(p)
  BY <1>1 DEF LocalsOK, HasLocals, Message, ProperInv
<1>3. ASSUME Finish(p) PROVE HandlerProper(p)'
  BY <1>3 DEF Finish, Goto, TypeOK, HandlerProper
<1>4. ASSUME NEW a, Allocated(p, a), msg' = msg, c \notin Reserved,
             Proper(c, [addr |-> a, fixed |-> FALSE])
      PROVE  HandlerProper(p)'
  BY <1>1, <1>4 DEF Allocated, Goto, TypeOK, HandlerProper
<1>5. ASSUME Reject(p), msg' = msg, c \notin Reserved
      PROVE  HandlerProper(p)'
  BY <1>1, <1>5 DEF Reject, Goto, TypeOK, HandlerProper
<1>6. CASE FindLease(p)
  <2>1. Proper(c, entries[c])
    BY <1>1, <1>2 DEF ProperInv
  <2>2. CASE FoundNone(p)
    <3>1. entries[c] = NoLease
      BY <1>2, <2>2, LookupIsEntry DEF FoundNone
    <3>2. c \notin Reserved
      <4>1. c \in Reserved => Reservation(c) \in Lease
        BY ConstantTypes DEF Reservation, Lease
      <4> QED BY <2>1, <3>1, <4>1, ConstantTypes DEF Proper
    <3>3. CASE msg[p].type = "release"
      BY <1>3, <2>2, <3>3 DEF FoundNone
    <3>4. CASE msg[p].type # "release"
      BY <1>1, <2>2, <3>2, <3>4 DEF FoundNone, Goto, TypeOK, HandlerProper
    <3> QED BY <3>3, <3>4
  <2>3. ASSUME NEW l \in Lookup(c), Found(p, l)
        PROVE  HandlerProper(p)'
    <3>1. l = entries[c]
      BY <1>2, LookupIsEntry
    <3>2. CASE msg[p].type = "release" /\ l.fixed
      BY <1>3, <2>3, <3>2 DEF Found
    <3>3. CASE msg[p].type = "release" /\ ~l.fixed
      <4>1. c \notin Reserved
        BY <2>1, <3>1, <3>3 DEF Proper, Reservation
      <4> QED BY <1>1, <2>3, <3>3, <4>1 DEF Found, Goto, TypeOK, HandlerProper
    <3>4. CASE msg[p].type # "release"
      BY <1>1, <2>1, <2>3, <3>1, <3>4 DEF Found, Goto, TypeOK, HandlerProper
    <3> QED BY <3>2, <3>3, <3>4
  <2> QED BY <1>6, <2>2, <2>3 DEF FindLease
<1>7. CASE CheckAddress(p)
  <2>1. c \notin Reserved /\ msg' = msg
    BY <1>2, <1>7 DEF CheckAddress, HandlerProper
  <2>2. CASE Reject(p)
    BY <1>5, <2>1, <2>2
  <2>3. CASE /\ ~OutOfRange(cand[p])
             /\ Goto(p, IF pc[p] = "check" THEN "recheck" ELSE "rescan")
             /\ UNCHANGED <<lease, cand>>
    BY <1>1, <2>1, <2>3 DEF Goto, TypeOK, HandlerProper
  <2> QED BY <1>7, <2>2, <2>3, NoOwnHit DEF CheckAddress
<1>8. CASE RecheckAddress(p)
  <2>1. c \notin Reserved /\ msg' = msg /\ ~OutOfRange(cand[p]) /\ cand[p] \in Addr
    BY <1>2, <1>8 DEF RecheckAddress, HandlerProper, TypeOK
  <2>2. CASE Reject(p)
    BY <1>5, <2>1, <2>2
  <2>3. CASE /\ Accept(p)
             /\ \/ Holders(cand[p]) = {}
                \/ \E d \in Holders(cand[p]) : Identifier(d) = <<c>>
    <3>1. Proper(c, [addr |-> cand[p], fixed |-> FALSE])
      BY <1>1, <1>2, <2>1, <2>3, FreeAddressIsProper
    <3> QED BY <1>4, <2>1, <2>3, <3>1 DEF Accept
  <2> QED BY <1>8, <2>2, <2>3 DEF RecheckAddress
<1>9. CASE LockIpam(p)
  BY <1>1, <1>2, <1>9 DEF LockIpam, Goto, TypeOK, HandlerProper
<1>10. CASE ScanExhausted(p)
  <2>1. c \notin Reserved /\ msg' = msg
    BY <1>2, <1>10 DEF ScanExhausted, HandlerProper
  <2>2. Proper(c, [addr |-> NoAddr, fixed |-> FALSE])
    BY <2>1, ConstantTypes DEF Proper
  <2> QED BY <1>4, <1>10, <2>1, <2>2 DEF ScanExhausted
<1>11. CASE MarkInvalid(p) \/ SendReply(p) \/ DeleteLease(p)
  BY <1>3, <1>11 DEF MarkInvalid, SendReply, DeleteLease
<1>12. CASE PutLease(p)
  <2>1. CASE msg[p].type = "decline"
    BY <1>3, <1>12, <2>1 DEF PutLease
  <2>2. CASE msg[p].type # "decline"
    BY <1>1, <1>2, <1>12, <2>2 DEF PutLease, Goto, TypeOK, HandlerProper
  <2> QED BY <2>1, <2>2
<1>13. CASE Rename(p)
  BY <1>1, <1>2, <1>13 DEF Rename, Goto, TypeOK, HandlerProper
<1> QED BY <1>6, <1>7, <1>8, <1>9, <1>10, <1>11, <1>12, <1>13 DEF Work

LEMMA ProperNext ==
  ASSUME BenignPrefix, ~ReadFaults
  PROVE  TypeOK /\ LocalsOK /\ ProperInv /\ [Next]_vars => ProperInv'
<1> SUFFICES ASSUME TypeOK, LocalsOK, ProperInv, [Next]_vars PROVE ProperInv'
  OBVIOUS
<1>1. CASE \E p \in Procs, m \in Message : Receive(p, m)
  <2> PICK p \in Procs, m \in Message : Receive(p, m)
    BY <1>1
  <2>1. \A q \in Procs : HandlerProper(q)'
    BY DEF Receive, Goto, TypeOK, ProperInv, HandlerProper, watchVars
  <2> QED BY <2>1 DEF Receive, ProperInv, EventsProper, watchVars
<1>2. ASSUME NEW p \in Procs, Work(p) PROVE ProperInv'
  <2>1. UNCHANGED watchVars
    BY <1>2, WorkLeavesWatcher
  <2>2. \A q \in Procs : HandlerProper(q)'
    <3>1. ASSUME NEW q \in Procs \ {p} PROVE HandlerProper(q)'
      BY <1>2, <2>1, OtherHandlers DEF ProperInv, HandlerProper, watchVars
    <3> QED BY <1>2, <3>1, WorkHandlerProper
  <2>3. \A c \in Clients : Proper(c, store'[c])
    BY <1>2, WorkStoreProper
  <2> QED BY <2>1, <2>2, <2>3 DEF ProperInv, EventsProper, watchVars
<1>3. CASE WatchStep \/ Stop
  <2>1. UNCHANGED handlerVars
    BY <1>3 DEF WatchStep, Stop
  <2>2. /\ store' = store
        /\ phase # "down" => phase' # "down"
        /\ phase' # "down" => \A c \in Clients : Proper(c, entries'[c])
        /\ EventsProper'
    BY <1>3, WatcherStepProper DEF WatchStep, Stop
  <2>3. \A p \in Procs : HandlerProper(p)'
    BY <2>1, <2>2 DEF ProperInv, HandlerProper, handlerVars
  <2> QED BY <2>2, <2>3 DEF ProperInv
<1>4. CASE Crash
  <2>1. /\ store' = store /\ phase' = "down" /\ pend' = {} /\ chan' = <<>>
        /\ pc' = [p \in Procs |-> "idle"]
    BY <1>4 DEF Crash, Watch!Exit
  <2> QED BY <2>1 DEF ProperInv, EventsProper, HandlerProper
<1>5. CASE UNCHANGED vars
  BY <1>5 DEF vars, ProperInv, EventsProper, HandlerProper
<1> QED BY <1>1, <1>2, <1>3, <1>4, <1>5 DEF Next

\* Whatever the interleaving of handlers, ticks, deliveries, stops and crashes,
\* and even if writes to the store fail, a reservation stays as it is, nobody
\* else is given its address, and no address outside the range is leased.
THEOREM ReservationsSafe ==
  ASSUME BenignPrefix, ~ReadFaults
  PROVE  Spec => [](ReservationKept /\ ReservedAddressExclusive /\ AddressesInRange)
<1>1. Init => TypeOK /\ LocalsOK /\ ProperInv
  BY TypeInit, ProperInit DEF Init, LocalsOK, HasLocals
<1>2. TypeOK /\ LocalsOK /\ ProperInv /\ [Next]_vars
        => TypeOK' /\ LocalsOK' /\ ProperInv'
  BY TypeNext, ProperNext
<1>3. ProperInv => ReservationKept /\ ReservedAddressExclusive /\ AddressesInRange
  BY ConstantTypes
     DEF ProperInv, Proper, Reservation, ReservationKept,
         ReservedAddressExclusive, AddressesInRange
<1> QED BY <1>1, <1>2, <1>3, PTL DEF Spec

\* No other client is ever leased a reserved address.
THEOREM ReservedExclusive ==
  ASSUME BenignPrefix, ~ReadFaults
  PROVE  Spec => []ReservedAddressExclusive
BY ReservationsSafe, PTL

\* No address outside the range is ever leased.
THEOREM RangeKept ==
  ASSUME BenignPrefix, ~ReadFaults
  PROVE  Spec => []AddressesInRange
BY ReservationsSafe, PTL

(***************************************************************************)
(* For the proofs about clients that do not all talk at once.              *)
(***************************************************************************)

OneAtATime == \A p, q \in Procs : pc[p] # "idle" /\ pc[q] # "idle" => p = q

\* What the watcher's state is made of, and what a scan without faults reads.
LEMMA WatcherTypes ==
  ASSUME TypeOK, ~ReadFaults, BenignPrefix
  PROVE  /\ Watch!Unreadable = {{}} /\ Watch!Snapshot({}) = store
         /\ \A c \in Clients : Accepted(c)
         /\ store \in [Clients -> Lease \cup {NoLease}]
         /\ entries \in [Clients -> Lease \cup {NoLease}]
         /\ lastData \in [Clients -> Lease \cup {NoLease}]
         /\ chan \in Seq(Watch!Event) /\ pend \subseteq Watch!Event
BY EveryLeaseAccepted, ServerAssumption
   DEF Watch!Unreadable, Watch!Snapshot, TypeOK, Watch!WatcherTypeOK, Watch!Held

=============================================================================
