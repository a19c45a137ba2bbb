SPECIFICATION FairSpec
CONSTANTS
  c1 = c1
  Clients = {c1, c2}
  Procs = {p1, p2}
  Wants = {0, 2}
  Reservations <- FirstReserved
  NoLease = NoLease
  NoMsg = NoMsg
  ChanCap = 1
  Pacing = "any"
  MayStop = FALSE
  PutFaults = {}
  ReadFaults = FALSE
  ClientPrefix <- NoPrefix
  TopAddr = 2
  RangeStart = 2
  RangeEnd = 2
  Subnet = {1, 2}
INVARIANTS ReservationKept ReservedAddressExclusive
PROPERTY RequestsFinish
VIEW WithoutAcked
