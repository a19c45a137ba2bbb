SPECIFICATION Spec
CONSTANTS
  c1 = c1
  Clients = {c1, c2, c3}
  Procs = {p1}
  Wants = {0, 1, 4}
  Reservations <- FirstReserved
  NoLease = NoLease
  NoMsg = NoMsg
  ChanCap = 1
  Pacing = "exchange"
  MayStop = TRUE
  PutFaults = {c1, c2, c3}
  ReadFaults = FALSE
  ClientPrefix <- NoPrefix
  TopAddr = 4
  RangeStart = 2
  RangeEnd = 4
  Subnet = {1, 2, 3}
INVARIANTS NoDuplicateLease AddressesInRange
VIEW WithoutAcked
