SPECIFICATION Spec
CONSTANTS
  c1 = c1
  Clients = {c1, c2}
  Procs = {p1}
  Wants = {0}
  Reservations <- NoReservations
  NoLease = NoLease
  NoMsg = NoMsg
  ChanCap = 1
  Pacing = "offer"
  MayStop = FALSE
  PutFaults = {}
  ReadFaults = FALSE
  ClientPrefix <- ShippedPrefix
  TopAddr = 3
  RangeStart = 1
  RangeEnd = 2
  Subnet = {1, 2, 3}
INVARIANT NoDuplicateLease
