SPECIFICATION Spec
CONSTANTS
  c1 = c1
  Clients = {c1}
  Procs = {p1}
  Wants = {0, 4}
  Reservations <- NoReservations
  NoLease = NoLease
  NoMsg = NoMsg
  ChanCap = 1
  Pacing = "any"
  MayStop = FALSE
  PutFaults = {}
  ReadFaults = FALSE
  ClientPrefix <- NoPrefix
  TopAddr = 4
  RangeStart = 2
  RangeEnd = 4
  Subnet = {1, 2, 3}
INVARIANT LeasesInSubnet
