SPECIFICATION Spec
CONSTANTS
  c1 = c1
  Clients = {c1, c2}
  Procs = {p1, p2}
  Wants = {0}
  Reservations <- NoReservations
  NoLease = NoLease
  NoMsg = NoMsg
  ChanCap = 1
  Pacing = "any"
  MayStop = FALSE
  PutFaults = {}
  ReadFaults = FALSE
  ClientPrefix <- NoPrefix
  TopAddr = 3
  RangeStart = 1
  RangeEnd = 2
  Subnet = {1, 2, 3}
INVARIANT NoDoubleAck
