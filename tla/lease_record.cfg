SPECIFICATION Spec
CONSTANTS
  Procs = {p1, p2}
  Names = {none, n1}
  NoName = none
  Torn = Torn
  Times = {0, 1}
  MaxLease = 8
  TTL = 2
  Negotiate = 0
  Epoch = 10
  Horizon = 11
  MaxMessages = 2
  NoLease = NoLease
  ChanCap = 1
  PutFaults = TRUE
  ReadFaults = FALSE
INVARIANTS TypeOK CacheAgrees NoTornName RecordOutlivesClient ExpiryInReach
PROPERTY ReservationStays
SYMMETRY ProcSymmetry
VIEW View
CHECK_DEADLOCK FALSE
