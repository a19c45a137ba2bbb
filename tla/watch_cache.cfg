SPECIFICATION FairSpec
CONSTANTS
  NoValue = NoValue
  Keys = {k1, k2}
  Visible = {k1, k2}
  Values <- MCValues
  ChanCap = 2
  ReadFaults = TRUE
  MaxWrites = 4
  MaxFaults = 1
  Restarts = TRUE
INVARIANTS TypeOK ReportsArrive
PROPERTY NoStaleReturn OrphanOnlyIfUnseen Converges
