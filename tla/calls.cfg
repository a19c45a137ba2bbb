SPECIFICATION Spec
CONSTANTS
  Links = {l1, l2}
  NoLink = NoLink
  Ouis <- SomeOuis
  Addresses <- SomeAddresses
  Vendors = {v1, v2}
  NoBlock = NoBlock
  MaxLines = 3
INVARIANTS RouteTypeOK ReplyReachesClient NoRequestKills VendorFound NeverMisattributed
CHECK_DEADLOCK FALSE
