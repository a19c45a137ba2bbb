SPECIFICATION RouteSpec
CONSTANTS
  Links = {l1, l2}
  NoLink = NoLink
INVARIANT RelayIsAnswered
