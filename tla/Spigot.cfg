\* Two requests per second, a budget of five, a clock that keeps up.
SPECIFICATION LiveSpec
CONSTANTS
  maxReqPerSec = 2
  maxReqPerIp = 5
  Requests = {USER, PASS, QUIT}
  NoRequest = NoRequest
  TickFirst = TRUE
INVARIANTS
  TypeOK
  Budget
  Rate
  StateFollowsWire
  LastAskedGoesOut
PROPERTIES
  LimitIsFinal
  DelayEnds
