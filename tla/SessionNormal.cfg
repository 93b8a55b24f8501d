\* A whole crawl of a polite server, every other request delayed by the throttle.
SPECIFICATION Spec
CONSTANTS
  crawlType = "NORMAL"
  Surprises = {}
  maxReqPerSec = 1
  maxReqPerIp = 22
  LIST_ERROR_CUTOFF = 2
  NUMBER_ALLOWED_LIES = 1
  MaxDirs = 1
\* A session that is over stops.
CHECK_DEADLOCK FALSE
INVARIANTS
  TypeOK
  NoFault
