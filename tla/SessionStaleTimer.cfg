\* A request delayed on one connection goes out on the next.
SPECIFICATION Spec
CONSTANTS
  crawlType = "SHORT"
  Surprises = {"tls_fails"}
  maxReqPerSec = 1
  maxReqPerIp = 13
  LIST_ERROR_CUTOFF = 2
  NUMBER_ALLOWED_LIES = 1
  MaxDirs = 1
\* A session that is over stops.
CHECK_DEADLOCK FALSE
INVARIANT MultiRespKnown
