\* Two replies to one LIST.
SPECIFICATION Spec
CONSTANTS
  crawlType = "NORMAL"
  Surprises = {"unsolicited"}
  maxReqPerSec = 1
  maxReqPerIp = 11
  LIST_ERROR_CUTOFF = 2
  NUMBER_ALLOWED_LIES = 1
  MaxDirs = 1
\* A session that is over stops.
CHECK_DEADLOCK FALSE
INVARIANT RecordedOnce
