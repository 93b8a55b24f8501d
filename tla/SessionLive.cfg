\* A short crawl of a polite server comes to its end.
SPECIFICATION LiveSpec
CONSTANTS
  crawlType = "SHORT"
  Surprises = {}
  maxReqPerSec = 1
  maxReqPerIp = 15
  LIST_ERROR_CUTOFF = 2
  NUMBER_ALLOWED_LIES = 1
  MaxDirs = 1
\* A session that is over stops.
CHECK_DEADLOCK FALSE
INVARIANT RobotsFirst
PROPERTY Ends
