\* A short crawl of a server that answers unasked, twice, too early, and fails TLS.
SPECIFICATION Spec
CONSTANTS
  crawlType = "SHORT"
  Surprises = {"unsolicited", "logged_now", "sec_again", "tls_fails", "late_data", "drop"}
  maxReqPerSec = 2
  maxReqPerIp = 6
  LIST_ERROR_CUTOFF = 2
  NUMBER_ALLOWED_LIES = 1
  MaxDirs = 1
\* A session that is over stops.
CHECK_DEADLOCK FALSE
INVARIANT NothingForgotten
PROPERTY LivesAsPromised
