\* A whole crawl on connections that break, end early or bring too much, with
\* protected transfers announced before their data connection stands.
SPECIFICATION Spec
CONSTANTS
  crawlType = "NORMAL"
  Surprises = {"drop", "overflow", "early_read", "data_first", "late_data"}
  maxReqPerSec = 1
  maxReqPerIp = 14
  LIST_ERROR_CUTOFF = 2
  NUMBER_ALLOWED_LIES = 1
  MaxDirs = 1
\* A session that is over stops.
CHECK_DEADLOCK FALSE
INVARIANTS
  InStep
  ReplyIsWoken
  EndsClean
  VerdictKept
  PrivateListing
  ErrorsCutOff
  RobotsFirst
  RecordedOnce
PROPERTIES
  Freed
  QuitIsLast
