\* Up to four listings of servers of four kinds, under many robots.txt.
SPECIFICATION Spec
CONSTANTS
  USER_AGENT <- Agent
  Alphabet <- Letters
  Word <- SomeWord
  Servers <- SomeServers
  Listings <- SomeListings
  NUMBER_ALLOWED_LIES = 1
  LIST_ERROR_CUTOFF = 2
INVARIANTS
  TypeOK
  RobotsObeyed
  AllAsked
  NothingMadeUp
  NotTwice
  LiarsAreCaught
\* A walk that is over stops.
CHECK_DEADLOCK FALSE
