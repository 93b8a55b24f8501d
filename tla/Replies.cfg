\* Three replies in pieces of any length; a line may be longer than one copy.
SPECIFICATION Spec
CONSTANTS
  Finals <- SomeFinals
  Announcements <- SomeAnnouncements
  Nonsense <- SomeNonsense
  MAX_CTRL_AMT = 18
  MAX_STATIC_BUFFER_SIZE = 7
  MaxReplies = 3
INVARIANTS
  TypeOK
  RepliesInOrder
  NotBeforeItsEnd
  NoNeedlessWait
\* A session that is over stops.
CHECK_DEADLOCK FALSE
