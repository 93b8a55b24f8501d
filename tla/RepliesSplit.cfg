\* A CR LF may be cut in two by a read, or by a copy.
SPECIFICATION Spec
CONSTANTS
  Finals <- SomeFinals
  Announcements <- SomeAnnouncements
  Nonsense <- SomeNonsense
  MAX_CTRL_AMT = 18
  MAX_STATIC_BUFFER_SIZE = 7
  MaxReplies = 3
INVARIANT ChunkHasNoEol
\* A session that is over stops.
CHECK_DEADLOCK FALSE
