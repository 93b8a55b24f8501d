\* Two slots, one address whose connection attempt fails at once and
\* crashes the program, fair threads.
\* The program really stops, so a state without a successor is no error.
SPECIFICATION LiveSpec
CONSTANTS
  BadLine = Bad
  Bad = Bad
  Inputs <- SomeInputs
  maxConcurConn = 2
  Unconnectable <- OneFailure
INVARIANTS
  TypeOK
  SlotBound
  Accounting
  InOrder
  AttemptedWhenEofSeenFirst
  MetadataIsFinal
PROPERTY Terminates
CHECK_DEADLOCK FALSE
