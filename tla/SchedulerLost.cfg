\* The end of the queue and the end of the input are read at two moments.
SPECIFICATION Spec
CONSTANTS
  BadLine = Bad
  Bad = Bad
  Inputs <- PlainInputs
  maxConcurConn = 2
  Unconnectable <- NoFailures
INVARIANT EveryAddressAttempted
CHECK_DEADLOCK FALSE
