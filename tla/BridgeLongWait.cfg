SPECIFICATION BridgeSpec
CONSTANTS
  Caller = {"r1"}
  WaitMax = 1
  LongWait = TRUE
  MaxDbFault = 0
INVARIANTS RequestBeforeItsAnswers
CHECK_DEADLOCK FALSE
