SPECIFICATION ForwardingSpec
CONSTANTS
  Attr = {"a", "b"}
  Shape <- TwoEntries
  RegThread = {t1}
  ForwardOp = {"batchCreate"}
  MaxReg = 1
  MaxWrite = 1
INVARIANT ClaimedNotStored
CHECK_DEADLOCK FALSE
