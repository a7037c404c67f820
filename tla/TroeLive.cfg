(* A broker over a cap of one unit: two writers, a reader, one outage *)
CONSTANTS
  Unit = {u1, u2}
  Import = {}
  Bad = {}
  Big = {}
  BytesOf <- MCBytesOf
  Writer = {w1, w2}
  Reader = {r1}
  QueueCap = 1
  BatchUnits = 1
  BatchBytes = 2
  WakeDepth = 3
  MaxOutages = 1
SPECIFICATION FairSpec
PROPERTIES
  HistorySettles
  OutageEnds
  CallsReturn
CHECK_DEADLOCK FALSE
