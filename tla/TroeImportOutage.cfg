(* coraine-import: does an outage end once the database is back *)
CONSTANTS
  Unit = {u1, u2, u3}
  Import = {u1, u2, u3}
  Bad = {u3}
  Big = {u3}
  BytesOf <- MCBytesOf
  Writer = {w1, w2}
  Reader = {}
  QueueCap = 2
  BatchUnits = 2
  BatchBytes = 2
  WakeDepth = 2
  MaxOutages = 2
SPECIFICATION FairSpec
PROPERTIES
  OutageEnds
CHECK_DEADLOCK FALSE
