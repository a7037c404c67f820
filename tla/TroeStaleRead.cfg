(* A broker: does a read that an outage sends on find all that was queued before it *)
CONSTANTS
  Unit = {u1, u2, u3}
  Import = {}
  Bad = {u2}
  Big = {u3}
  BytesOf <- MCBytesOf
  Writer = {w1, w2}
  Reader = {r1}
  QueueCap = 2
  BatchUnits = 2
  BatchBytes = 2
  WakeDepth = 2
  MaxOutages = 1
SPECIFICATION Spec
INVARIANTS
  ReadFindsHistory
CHECK_DEADLOCK FALSE
