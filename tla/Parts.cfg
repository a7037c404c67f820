SPECIFICATION PartsSpec
CONSTANTS
  Attr = {"a", "b"}
  EntityOp = {"postAttrs", "postAttrsNew", "patchAttrs", "putAttr", "purgeDrop", "patchEntity", "patchAttr", "deleteAttr", "batchUpdate", "batchMerge", "upsert", "upsertUpdate", "delete", "batchDelete", "purge", "create", "replace", "get"}
  MaxEntityReq = 3
  r1 = r1
  r2 = r2
  Caller = {r1, r2}
  WaitMax = 1
  LongWait = FALSE
  MaxDbFault = 1
  PoolThread = {r1, r2, s1}
  PoolItems = 2
  MaxPoolFault = 2
  s1 = s1
  s2 = s2
  Sub = {s1, s2}
  StreamsMax = 1
  WaitsMax = 1
  MaxEvent = 2
  MaxKill = 1
  SnapId = {"x", "y"}
  MaxSnapSeq = 3
  MaxSnapReq = 3
  MaxSnapFault = 1
  Unit = {"u1", "u2", "u3"}
  Import = {"u1", "u2", "u3"}
  Bad = {"u3"}
  BytesOf <- ImportBytes
  Writer = {"w1", "w2"}
  Reader = {}
  QueueCap = 2
  BatchUnits = 2
  BatchBytes = 2
  WakeDepth = 2
  MaxOutages = 2
INVARIANTS PartsTypeOK  DeletedGone RefusedLeavesNoTrace RequestBeforeItsAnswers SlotOfItsOwn OnePool StreamsCounted EventsInOrder   UnitInOnePlace
PROPERTY RequestsAndGoalsEnd
CHECK_DEADLOCK FALSE
