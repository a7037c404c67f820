SPECIFICATION Spec
CONSTANTS
  b1 = b1
  b2 = b2
  Broker = {b1, b2}
  SubId = {s1}
  RegId = {r1}
  SubKind = {"entity", "csr", "pernot"}
  Crowded = {"entity", "csr", "reg"}
  Ha = TRUE
  MaxReq = 2
  MaxFault = 1
  Instance = {b1, b2}
  ConnSub = {s1}
  Lag = FALSE
  MaxRun = 2
  MaxConn = 2
  MaxConnReq = 2
  MaxConnFault = 1
  Attr = {"a", "b"}
  Shape <- Sources
  RegThread = {b1, b2}
  ForwardOp = {"patchEntityAttrs", "postEntityAttrs", "postEntities", "patchEntity", "replaceEntity", "batchCreate", "batchMerge", "batchUpdate", "batchUpsert"}
  MaxReg = 2
  MaxWrite = 2
INVARIANTS
  HaTypesOK
  
  PatchKept
  
  ClaimsDisjoint
  ClaimHonoured
  

  
CHECK_DEADLOCK FALSE
