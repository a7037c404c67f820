(* A broker: requests whose units nobody waits for, one of them refused by the database, one outage; or an   *)
(* import of two units, each waited for                                                                      *)
CONSTANTS
  Unit = {u1, u2, u3, i1, i2}
  Import = {i1, i2}
  Bad = {u2}
  Big = {u3}
  BytesOf <- MCBytesOf
  Writer = {w1, w2}
  Reader = {r1}
  QueueCap = 2
  BatchUnits = 2
  BatchBytes = 2
  WakeDepth = 2
  MaxOutages = 1
SPECIFICATION Spec
INVARIANTS
  TypeOK
  Accounting
  BarrierComplete
  ProbeAlone
  AlwaysProbed
  OutcomeTrue
  StopSettles
PROPERTIES
  UnitDoneOnce
  ImplementsHistory
SYMMETRY Threads
CHECK_DEADLOCK FALSE
