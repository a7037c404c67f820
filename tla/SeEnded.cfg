SPECIFICATION Spec
CONSTANTS
  root = root
  group = group
  a = a
  b = b
  t1 = t1
  t2 = t2
  loop = loop
  Exec <- SequenceExec
  Root = root
  Kids <- SequenceKids
  Methods <- SequenceMethods
  Modes <- SequenceModes
  Thread = {t1, t2, loop}
  Creator = t1
  Loop = loop
  Target = {b}
  Events = {"delete"}
  MaxEvents = 1
PROPERTY EndedStays
CHECK_DEADLOCK FALSE
