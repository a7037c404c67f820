SPECIFICATION FairSpec
CONSTANTS
  root = root
  group = group
  a = a
  b = b
  t1 = t1
  t2 = t2
  loop = loop
  Exec <- PairExec
  Root = root
  Kids <- PairKids
  Methods <- PairMethods
  Modes <- PairModes
  Thread = {t1, t2, loop}
  Creator = t1
  Loop = loop
  Target = {root}
  Events = {"delete"}
  MaxEvents = 1
PROPERTY ParentEndsAlways
CHECK_DEADLOCK FALSE
