SPECIFICATION FairSpec
CONSTANTS
  root = root
  group = group
  a = a
  b = b
  t1 = t1
  t2 = t2
  loop = loop
  Exec <- NestedExec
  Root = root
  Kids <- NestedKids
  Methods <- NestedMethods
  Modes <- NestedModes
  Thread = {t1, t2, loop}
  Creator = t1
  Loop = loop
  Target = {root}
  Events = {"delete", "expire", "restart"}
  MaxEvents = 1
INVARIANTS TypeOK HandedOnce InSequence ParentTrue RootEndsAll
PROPERTIES EndedStays ParentEnds
CHECK_DEADLOCK FALSE
