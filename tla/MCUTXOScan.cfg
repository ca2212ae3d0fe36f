SPECIFICATION FairSpec
CONSTANTS
  Tabs = {t1, t2}
  Addrs = {a1, a2}
  JobIds = {j1, j2, j3}
  None = None
  MaxRestarts = 1
  MaxForeign = 1
INVARIANTS
  TypeOK
  OneScanAtATime
  ResultIsOwn
PROPERTIES
  AnswersAreAtomic
  SlotIsFreed
  WaitingEnds
