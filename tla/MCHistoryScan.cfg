SPECIFICATION FairSpec
CONSTANTS
  Tabs = {t1, t2}
  Addrs = {a1, a2}
  JobIds = {j1, j2}
  None = None
  MaxRestarts = 1
INVARIANTS
  TypeOK
  ResultIsOwn
  NoHistoryWithoutIndex
PROPERTIES
  AnswersAreAtomic
  JobsEnd
  WaitingEnds
