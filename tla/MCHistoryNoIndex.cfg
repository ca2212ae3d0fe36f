SPECIFICATION Spec
CONSTANTS
  Tabs = {t1, t2}
  Addrs = {a1, a2}
  JobIds = {j1, j2, j3}
  None = None
  MaxRestarts = 0
INVARIANT
  NoIndexIsTrue
