SPECIFICATION Spec
CONSTANTS
  Tabs = {t1, t2}
  Addrs = {a1, a2}
  JobIds = {j1, j2}
  None = None
  MaxRestarts = 0
  MaxForeign = 1
INVARIANT
  BusyErrorIsRetried
