SPECIFICATION FairSpec
CONSTANTS
  g = g
  a = a
  b = b
  q = q
  q2 = q2
  d = d
  e = e
  f = f
  h = h
  Branches <- MCBranches
  TxsOf <- MCTxsOf
  Parents <- MCParents
  Txs = {}
  NoBlock = NoBlock
  Rows = 3
INVARIANTS
  RowsWereActive
  ErrorIsEarned
PROPERTY
  OverviewEnds
