SPECIFICATION Spec
CONSTANTS
  g = g
  a = a
  a2 = a2
  x = x
  Tabs = {t1}
  Branches <- MCBranches
  TxsOf <- MCTxsOf
  Parents <- MCParents
  Txs = {x}
  NoBlock = NoBlock
  Heights = {2}
  Hashes = {a}
INVARIANT
  CachedTxIsImmutable
