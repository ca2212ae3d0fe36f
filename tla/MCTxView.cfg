SPECIFICATION Spec
CONSTANTS
  g = g
  a = a
  a2 = a2
  b = b
  b2 = b2
  b3 = b3
  x = x
  y = y
  Branches <- MCBranches
  TxsOf <- MCTxsOf
  Parents <- MCParents
  Txs = {x, y}
  NoBlock = NoBlock
  Outs = {1, 2, 3}
  Spender <- MCSpender
  Unspendable = {3}
INVARIANTS
  SpentIsTrue
  PooledIsShownPooled
