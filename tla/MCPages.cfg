SPECIFICATION Spec
CONSTANTS
  g = g
  a = a
  b = b
  b2 = b2
  b3 = b3
  x = x
  Tabs = {t1, t2}
  Branches <- MCBranches
  TxsOf <- MCTxsOf
  Parents <- MCParents
  Txs = {x}
  NoBlock = NoBlock
  Heights = {2}
  Hashes = {a}
SYMMETRY Symmetry
INVARIANTS
  TypeOK
  HalvesAgree
  HeightIsResolvedNow
  MinedIsShownMined
