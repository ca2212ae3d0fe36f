SPECIFICATION HSpec
CONSTANTS
  Keys = {k1, k2, k3, k4}
  Vals = {v1, v2}
  Elem = {e1, e2, e3, e4}
  Capacities <- MCCapacities
SYMMETRY Symmetry
INVARIANTS
  TypeOK
  ListMatchesMap
  RecencyInv
PROPERTY
  Refinement
