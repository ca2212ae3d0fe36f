SPECIFICATION Spec
CONSTANTS
  Files <- MCFiles
  Envs <- MCEnvs
  Chains <- MCChains
INVARIANTS
  TypeOK
  ServesItsChain
  PortFollowsNetwork
  CredentialsSetLast
CHECK_DEADLOCK FALSE
