SPECIFICATION FairSpec
CONSTANTS
  N = 4
  Crashed = {3}
  Block = {0, 1, 2}
  Genesis = 0
  NoBlock <- NoHash
  Number <- ChainNumber
  Parent <- ChainParent
  Sealer <- ChainSealer
  Empty = {1}
  OmitEmptyBlock = FALSE
  Checks = {TRUE}
  MaxView = 0
  MaxRestarts = 0
  MaxImports = 2
CHECK_DEADLOCK FALSE
INVARIANTS TypeOK SealsAreCertified
PROPERTY Progress
