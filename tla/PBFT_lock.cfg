SPECIFICATION Spec
CONSTANTS
  N = 2
  Crashed = {}
  Block = {0, 1, 2}
  Genesis = 0
  NoBlock <- NoHash
  Number <- ForkNumber
  Parent <- ForkParent
  Sealer <- ForkSealer
  Empty = {}
  OmitEmptyBlock = TRUE
  Checks = {TRUE}
  MaxView = 1
  MaxRestarts = 0
  MaxImports = 0
CHECK_DEADLOCK FALSE
INVARIANT LockCoversCommit
