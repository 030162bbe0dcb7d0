SPECIFICATION Spec
CONSTANTS
  N = 4
  Crashed = {0}
  Block = {0, 1}
  Genesis = 0
  NoBlock <- NoHash
  Number <- OneNumber
  Parent <- OneParent
  Sealer <- OneSealer
  Empty = {1}
  OmitEmptyBlock = TRUE
  Checks = {TRUE}
  MaxView = 2
  MaxRestarts = 0
  MaxImports = 0
CHECK_DEADLOCK FALSE
INVARIANT ViewIsJustified
PROPERTY ViewsGrow
