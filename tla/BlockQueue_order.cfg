SPECIFICATION FairSpec
CONSTANTS
  Block = {1, 2, 3}
  Genesis = 0
  Uncles = uncles
  Parent <- ForkParent
  Time <- AtOnce
  Invalid = {}
  Unsound = {}
  Transient = {}
  Verifier = {v1, v2, v3}
  MaxTime = 0
  MaxFuture = 0
  MaxClears = 1
  MaxRetries = 0
  Word = 16
CHECK_DEADLOCK FALSE
INVARIANTS ReadySetMatches QueueOrder NoDuplicates
PROPERTY VerifiedInTheEnd
