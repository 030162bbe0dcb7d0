SPECIFICATION Spec
CONSTANTS
  Block = {1, 2, 3}
  Genesis = 0
  Uncles = uncles
  Parent <- ForkParent
  Time <- AtOnce
  Invalid = {1}
  Unsound = {}
  Transient = {}
  Verifier = {v1, v2}
  MaxTime = 0
  MaxFuture = 0
  MaxClears = 0
  MaxRetries = 0
  Word = 16
CHECK_DEADLOCK FALSE
INVARIANT ClientIsCalled
