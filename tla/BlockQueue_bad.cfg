SPECIFICATION Spec
CONSTANTS
  Block = {1, 2, 3, 4}
  Genesis = 0
  Uncles = uncles
  Parent <- TreeParent
  Time <- Early
  Invalid = {4}
  Unsound = {1}
  Transient = {2}
  Verifier = {v1, v2}
  MaxTime = 1
  MaxFuture = 1
  MaxClears = 0
  MaxRetries = 1
  Word = 16
CHECK_DEADLOCK FALSE
INVARIANTS TypeOK BadStaysOut UnknownWaits
