SPECIFICATION Spec
CONSTANTS
  a = a
  b = b
  c = c
  Tx = {a, b, c}
  Key <- ThreeKeys
  BlockLimit <- ThreeLimits
  GasPrice <- ThreePrices
  MaxBlockSize = 0
  MaxBlockLimit = 2
  Limit = 2
  NoTx = NoTx
  Verifier = {v1}
  MaxTxs = 2
  MaxQueue = 1
  MaxNumber = 3
  MaxViews = 1
  MaxSyncs = 1
CHECK_DEADLOCK FALSE
INVARIANTS TypeOK NoReplay WindowExact CommittedLeavesQueue QueueIndexed SealedIsFresh
