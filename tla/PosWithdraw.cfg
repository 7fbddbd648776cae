\* A withdraw row survives the cleanup.
CONSTANTS
  payer = payer
  dip = dip
  token = token
  rebased = rebased
  MaxBlock = 3
  LoopWindow = 2
  Row <- MCRowWithdraw
  Account = {payer}
  TokenBalance = {}
  Chain <- MCChain
  First <- MCFirst
  Touched <- MCTouched
  Prealloc = {payer}
  RebasingRow = {}
  RebasingBlock = {}
  InitHeads <- Synced
  Ceiling = 12
  Limit <- OneCrash
SPECIFICATION Spec
INVARIANTS CleanupRemovesAllDirtyRows
