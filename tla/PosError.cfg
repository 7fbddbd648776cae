\* One error, never resolved.
CONSTANTS
  payer = payer
  dip = dip
  token = token
  rebased = rebased
  MaxBlock = 3
  LoopWindow = 2
  Row <- MCRow
  Account = {payer}
  TokenBalance = {}
  Chain <- MCChain
  First <- MCFirst
  Touched <- MCTouched
  Prealloc = {payer}
  RebasingRow = {}
  RebasingBlock = {}
  InitHeads <- Synced
  Ceiling = 12
  Limit <- OneError
SPECIFICATION FairSpec
PROPERTIES ErrorsResolve
