\* Rows and heads under every fault.
CONSTANTS
  payer = payer
  dip = dip
  token = token
  rebased = rebased
  MaxBlock = 3
  LoopWindow = 2
  Row <- MCRow
  Account = {payer}
  TokenBalance = {}
  Chain <- MCChain
  First <- MCFirst
  Touched <- MCTouched
  Prealloc = {payer}
  RebasingRow = {}
  RebasingBlock = {}
  InitHeads <- FreshOrSynced
  Ceiling = 12
  Limit <- CommitLimit
SPECIFICATION FairSpec
INVARIANTS TypeOK PrefixComplete StoredWhole
PROPERTIES CommitsConsecutiveBlocks ImplementsAtomicImport CatchesUp
