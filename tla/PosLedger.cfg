\* Balances under crashes, errors and late writes.
CONSTANTS
  payer = payer
  dip = dip
  token = token
  rebased = rebased
  MaxBlock = 4
  LoopWindow = 2
  Row <- MCRowPlain
  Account = {payer, dip}
  TokenBalance = {token, rebased}
  Chain <- MCChain
  First <- MCFirst
  Touched <- MCTouched
  Prealloc = {payer, dip}
  RebasingRow = {rebased}
  RebasingBlock = {2}
  InitHeads <- Synced
  Ceiling = 12
  Limit <- LedgerLimit
SPECIFICATION Spec
INVARIANTS LedgerExact
PROPERTIES CommitsExactBalances
