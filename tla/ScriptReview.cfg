\* The script engine behind the PoS import, with crashes and an error.
CONSTANTS
  first = first
  second = second
  user = user
  auto = auto
  lastMinute = lastMinute
  validator = validator
  other = other
  MaxBlock = 5
  Window = 3
  TxBlock <- MCTxBlock
  Auction = {first, second}
  Bid = {user, auto, lastMinute}
  Validator = {validator, other}
  Script <- MCScript
  BidInfo <- MCBidInfo
  UniqueEpochReward = FALSE
  Limit <- TwoCrashesOneError
SPECIFICATION FairSpec
INVARIANTS TypeOK BidsRecorded EndedAuctionsExact RewardsOnce
PROPERTIES NoBlockSkipped FollowsImport
