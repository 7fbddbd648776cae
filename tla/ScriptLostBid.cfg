\* A bid lost for ever.
CONSTANTS
  first = first
  second = second
  user = user
  auto = auto
  lastMinute = lastMinute
  validator = validator
  other = other
  MaxBlock = 5
  Window = 3
  TxBlock <- MCTxBlock
  Auction = {first, second}
  Bid = {user, auto, lastMinute}
  Validator = {validator, other}
  Script <- MCScript
  BidInfo <- MCBidInfo
  UniqueEpochReward = FALSE
  Limit <- OneCrash
SPECIFICATION Spec
INVARIANTS NoBidMissing
