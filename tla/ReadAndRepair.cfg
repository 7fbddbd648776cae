\* Walks through the lists of the REST API, and repair scripts, while blocks are imported.
SPECIFICATION MCSpec
CONSTANTS
  Row <- MCRow
  MaxBlock = 3
  Window = 2
  MaxCrash = 1
  Limit = 2
  Me = "me"
  Coin = "coin"
  Art = "art"
  AuctionID = "auction"
  From = 1
  To = 2
  LastNum = 4
  RangeStep = 2
  LateStart = 1
  Item = {1, 2, 3}
  Odd = {2}
  Amount <- MCAmount
  Setting <- MCSetting
  Troubles = 1
INVARIANTS
  MCTypeOK
  NothingMissed
  AnswersWhole
  RepairsHold
\* A client that is done, at the end of the chain, has nothing left to do.
CHECK_DEADLOCK FALSE
