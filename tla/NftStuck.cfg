\* A holder gives a whole holding to a holder of the same token; nothing fails from outside.
CONSTANTS
  market = market
  vault = vault
  cat = cat
  dog = dog
  coin = coin
  gem = gem
  ann = ann
  bob = bob
  Zero = Zero
  NoOwner = NoOwner
  MaxBlock = 3
  Window = 2
  Contract = {}
  Item721 = {}
  Item1155 = {gem}
  Owner = {ann, bob}
  Master <- NoMaster
  Event <- StuckEvent
  Limit <- NoFault
  MaxFaults = 0
  MaxValue = 4
SPECIFICATION FairSpec
PROPERTY RoundResolves
