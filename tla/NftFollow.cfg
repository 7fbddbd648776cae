\* The NFT import behind the PoS import, with every fault.
CONSTANTS
  market = market
  vault = vault
  cat = cat
  dog = dog
  coin = coin
  gem = gem
  ann = ann
  bob = bob
  Zero = Zero
  NoOwner = NoOwner
  MaxBlock = 3
  Window = 2
  Contract = {market, vault}
  Item721 = {cat, dog}
  Item1155 = {coin, gem}
  Owner = {ann, bob}
  Master <- MCMaster
  Event <- MCEvent
  Limit <- EveryFault
  MaxFaults = 2
  MaxValue = 4
SPECIFICATION FairSpec
INVARIANTS TypeOK
PROPERTIES NoEventSkipped OwnersExact HoldingsExact FollowsImport
