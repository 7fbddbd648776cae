\* Contracts, committees and buckets, with every fault.
CONSTANTS
  proxy = proxy
  phoenix = phoenix
  hasty = hasty
  ann = ann
  bob = bob
  MaxBlock = 3
  Window = 2
  Contract = {proxy, phoenix, hasty}
  Epoch = {1, 2, 3}
  Bucket = {ann, bob}
  Chain <- Chains
  Script <- MCScript
  BucketAt <- MCBucketAt
  Limit <- Faults
SPECIFICATION FairSpec
INVARIANTS TypeOK
PROPERTIES RowsExact ImportGoesOn BucketsSettle
