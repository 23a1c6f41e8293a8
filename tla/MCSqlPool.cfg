CONSTANTS
  Calls = {c1, c2, c3}
  Kinds = {"status", "audit", "submit"}
  PoolSizes = {1, 2}
  MaxJobs = 2
SPECIFICATION PoolFairSpec
INVARIANT PoolTypeOK
PROPERTY OnlyListingsBlock
