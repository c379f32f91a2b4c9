CONSTANTS
  Seqs = {1, 2, 3}
  Tokens = {1, 2}
  EOS = 2
  BlockSize = 2
  Blocks = {b1, b2, b3}
  MaxNumSeqs = 3
  MaxNumBatchedTokens = 4
  Prompts <- BlockAndLong
  MaxTokensChoices = {1, 3}
  IgnoreEosChoices = {TRUE}
  MaxModelLen = 9
SYMMETRY BlockSymmetry
SPECIFICATION Spec
INVARIANTS
  RefCountsMatch
  PoolPartition
  CachedPrefixRight
  EngineInv
  NoRequestLost
  OnlyHeadHoldsBlocks
PROPERTIES
  HashedBlocksImmutable
CHECK_DEADLOCK FALSE
