CONSTANTS
  Seqs = {1, 2}
  Tokens = {1, 2}
  EOS = 2
  BlockSize = 2
  Blocks = {b1, b2, b3}
  MaxNumSeqs = 2
  MaxNumBatchedTokens = 2
  Prompts <- SharedPrompts
  MaxTokensChoices = {1, 3}
  IgnoreEosChoices = {FALSE}
  MaxModelLen = 6
  Modes = {"server", "library"}
  MaxFailures = 1
SPECIFICATION ServerFairSpec
INVARIANTS
  EngineEmptyBetween
  RestSent
  EngineIntact
  NoStepThrows
PROPERTIES
  ImplementsGeneration
  EveryRequestFinishes
  EveryRequestAnswered
CHECK_DEADLOCK FALSE
