CONSTANTS
  BlockSize = 4
  NumSlots = 12
  Unwritten = 8
  Unmapped = 9
  Modes <- AllModes
  Clients = {c1, c2}
  Console = console
  Tokens = {1, 2, 3}
  EOS = 3
  Prompts <- ShortPrompts
  MaxTokens = 3
  MaxTurns = 3
  MaxIters = 1
  Corpus <- RepeatingCorpus
  DraftN = 2
  DraftK = 2
SPECIFICATION FairSpec
INVARIANTS
  RowSawConversation
  PosCountsTokens
PROPERTIES
  TurnMovesOn
  EveryClientAnswered
CHECK_DEADLOCK FALSE
