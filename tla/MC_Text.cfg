SPECIFICATION Spec
CONSTANTS
  Files <- Files_MC
  Characters <- Characters_MC
  PreKinds <- PreKinds_MC
  MaxChars = 4
INVARIANTS
  RoundTrip
  BestCut
  MergesInRankOrder
  PreSplitKeeps
CHECK_DEADLOCK FALSE
