SPECIFICATION Spec
CONSTANTS
  Setups <- SoundSetups
  Q8GemvGroups = 128
  HeaderBytes = 77
  Alignment = 32
CHECK_DEADLOCK FALSE
INVARIANTS
  ReadsItsOwnRows
  BlocksPartitioned
