SPECIFICATION Spec
CONSTANTS
  Setups <- DecodeSetups
  Q8GemvGroups = 128
  HeaderBytes = 77
  Alignment = 32
CHECK_DEADLOCK FALSE
INVARIANTS
  ReadsItsOwnRows
