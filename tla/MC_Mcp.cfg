CONSTANTS
  MaxCalls = 4
  StdinRoom = 2
  PipeRoom = 4
  ChildIds = {4}
SPECIFICATION FairSpec
INVARIANTS
  AnswerStillAhead
PROPERTIES
  
  EveryCallReturns
CHECK_DEADLOCK FALSE
