CONSTANTS
  NumLayers = 2
  NumExperts = 4
  TopK = 1
  Budget = 0
  Setups <- AllModels
SPECIFICATION FairSpec
INVARIANTS
  
  DeviceAgrees
  PlacedStay
  CacheMirrorsSlots
PROPERTIES
  SweepUndisturbed
  ForwardReturns
CHECK_DEADLOCK FALSE
