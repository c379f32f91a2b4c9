SPECIFICATION Spec
CONSTANTS
  Models <- AllModels
INVARIANTS
  ProgramOrder
  HostReadsSettled
  
  NothingFreedInUse
