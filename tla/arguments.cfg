SPECIFICATION Spec
CONSTANTS
  MaxEntries = 4
  Sizes <- SmallSizes
  Versions <- KernelVersions
INVARIANTS
  
  FlagsArrive
  SetupHonoured
CHECK_DEADLOCK FALSE
