SPECIFICATION FairSpec
CONSTANTS
  CrRegs <- SomeRegs
  Negative <- SomeNegative
  MaxExits = 2
PROPERTIES
  VmxoffKeepsFlags
CHECK_DEADLOCK FALSE
