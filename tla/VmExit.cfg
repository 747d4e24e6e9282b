SPECIFICATION Spec
CONSTANTS
  CrRegs <- SomeRegs
  Negative <- SomeNegative
  MaxExits = 4
INVARIANTS
  TypeOK
  ResumeOnlyInVmx
PROPERTIES
  ImplementsGuestCpu
CHECK_DEADLOCK FALSE
