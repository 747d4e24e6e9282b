SPECIFICATION Spec
CONSTANTS
  c1 = c1
  c2 = c2
  Core = {c1, c2}
  NULL = NULL
  Faults <- EveryFault
  Limits <- EveryLimit
  MaxHandles = 2
  MaxOpens = 3
SYMMETRY Symmetry
INVARIANTS
  VmxoffFlagAgrees
  BufferNotLinked
PROPERTIES
  LaunchOnlyWhenAllReady
CHECK_DEADLOCK FALSE
