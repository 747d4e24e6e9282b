SPECIFICATION FairSpec
CONSTANTS
  c1 = c1
  c2 = c2
  Core = {c1, c2}
  NULL = NULL
  Faults <- VmcsFault
  Limits <- NoFault
  MaxHandles = 1
  MaxOpens = 1
PROPERTIES
  RequestCompletes
CHECK_DEADLOCK FALSE
