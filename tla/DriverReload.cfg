SPECIFICATION Spec
CONSTANTS
  c1 = c1
  c2 = c2
  Core = {c1, c2}
  NULL = NULL
  Faults <- NoFault
  Limits <- NoFault
  MaxHandles = 1
  MaxOpens = 1
SYMMETRY Symmetry
INVARIANTS
  NoLinkWhenUnloaded
CHECK_DEADLOCK FALSE
