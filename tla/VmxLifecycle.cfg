SPECIFICATION FairSpec
CONSTANTS
  c1 = c1
  c2 = c2
  c3 = c3
  Core = {c1, c2, c3}
  NULL = NULL
  Faults <- CleanFaults
  Limits <- CleanLimits
  MaxHandles = 1
  MaxOpens = 2
INVARIANTS
  TypeOK
  OpenMeansVirtualized
  NativeWhenClosed
  LeaksOnlyBuffers
  LiveInv
  OffBeforeFree
  LiveWhileVirtualized
PROPERTIES
  RequestCompletes
  ImplementsHypervisor
CHECK_DEADLOCK FALSE
