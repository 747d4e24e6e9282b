SPECIFICATION MCSpec
CONSTANTS
  c1 = c1
  c2 = c2
  Core = {c1, c2}
  NULL = NULL
  Entries = 2
  MaskBits = 4
  RangeSlots = 2
  MtrrSets <- SmallMtrrSets
  Functions <- SomeFunctions
  MaxHooks = 3
  Quarter = 2
  HighBase = 32
  Msrs <- SomeMsrs
  MaxAsked = 2
  client = client
  system = system
  other = other
  Process = {client, system, other}
  Client = client
  System = system
  Machines <- SomeMachines
  Granule = 16
INVARIANTS
  TypeOK
  MemoryTypesFollowMtrrs
  OverrunOnlyWhenFull
  IdentityMapped
  ExactlyHookedPagesTrap
  SplitListSound
  SplitsAllFreed
  ExactlyDetectedAccessesExit
  LaunchAccepted
  SegmentsSurviveLaunch
  HostAddressSpaceLives
  ProcessKeepsItsSpace
  DroppedControlsNotMissed
CHECK_DEADLOCK FALSE
