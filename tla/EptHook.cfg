SPECIFICATION FairSpec
CONSTANTS
  c1 = c1
  c2 = c2
  target = target
  neighbour = neighbour
  high = high
  Core = {c1, c2}
  Page = {target, neighbour}
  Target = target
  Unmapped = {high}
  Vmcall = Vmcall
  SameTable = FALSE
  MaxOpens = 1
INVARIANTS
  TypeOK
  NoStaleTranslation
  OnlyTargetTraps
PROPERTIES
  HookedFetchRedone
  FetchExecutes
  HookReturns
  ImplementsHypervisor
CHECK_DEADLOCK FALSE
