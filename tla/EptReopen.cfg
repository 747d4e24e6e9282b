SPECIFICATION Spec
CONSTANTS
  c1 = c1
  c2 = c2
  target = target
  neighbour = neighbour
  high = high
  Core = {c1, c2}
  Page = {target, neighbour}
  Target = target
  Unmapped = {high}
  Vmcall = Vmcall
  SameTable = TRUE
  MaxOpens = 2
INVARIANTS
  NoStaleTranslation
CHECK_DEADLOCK FALSE
