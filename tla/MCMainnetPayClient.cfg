SPECIFICATION ClientSpec
CONSTANTS
  p1 = p1  p2 = p2  s1 = s1  s2 = s2
  NULL = NULL
  Ids = {p1, p2}
  Slots = {s1, s2}
  MaxPolls = 2
  MaxLoads = 1
  MaxClicks = 2
  MaxUnderWay = 7
  MaxReloads = 2
  ResetWhileBusy = FALSE
SYMMETRY ClientSymmetry
INVARIANTS
  RefreshRecovers
  ResultBelongs
PROPERTIES
  NoPaymentOverUnknown
