SPECIFICATION ClientFairSpec
CONSTANTS
  p1 = p1  p2 = p2  s1 = s1  s2 = s2
  NULL = NULL
  Ids = {p1, p2}
  Slots = {s1, s2}
  MaxPolls = 2
  MaxLoads = 2
  MaxClicks = 2
  MaxUnderWay = 2
  MaxReloads = 0
  ResetWhileBusy = TRUE
INVARIANTS
  OneSubmissionPerReset
PROPERTIES NeverStuck
