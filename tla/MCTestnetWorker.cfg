SPECIFICATION FairSpec
CONSTANTS
  r1 = r1  r2 = r2  r3 = r3  a1 = a1  a2 = a2
  NULL = NULL
  Requests = {r1, r2, r3}
  Apps = {a1, a2}
  GoodApps = {a1}
  MaxInits = 3
INVARIANTS
  InitialisedOnce
PROPERTIES
  FailureNotInherited WaitersAnswered
CHECK_DEADLOCK FALSE
