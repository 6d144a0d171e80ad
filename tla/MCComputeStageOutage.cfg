SPECIFICATION OrchestratorSpec
CONSTANTS
  w1 = w1  w2 = w2  w3 = w3  p1 = p1  p2 = p2  t1 = t1  t2 = t2  a1 = a1  a2 = a2
  d1 = d1  k1 = k1  k2 = k2  k3 = k3  k4 = k4  b1 = b1  b2 = b2  bad = bad
  r1 = r1  junk = junk
  NULL = NULL
  NoRow = NoRow
  Requests = {w1, w2}
  PaymentIds = {p1}
  Terms = {t1}
  Auths = {a1}
  Details = {d1}
  Tokens = {k1, k2, k3, k4}
  Bodies = {b1, b2, bad}
  StageableBodies = {b1, b2}
  Receipts = {r1, junk}
  ValidReceipts = {r1}
  RecordTtl = 1
  Cutoffs = {}
  RetryLimit = 3
  OutliveTtl = FALSE
  MaxFailures = 1
  MaxCrashes = 0
INVARIANTS
  ComputeStageOutageIs503
CHECK_DEADLOCK FALSE
