SPECIFICATION RouteSpec
CONSTANTS
  i1 = i1  i2 = i2  n1 = n1  v1 = v1  v2 = v2  k1 = k1  k2 = k2  r1 = r1
  s1 = s1  s2 = s2
  NULL = NULL
  NoRow = NoRow
  Sellers = {s1, s2}
  Values = {v1, v2}
  Identifiers = {i1, i2}
  Nonces = {n1}
  Deployments <- MCDeployments
  PaymentIds = {i1, i2}
  Terms <- MCTerms
  Auths <- MCAuths
  Details <- MCDetails
  Tokens = {k1, k2}
  Bodies = {v1, v2}
  StageableBodies = {v1, v2}
  Receipts = {r1}
  ValidReceipts = {r1}
  RecordTtl = 1
  Cutoffs = {}
  MaxPayments = 1
  MaxArrived = 1
  MaxAttempts = 1
SYMMETRY RouteSymmetry
INVARIANTS
  RowsPayTheirTerms
  QuotedIsAdmitted
  ReplayAnswersTheQuery
CHECK_DEADLOCK FALSE
