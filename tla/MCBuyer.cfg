CONSTANTS
  LocalHosts <- MCLocalHosts
  WorkersDev <- MCWorkersDev
  Elsewhere <- MCElsewhere
  PayTo <- MCPayTo
  NULL = NULL
  Layers <- MCLayers
  Faces <- MCFaces
  Balances = {999, 1000}
  Decimals = {5, 6}
SPECIFICATION Spec
INVARIANTS OperatorObeyed NothingSentIsTrue PassIsReliable
CHECK_DEADLOCK FALSE
