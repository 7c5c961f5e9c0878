\* One call that names the same number twice.
SPECIFICATION Spec
CONSTANTS
  v1 = v1
  v2 = v2
  w1 = w1
  w2 = w2
  b1 = b1
  b2 = b2
  NoVal = NoVal
  Row = {1, 2}
  Batch = {b1}
  RowsOf <- PairRowsOf
  To <- SameTo
  Worker = {w1}
  View = {v1}
  MsgId = {1, 2}
  BatchId = {1}
  Stats = {"DELIVRD"}
  RestChoices = {TRUE}
  ExternalUrl = FALSE
  MaxDeliveries = 1
  MaxCalls = 1
INVARIANTS
  Correlated
CHECK_DEADLOCK FALSE
