\* All paths, one call, two workers and a redelivered task.
SPECIFICATION Spec
CONSTANTS
  v1 = v1
  v2 = v2
  w1 = w1
  w2 = w2
  b1 = b1
  b2 = b2
  NoVal = NoVal
  Row <- MCRow
  Batch = {b1, b2}
  RowsOf <- MCRowsOf
  To <- MCTo
  Worker = {w1, w2}
  View = {v1}
  MsgId = {1, 2, 3, 4}
  BatchId = {1, 2}
  Stats = {"DELIVRD"}
  RestChoices = {TRUE, FALSE}
  ExternalUrl = FALSE
  MaxDeliveries = 2
  MaxCalls = 1
INVARIANTS
  TypeOK
  Correlated
  StatusBacked
  SendsBounded
  OwnedRowsUntouched
  QueuedIsHeld
PROPERTIES
  ReceiptKept
  ReportFindsRow
  ImplementsLifecycle
CHECK_DEADLOCK FALSE
