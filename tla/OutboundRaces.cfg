\* Two DLRs of one message in two views at the same time.
SPECIFICATION Spec
CONSTANTS
  v1 = v1
  v2 = v2
  w1 = w1
  w2 = w2
  b1 = b1
  b2 = b2
  NoVal = NoVal
  Row = {1, 2}
  Batch = {b1}
  RowsOf <- PairRowsOf
  To <- PairTo
  Worker = {w1}
  View = {v1, v2}
  MsgId = {1, 2}
  BatchId = {1}
  Stats = {"DELIVRD", "OTHER"}
  RestChoices = {TRUE, FALSE}
  ExternalUrl = TRUE
  MaxDeliveries = 2
  MaxCalls = 1
INVARIANTS
  ReceiptBacked
PROPERTIES
  ReceiptKept
CHECK_DEADLOCK FALSE
