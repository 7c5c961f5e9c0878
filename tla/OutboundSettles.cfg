\* Two calls that overlap, under the fairness of the code's scheduling.
SPECIFICATION FairSpec
CONSTANTS
  v1 = v1
  v2 = v2
  w1 = w1
  w2 = w2
  b1 = b1
  b2 = b2
  NoVal = NoVal
  Row <- MCRow
  Batch = {b1, b2}
  RowsOf <- MCRowsOf
  To <- MCTo
  Worker = {w1}
  View = {v1}
  MsgId = {1, 2}
  BatchId = {1, 2}
  Stats = {"DELIVRD"}
  RestChoices = {TRUE, FALSE}
  ExternalUrl = FALSE
  MaxDeliveries = 1
  MaxCalls = 2
PROPERTIES
  QueuedSettles
CHECK_DEADLOCK FALSE
