\* Two workers, three DLRs of one row, with and without retries left.
SPECIFICATION FairSpec
CONSTANTS
  Row = {r1}
  Worker = {w1, w2}
  RetryChoices = {1, 3}
  MaxDlrs = 3
  NoTask = NoTask
INVARIANTS
  TypeOK
  ForwardDelivers
PROPERTIES
  ForwardsEnd
CHECK_DEADLOCK FALSE
