\* A failed forward with attempts left.
SPECIFICATION FairSpec
CONSTANTS
  Row = {r1}
  Worker = {w1, w2}
  RetryChoices = {1, 3}
  MaxDlrs = 2
  NoTask = NoTask
INVARIANTS
  RetriesExhausted
CHECK_DEADLOCK FALSE
