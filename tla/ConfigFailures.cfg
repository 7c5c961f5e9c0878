\* A creation that is reported as a failure: what the docstring promises.
SPECIFICATION Spec
CONSTANTS
  None = None
  Kinds = {"group"}
  Workspace <- MCWorkspace
  MaxRows = 2
  Key = {1, 2}
  CidOf <- MCCidOf
  x = x
  y = y
  w1 = w1
  w2 = w2
  t1 = t1
  t2 = t2
  Val = {x, y}
  Unconvertible = {y}
  Charges <- MCCharges
  Request <- MCRequest
INVARIANTS
  FailureTruthful
CHECK_DEADLOCK FALSE
