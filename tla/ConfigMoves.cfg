\* Moving a route to another slot: what the comment promises.
SPECIFICATION Spec
CONSTANTS
  None = None
  Kinds = {"route"}
  Workspace <- MCWorkspace
  MaxRows = 2
  Key = {1, 2}
  CidOf <- MCCidOf
  x = x
  y = y
  w1 = w1
  w2 = w2
  t1 = t1
  t2 = t2
  Val = {x, y}
  Unconvertible = {y}
  Charges <- MCCharges
  Request <- MCRequest
PROPERTIES
  PreviousSlotDropped
CHECK_DEADLOCK FALSE
