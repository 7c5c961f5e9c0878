\* Every kind of object, two workspaces on one Jasmin, two requests at once.
SPECIFICATION Spec
CONSTANTS
  None = None
  Kinds = {"group", "user", "smpp", "route", "interceptor"}
  Workspace <- MCWorkspace
  MaxRows = 2
  Key = {1, 2}
  CidOf <- MCCidOf
  x = x
  y = y
  w1 = w1
  w2 = w2
  t1 = t1
  t2 = t2
  Val = {x, y}
  Unconvertible = {y}
  Charges <- MCCharges
  Request <- MCRequest
INVARIANTS
  TypeOK
  SuccessTruthful
  RefusedCreateLeavesNoRow
PROPERTIES
  ObjectGoesFirst
  WorkspacesIsolated
  ImplementsMirror
SYMMETRY Symmetry
CHECK_DEADLOCK FALSE
