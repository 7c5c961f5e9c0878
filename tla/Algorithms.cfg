\* One call of each function, on every input of its set.
SPECIFICATION Spec
CONSTANTS
  Dialled <- MCDialled
  Number = {"n1", "n2"}
  Digits <- MCDigits
  NoDigits = ""
  Text = {"t1", "t2"}
  ClientId = {"id", "long"}
  LongId = {"long"}
  NoText = NoText
  NoId = NoId
  Blank = Blank
  Absent = Absent
  Refused = Refused
  SameChunk = {1, 2, 3}
  PersonalChunk = {1, 2, 3}
  MaxRecipients = 2
  Order <- MCOrder
  FilterId = {f1, f2}
  JasminRefuses <- MCJasminRefuses
  Stored <- MCStored
  NoOrder = NoOrder
  None = None
  Ws = {w1, w2}
  Gid = {g1, g2, g3}
  LongGid = {g3}
  Uid = {u1}
  SmppCid = {smpp1}
  HttpCid = {http1}
  Setting = {"fits", "too long"}
  Oversized = {"too long"}
  Criterion = {c1, c2}
  Unsavable = {c2}
  Fid <- MCFid
  FidOf <- MCFidOf
  Slot = {mo1, mt1}
  MoSlot = {mo1}
  Script = {code}
  NoScript = NoScript
  Counts = {0, 1, 5}
  KeyError = KeyError
  Pattern = {".*", "^256", ""}
  AnyText = ".*"
  Address = {"Joyce"}
  Unlimited = Unlimited
  Idle = Idle
  MaxTo = 2
  MaxEntries = 2
  MaxParts = 4
  MaxRows = 8
INVARIANTS
  EachRowItsId
  EachNumberOnce
  ChunksPartition
  ChunksWithinLimits
  FilterFormSound
  RouteFormSound
  InterceptorFormSound
  ImportRepeats
  ImportIsCareful
  ImportIsComplete
  ConfigSurvivesImport
  CredentialsSurvive
\* A behaviour ends with its call.
CHECK_DEADLOCK FALSE
