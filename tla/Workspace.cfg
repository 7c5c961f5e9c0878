\* Two workspaces, two requests, runs of the user sync, the server restarting.
SPECIFICATION Spec
CONSTANTS
  Workspace = {w1, w2}
  User = {u1, u2}
  Staff = {}
  Name = {"Acme", "A b", "Ab"}
  Slug <- MCSlug
  SlugOf <- MCSlugOf
  Squeeze <- MCSqueeze
  Host = {demo, own}
  DemoHost = demo
  Secret = {good, bad}
  Accepts <- MCAccepts
  Ciphertext = {}
  MasterKey = {k1}
  Interval = {0, 1}
  DefaultInterval = 1
  MaxToken = 2
  MaxAge = 1
  Request = {q1, q2}
  None = None
INVARIANTS
  TypeOK
  ShownTokenWorks
  ChosenConnectionResolves
  PrefixKept
  SignupFinishes
PROPERTIES
  SyncsAgain
\* Every request may be done and no workspace due.
CHECK_DEADLOCK FALSE
