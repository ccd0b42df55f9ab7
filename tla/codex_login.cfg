SPECIFICATION FairSpec
CONSTANTS
  s1 = s1 s2 = s2 x1 = x1 x2 = x2 x3 = x3 i1 = i1 d1 = d1 c1 = c1 c2 = c2
  None = None
  Error = Error
  Services = {s1}
  Calls = {x1}
  Kinds <- Other
  Logins = {i1, d1}
  BrowserLogins = {i1}
  Callbacks = {c1}
  ServiceOf <- Service
  LoginOf <- FirstLogin
  MaxIssued = 2
  Leaving = {s1}
  MaxInterruptions = 2
INVARIANTS
  TypeOK
  OneLogin
  SuccessMeansSaved
  NoCommitAfterEnd
PROPERTIES
  WaitsFinish
\* Every call and login of the instance may have ended.
CHECK_DEADLOCK FALSE
