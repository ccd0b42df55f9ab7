SPECIFICATION FairSpec
CONSTANTS
  s1 = s1 s2 = s2 x1 = x1 x2 = x2 x3 = x3 i1 = i1 d1 = d1 c1 = c1 c2 = c2
  None = None
  Error = Error
  Services = {s1}
  Calls = {}
  Kinds <- Other
  Logins = {i1}
  BrowserLogins = {i1}
  Callbacks = {c1}
  ServiceOf <- Service
  LoginOf <- FirstLogin
  MaxIssued = 2
  Leaving = {}
  MaxInterruptions = 2
PROPERTY WaitReturns
\* Every call and login of the instance may have ended.
CHECK_DEADLOCK FALSE
