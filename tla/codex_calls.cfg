SPECIFICATION FairSpec
CONSTANTS
  s1 = s1 s2 = s2 x1 = x1 x2 = x2 x3 = x3 i1 = i1 d1 = d1 c1 = c1 c2 = c2
  None = None
  Error = Error
  Services = {s1, s2}
  Calls = {x1, x2, x3}
  Kinds <- Mixed
  Logins = {}
  BrowserLogins = {}
  Callbacks = {}
  ServiceOf <- Service
  LoginOf <- FirstLogin
  MaxIssued = 3
  Leaving = {}
  MaxInterruptions = 2
INVARIANTS
  RetryIsNewer
  CatalogIsNotOlder
PROPERTIES
  CommitsAreFresh
  CallsEnd
\* Every call of the instance may have ended.
CHECK_DEADLOCK FALSE
