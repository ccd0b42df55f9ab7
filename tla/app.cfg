SPECIFICATION FairSpec
CONSTANTS
  a1 = a1 a2 = a2 r1 = r1 r2 = r2 r3 = r3 m1 = m1 m2 = m2 n1 = n1 t0 = t0 t1 = t1
  None = None
  Agents = {a1, a2}
  Runs = {r1, r2, r3}
  Models = {m1, m2}
  Aliases <- MCAliases
  Selector <- MCSelector
  MaxKey = 1
  AgentOf <- MCAgentOf
  ToolsOf <- MCToolsOf
  ToolsetsOf <- MCToolsetsOf
  Requires <- MCRequires
  WireName <- MCWireName
  Discoveries <- MCDiscoveries
  Definitions <- MCDefinitions
  Configured <- MCConfigured
  Bindings <- MCBindings
  Extras <- MCExtras
  MaxCapabilities = 3
  Overriding = {r2}
  Streamed = {r1}
  Trackers = {t0, t1}
  Root = t0
  Chain <- MCChain
  TrackerOf <- MCTrackerOf
  RequestLimit = 2
  ToolLimit = 1
  MaxRequests <- MCMaxRequests
  MaxCalls = 2
  Hooks = 1
INVARIANTS
  TypeOK
  KeysAreFresh
  LedgerIsExact
  BudgetHolds
  EventsInOrder
  ToolIsReported
PROPERTIES
  TasksEnd
CONSTRAINT
  Together
\* Every task may have ended.
CHECK_DEADLOCK FALSE
