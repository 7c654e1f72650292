SPECIFICATION Spec
CONSTANTS
  None = None
  Torn = Torn
  RuleIds <- MCRuleIds
  Events <- MCEvents
  Tools = {"replay"}
  MaxFaults = 1
  MaxDay = 2
  Limit = 2
  MaxWork <- MCMaxWork
INVARIANTS
  TypeOK
  CountersExact
  NeverInvented
  DashboardCovers
PROPERTIES
  MetricsNeverGoBack
  LockFreed
