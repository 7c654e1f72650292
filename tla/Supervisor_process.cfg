SPECIFICATION Spec
CONSTANTS
  None = None
  Torn = Torn
  Fields = {"phone"}
  Statements <- MCStatements
  TopFields = 1
  RingSize = 1
  MaxEvents = 1
  MaxByHand = 0
  MaxFaults = 1
  MaxDecisions = 1
  MaxRounds = 2
  MaxConns = 1
  MaxStarts = 2
INVARIANTS
  TypeOK
  OrderlyExit
  DryrunComplete
  SchedulerRuns
PROPERTIES
  StopsTogether
  ClientServed
CHECK_DEADLOCK FALSE
