SPECIFICATION ReportsSpec
CONSTANTS
  None = None
  Torn = Torn
  Fields = {"phone", "country"}
  Statements <- MCStatements
  TopFields = 1
  RingSize = 1
  MaxEvents = 2
  MaxByHand = 2
  MaxRounds = 2
  MaxFaults = 1
  MaxDecisions = 0
INVARIANTS
  FreshReport
  ReportBounded
CHECK_DEADLOCK FALSE
