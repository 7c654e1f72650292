SPECIFICATION Spec
CONSTANTS
  None = None
  del = del  usr = usr  row = row
  Sniff = TRUE
  Enforcing = TRUE
  Environment = None
  RulesFile <- MCRules
  Keywords <- MCKeywords
  Data <- MCData
  StoreMayFail = TRUE
  MaxSent <- MCMaxSent
  HighWater = 0
  ReadMax = 2
INVARIANTS
  TypeOK
  Relayed
  NoOrphans
  BlockEndsSession
  Backpressure
PROPERTIES
  
  SessionEnds
