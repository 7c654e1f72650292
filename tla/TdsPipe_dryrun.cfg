SPECIFICATION Spec
CONSTANTS
  None = None
  ins = ins  upd = upd  drp = drp  usr = usr  hint = hint  oth = oth
  raw = raw  norm = norm  pin = pin  bad = bad  moji = moji
  nul = nul  qnul = qnul  whr = whr
  Symbols <- MCSymbols
  Insert = ins
  Update = upd
  Where = whr
  Garbled = moji
  Table <- MCTable
  ColumnOf <- MCColumnOf
  Suggest <- MCSuggest
  Requote <- MCRequote
  Fit <- MCFit
  Undecodable <- MCUndecodable
  Environment = None
  RulesFile <- MCRules
  Messages <- MCDryMessages
  Enforcing = FALSE
  Inplace = TRUE
  Repack = FALSE
  StoreMayFail = FALSE
  MaxMessages = 3
  ReadMax = 3
  LenMod = 10
  MaxRewrite = 20
INVARIANTS
  Transparent
PROPERTIES
  EverythingWritten
