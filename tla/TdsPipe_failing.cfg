SPECIFICATION Spec
CONSTANTS
  None = None
  ins = ins  upd = upd  drp = drp  usr = usr  hint = hint  oth = oth
  raw = raw  norm = norm  pin = pin  bad = bad  moji = moji
  nul = nul  qnul = qnul  whr = whr
  Symbols <- MCSymbols
  Insert = ins
  Update = upd
  Where = whr
  Garbled = moji
  Table <- MCTable
  ColumnOf <- MCColumnOf
  Suggest <- MCSuggest
  Requote <- MCRequote
  Fit <- MCFit
  Undecodable <- MCUndecodable
  Environment = None
  RulesFile <- MCRules
  Messages <- MCFailMessages
  Enforcing = TRUE
  Inplace = TRUE
  Repack = TRUE
  StoreMayFail = TRUE
  MaxMessages = 2
  ReadMax = 3
  LenMod = 5
  MaxRewrite = 4
INVARIANTS
  HitsAudited
  DropsAudited
