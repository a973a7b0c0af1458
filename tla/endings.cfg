SPECIFICATION RunningSpec
CONSTANTS
  Commands = {c1, c2}
  Kinds = {"read", "logout"}
  Accounts = {a}
  None = None
  MaxTries = 2
  MayLapse = FALSE
  MaxGrants = 2
PROPERTY CommandsEnd
CHECK_DEADLOCK FALSE
