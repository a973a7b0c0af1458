SPECIFICATION Spec
CONSTANTS
  Commands = {c1, c2}
  Kinds = {"read", "logout"}
  Accounts = {a}
  None = None
  MaxTries = 2
  MayLapse = FALSE
  MaxGrants = 2
SYMMETRY Interchangeable
INVARIANT LogoutClears
CHECK_DEADLOCK FALSE
