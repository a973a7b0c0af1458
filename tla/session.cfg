SPECIFICATION Spec
CONSTANTS
  Commands = {c1, c2}
  Kinds = {"read", "send", "login", "logout"}
  Accounts = {a}
  None = None
  MaxTries = 2
  MayLapse = TRUE
  MaxGrants = 2
SYMMETRY Interchangeable
INVARIANTS SignedOutIsSilent RefresherHoldsLease RefreshTokenFirst TokensArePresentedOnce RepeatsAreSafe
CHECK_DEADLOCK FALSE
