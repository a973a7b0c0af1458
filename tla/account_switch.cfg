SPECIFICATION Spec
CONSTANTS
  k1 = k1 t1 = t1 b = b  a = a
  PlanIds = {c1}
  Procs = {p1}
  Accounts = {a, b}
  Listings = {l}
  ConvIds = {k1}
  Texts = {t1, t2}
  NoConv = NoConv NoAccount = NoAccount NoTarget = NoTarget NoText = NoText
  Human = Human NoPlan = NoPlan
  ExecDeadline = 1
  Lifetime = 1
  MaxTime = 1
  ReconcileWindow = 1
  MaxElsewhere = 0
  MaxLogins = 2
  Normal <- MCNormal
  InitialConvs <- MCNoConvs
INVARIANT ActsForBoundAccount
