SPECIFICATION Spec
CONSTANTS
  b = b k1 = k1 t1 = t1  a = a
  PlanIds = {c1}
  Procs = {p1, p2}
  Accounts = {a}
  Listings = {l}
  ConvIds = {k1}
  Texts = {t1}
  NoConv = NoConv NoAccount = NoAccount NoTarget = NoTarget NoText = NoText
  Human = Human NoPlan = NoPlan
  ExecDeadline = 1
  Lifetime = 2
  MaxTime = 2
  ReconcileWindow = 1
  MaxElsewhere = 1
  MaxLogins = 0
  Normal <- MCNormal
  InitialConvs <- MCNoConvs
SYMMETRY Interchangeable
INVARIANTS AtMostOneAttempt DenialIsTrue
PROPERTY KeepsPromise
