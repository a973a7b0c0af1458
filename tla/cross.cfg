SPECIFICATION Spec
CONSTANTS
  b = b k1 = k1 t1 = t1  a = a
  PlanIds = {c1, c2}
  Procs = {p1}
  Accounts = {a, b}
  Listings = {l}
  ConvIds = {k1}
  Texts = {t1}
  NoConv = NoConv NoAccount = NoAccount NoTarget = NoTarget NoText = NoText
  Human = Human NoPlan = NoPlan
  ExecDeadline = 1
  Lifetime = 1
  MaxTime = 1
  ReconcileWindow = 1
  MaxElsewhere = 1
  MaxLogins = 2
  Normal <- MCNormal
  InitialConvs <- MCNoConvs
SYMMETRY Interchangeable
INVARIANTS PossibleDeliveryIsFound DeliveredAsConfirmed
PROPERTY DuplicateIsAcknowledged
