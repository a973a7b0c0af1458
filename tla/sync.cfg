SPECIFICATION Spec
CONSTANTS
  Convs = {k}
  x = x
  Prints = {x, y}
  UnreadOf <- MCUnreadOf
  NoPrint = NoPrint NoHead = NoHead NoLease = NoLease
  Owners = {p1, p2}
  LeaseTTL = 1
  Retention = 0
  MaxEvents = 2
  Limit = 1
  MaxTime = 1
  MaxSeq = 2
  MaxGenerations = 1
SYMMETRY Interchangeable
INVARIANTS AcknowledgedWasPrinted ComparedIsKnown SignedOutIsEmpty
PROPERTY HeadOnlyAdvances
