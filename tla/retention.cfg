SPECIFICATION Spec
CONSTANTS
  Convs = {k}
  x = x
  Prints = {x, y}
  UnreadOf <- MCUnreadOf
  NoPrint = NoPrint NoHead = NoHead NoLease = NoLease
  Owners = {p1}
  LeaseTTL = 1
  Retention = 0
  MaxEvents = 2
  Limit = 1
  MaxTime = 1
  MaxSeq = 2
  MaxGenerations = 0
INVARIANT AtLeastOnce
