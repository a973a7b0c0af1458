SPECIFICATION WebsiteSpec
CONSTANTS
  Clients = {c1, c2}
  Spacing = 2
  Jitters = {0, 1}
  MaxJitter = 1
  MaxTime = 4
  QueueLimit = 2
  MinCooldown = 1
  RetryAfters = {0, 3}
  MaxRequests = 2
  Ads = {1, 2, 3, 4}
  Excluded = {4}
  MaxRows = 2
  Limits = {1, 3}
  PagedLimit = 3
  FirstPages = {0, 1, 2}
  LastPage = 2
  ScanBound = 3
  PageSize = 1
  Totals = {2}
  NoPage = NoPage
  Unreported = Unreported
  NoTotal = NoTotal
  Sellers = {1, 2, 3}
  Listings = {a}
  Writers = {w1, w2}
  SellerRetention = 1
  SellerMaximum = 2
  MaxSightings = 1
  MaxIndexTime = 2
  NoRow = NoRow
  Readers = {r1, r2}
  CategoryTTL = 2
  LocationTTL = 1
  FetchTime = 1
  MaxMetaTime = 4
  NoEntry = NoEntry
SYMMETRY Interchangeable
INVARIANTS WebsiteTypeOK RequestsArePaced SilenceIsKept QueueIsBounded FetchedIsReturned CompleteMeansExhausted PagesAreBounded ServedIsRecent
PROPERTIES PreferredNamesStay DroppedForCause
