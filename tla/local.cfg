SPECIFICATION LocalSpec
CONSTANTS
  s1 = s1 s2 = s2 s3 = s3
  Procs = {p1, p2}
  Parts = {s1, s2, s3}
  Values <- MCValues
  MaxParts = 3
  None = None
  Unknown = Unknown
  Downloaders = {d1, d2}
  ImageCount = 2
  NoEntryThere = NoEntryThere
  Setters = {e1, e2}
  Settings = {k1, k2}
  ConfigValues = {v}
  Wrong = Wrong
  MaxOthers = 1
  ConfigLimit = 4
  Unset = Unset
  NoFile = NoFile
  Openers = {o1, o2}
  MaxUuids = 3
  MaxGeneration = 2
  NoRowOf = NoRowOf
  Convs = {a, b}
  ReadCommands = {x}
  PageRows = 1
  ListLimits = {1, 2}
  ScanLimit = 2
  ReconcilePages = 2
  Unsaid = Unsaid
  NotStored = NotStored
  Callers = {m1, m2}
  Spacing = 1
  Jitters = {0, 1}
  MaxJitter = 1
  MaxTime = 4
  MobileQueueLimit = 1
  ReadAttempts = 2
  Backoff = 0
  AskedDelays = {2, 9}
  LongestDelay = 5
SYMMETRY Interchangeable
INVARIANTS LocalTypeOK ReadsAreWhole SettledIsReadable NothingIsLeftOver InstalledAreWhole ConfigLoadsIfShort ConfirmedReadWasRead RecordedDelayIsKept UnsafeIsSentOnce
PROPERTIES NothingIsReplaced SettledProfileStays
