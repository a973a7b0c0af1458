SPECIFICATION ProfileSpec
CONSTANTS
  Openers = {o1,o2}
  MaxUuids = 3
  MaxGeneration = 2
  NoRowOf = NoRowOf
INVARIANT UuidIsStable
