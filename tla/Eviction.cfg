SPECIFICATION Spec
CONSTANTS
  None = None
  IDs = {a1, a2, a3, a4}
  Data = {d1, d2}
  CacheSize = 3
  MaxStores = 8
INVARIANTS
  KeysAreEntries
PROPERTIES
  EvictsOldest
  KeepsContract
