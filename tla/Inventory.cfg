\* Three imports of one tenant: two may lock the same rows, one may be refused.
CONSTANTS
  i1 = i1
  i2 = i2
  i3 = i3
  p = p
  q = q
  shop = shop
  Imports = {i1, i2, i3}
  Skus = {p, q}
  Catalogue = {p}
  Locations = {shop}
  Items = {"1", "2"}
  Files <- TwoMayLock
  MaxRetries = 1
  Troubled = {i3}
SPECIFICATION FairSpec
INVARIANTS
  TypeOK
  SerialInCommitOrder
  RepeatedOnlyInOverlap
  CreatedTwiceOnlyInOverlap
  ReferencesResolve
  EveryRowAccountedFor
  VictimsOnlyByLockOrder
PROPERTY EveryImportEnds
CHECK_DEADLOCK FALSE
