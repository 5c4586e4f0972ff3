\* A third import of one tenant after two that overlapped.
CONSTANTS
  i1 = i1
  i2 = i2
  i3 = i3
  p = p
  q = q
  shop = shop
  Imports = {i1, i2, i3}
  Skus = {p, q}
  Catalogue = {p}
  Locations = {shop}
  Items = {"1", "2"}
  Files <- ShortFiles
  MaxRetries = 1
  Troubled = {}
SPECIFICATION Spec
SYMMETRY Symmetry
INVARIANT ValidRowsPersisted
CHECK_DEADLOCK FALSE
