\* Five requests; the owner's address is given in lower case.
CONSTANTS
  owner = owner
  r1 = r1
  r2 = r2
  r3 = r3
  r4 = r4
  r5 = r5
  Owner = owner
  Requests = {r1, r2, r3, r4, r5}
  o = o
  O = O
  v = v
  V = V
  Emails = {o, O, v, V}
  Lower <- LowerCase
  SeedEmail = o
SPECIFICATION Spec
SYMMETRY Symmetry
INVARIANTS
  TypeOK
  OneLiveToken
  LogoutEndsSession
  NothingForInactive
  OneAccountPerAddress
  EveryAccountCanLogIn
CHECK_DEADLOCK FALSE
