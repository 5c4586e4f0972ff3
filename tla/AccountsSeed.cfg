\* The owner's address is given with capitals.
CONSTANTS
  owner = owner
  r1 = r1
  r2 = r2
  r3 = r3
  r4 = r4
  r5 = r5
  Owner = owner
  Requests = {r1, r2, r3}
  o = o
  O = O
  v = v
  V = V
  Emails = {o, O, v, V}
  Lower <- LowerCase
  SeedEmail = O
SPECIFICATION Spec
SYMMETRY Symmetry
INVARIANT EveryAccountCanLogIn
CHECK_DEADLOCK FALSE
