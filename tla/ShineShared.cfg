CONSTANTS
  Clients = {c1, c2}
  Shines = {s1, s2, s3}
  NoShine = none
  Cap = 3
  Newcomers = {c2}
  Finds <- MCFinds
  MaxRefusals = 1
  c1 = c1
SPECIFICATION FairSpec
INVARIANTS
  TypeOK
PROPERTIES
  SharedUnlessOverlap
CHECK_DEADLOCK FALSE
