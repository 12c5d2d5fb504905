CONSTANTS
  Clients = {c1, c2}
  Modes = {hns, sardine}
  DefaultMode = hns
  FreezeTag = freezetag
  NoMode = nomode
  MayOvertake = FALSE
  MayHurry = FALSE
  Budgets <- MCTwo
SPECIFICATION Spec
SYMMETRY MCSymmetry
INVARIANTS
  TypeOK
  AllKnow
CHECK_DEADLOCK FALSE
