CONSTANTS
  Clients = {c1}
  Modes = {hns, sardine}
  DefaultMode = hns
  FreezeTag = freezetag
  NoMode = nomode
  MayOvertake = TRUE
  MayHurry = TRUE
  Budgets <- MCAlone
SPECIFICATION FairSpec
PROPERTIES
  ModeFollowsPlayer
CHECK_DEADLOCK FALSE
