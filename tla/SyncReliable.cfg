CONSTANTS
  Players = {p1, p2}
  NoOne = noone
  Stages = {s1, s2}
  NoStage = nostage
  MaxSlots = 2
  Limits = {2}
  HolderCap = 1
  MayShrink = FALSE
  LowestCount <- MCLowest
  Udp = FALSE
  MaxTcp = 2
  MaxMissed = 1
  MaxOutages = 0
SPECIFICATION SyncFairSpec
INVARIANTS
  SyncTypeOK
  InSync
PROPERTIES
  ImplementsDelayedView
  GoneVanish
  AbsentAreHidden
  PresentAreShown
