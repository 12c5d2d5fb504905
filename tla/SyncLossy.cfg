CONSTANTS
  Players = {p1, p2}
  NoOne = noone
  Stages = {s1}
  NoStage = nostage
  MaxSlots = 3
  Limits = {1, 2}
  HolderCap = 1
  MayShrink = FALSE
  LowestCount <- MCLowest
  Udp = TRUE
  MaxTcp = 3
  MaxMissed = 1
  MaxOutages = 1
SPECIFICATION SyncSpec
SYMMETRY MCSymmetry
INVARIANTS
  OneSlotPerPlayer
  NobodyBeyondLimit
  CountNeverOverstates
  EveryoneKnown
