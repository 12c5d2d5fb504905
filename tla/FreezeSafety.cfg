CONSTANTS
  Second = 3
  Sixty = 2
  FrameTimes = {0, 2}
  Puppets = 2
  Active = {1}
  RoundLengths = {2}
  Keys = {"L", "down"}
  Overlaps = {}
SPECIFICATION FairSpec
INVARIANTS
  TypeOK
  ChaserNeverFrozen
  NeverBelowZero
PROPERTIES
  SurvivalEarned
  Thawed
  RoundEnds
CHECK_DEADLOCK FALSE
