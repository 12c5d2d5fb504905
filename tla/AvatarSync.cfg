CONSTANTS
  Hacks = {goomba, frog}
  Listed = {goomba}
  NoHack = nohack
  Unset = unset
  MaxQueue = 2
  MaxWire = 2
  MaxEvents = 3
SPECIFICATION SyncFairSpec
INVARIANTS
  SyncTypeOK
  OneModel
  FreshShown
  CaptureKnown
  DimensionKnown
PROPERTIES
  PlainSeen

CHECK_DEADLOCK FALSE
