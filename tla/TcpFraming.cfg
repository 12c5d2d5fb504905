CONSTANTS
  Bodies <- MCBodies
  Header = 2
  MaxPack = 4
  QueueSize = 1
  Builds = {"console", "emulator"}
  MaxBreaks = 2
  Garbage = garbage
SPECIFICATION FairSpec
INVARIANTS
  TypeOK
  CopiesFit
PROPERTIES
  StrayCauses
  ImplementsPacketStream
  ServerCloseNoticed
CHECK_DEADLOCK FALSE
