CONSTANTS
  Blocks = {b1}
  Backups = {gameInf}
  Resent <- MCNothing
  Fresh = fresh
  Null = null
  QueueSize = 1
  MaxFd = 3
  MaxDrops = 1
  MaxCrossings = 1
  MaxNested = 1
  DirectSends = 1
  SendMayFail = TRUE
  b1 = b1
  b2 = b2
  gameInf = gameInf
SPECIFICATION Spec
INVARIANTS
  ThreadsServeConnection
CHECK_DEADLOCK FALSE
