SPECIFICATION Spec
CONSTANTS
  Xids = {x1}
  Sources = {1}
  Subs = {}
  Ends = {"commit"}
  Top = Top
  BatchRows = 1
  ChunkRows = 1
  StagingLimit = 4
  MaxChanges = 3
  MaxDrops = 0
  MaxCrashes = 0
  MaxRestarts = 1
INVARIANT AbortedInSource
CHECK_DEADLOCK FALSE
