SPECIFICATION LiveSpec
CONSTANTS
  Xids = {x1, x2}
  Sources = {1}
  Subs = {}
  Ends = {"commit"}
  Top = Top
  BatchRows = 1
  ChunkRows = 1
  StagingLimit = 4
  MaxChanges = 2
  MaxDrops = 0
  MaxCrashes = 1
  MaxRestarts = 0
INVARIANT TypeOK
INVARIANT CommitOrder
INVARIANT FrontierComplete
INVARIANT PersistedComplete
INVARIANT FeedbackSafe
PROPERTY CommitsPublished
CHECK_DEADLOCK FALSE
