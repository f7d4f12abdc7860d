SPECIFICATION Spec
CONSTANTS
  Xids = {x1}
  Sources = {1}
  Subs = {s1}
  Ends = {"commit", "abort"}
  Top = Top
  BatchRows = 1
  ChunkRows = 1
  StagingLimit = 4
  MaxChanges = 3
  MaxDrops = 1
  MaxCrashes = 0
  MaxRestarts = 1
INVARIANT OnlyCommittedRows
INVARIANT AccountingExact
PROPERTY ProgressMonotone
CHECK_DEADLOCK FALSE
