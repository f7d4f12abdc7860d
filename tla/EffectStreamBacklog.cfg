SPECIFICATION Spec
CONSTANTS
  Kind = "source"
  Consumers = {c1, c2}
  Payloads <- MCSmallPayloads
  TargetRows = 2
  TargetBytes = 2
  HighChunks = 2
  HighRows = 4
  HighBytes = 4
  LowChunks = 1
  LowRows = 2
  LowBytes = 3
  GcChunks = 2
  GcRows = 1
  GcBytes = 3
  MaxLsn = 3
  MaxChunks = 3
INVARIANT BacklogIgnored
CHECK_DEADLOCK FALSE
