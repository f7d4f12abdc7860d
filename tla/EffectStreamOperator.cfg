SPECIFICATION FairSpec
CONSTANTS
  Kind = "operator"
  Consumers = {c1, c2}
  Payloads <- MCPayloads
  TargetRows = 2
  TargetBytes = 2
  HighChunks = 3
  HighRows = 4
  HighBytes = 4
  LowChunks = 1
  LowRows = 2
  LowBytes = 3
  GcChunks = 2
  GcRows = 1
  GcBytes = 3
  MaxLsn = 2
  MaxChunks = 4
INVARIANT TypeOK
INVARIANT UnreadRetained
INVARIANT CountersExact
INVARIANT BufferBounded
INVARIANT FrontiersSound
PROPERTY RefinesFanoutLog
PROPERTY BackpressureClears
PROPERTY ConsumersCatchUp
CHECK_DEADLOCK FALSE
