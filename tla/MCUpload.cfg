SPECIFICATION Spec
CONSTANTS
  body = body
  MaxSeq = 3
  MaxSegments = 2
  BatchEvents = 2
  MaxFaults = 2
  Blobs = {body}
  Body <- MCBody
  Stored = {body}
  NoBlob = none
  HookEnds = {2}
  LateSeal = TRUE
  AutoSeal = TRUE
  Reclaim = TRUE
CONSTRAINT TwoMishaps
INVARIANTS
  TypeOK FixedPlan AckedIsDurable RetentionSafe SegmentsTile RunEndIsComplete
  MissingIsListed
PROPERTY NothingTakenBack
