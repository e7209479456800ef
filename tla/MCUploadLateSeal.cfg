SPECIFICATION Spec
CONSTANTS
  body = body
  MaxSeq = 3
  MaxSegments = 2
  BatchEvents = 2
  MaxFaults = 1
  Blobs = {body}
  Body <- MCBody
  Stored = {body}
  NoBlob = none
  HookEnds = {2}
  LateSeal = TRUE
  AutoSeal = FALSE
  Reclaim = FALSE
INVARIANT SealedAtPlan
