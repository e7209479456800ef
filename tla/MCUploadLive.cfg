SPECIFICATION FairSpec
CONSTANTS
  body = body
  MaxSeq = 3
  MaxSegments = 3
  BatchEvents = 2
  MaxFaults = 1
  Blobs = {body}
  Body <- MCBody
  Stored = {body}
  NoBlob = none
  HookEnds = {}
  LateSeal = FALSE
  AutoSeal = FALSE
  Reclaim = FALSE
INVARIANT SealedAtPlan
PROPERTY UploadCompletes
