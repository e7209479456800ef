SPECIFICATION Spec
CONSTANTS
    dec1 = dec1  asm1 = asm1  asm2 = asm2
    nrm1 = nrm1  nrm2 = nrm2  res1 = res1  Nobody = Nobody
    NBatches = 2
    JobIds <- PipelineJobs
    Workers <- ParallelWorkers
    Serves <- ParallelServes
    MaxAttempts = 1
    MaxFaults = 0
    MaxStalls = 0
    MaxRetries = 0
INVARIANT AttemptReflectsEvents
CHECK_DEADLOCK FALSE
