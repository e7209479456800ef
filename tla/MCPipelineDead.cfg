SPECIFICATION Spec
CONSTANTS
    dec1 = dec1  asm1 = asm1  asm2 = asm2
    nrm1 = nrm1  nrm2 = nrm2  res1 = res1  Nobody = Nobody
    NBatches = 3
    JobIds <- PipelineJobs
    Workers <- SerialWorkers
    Serves <- SerialServes
    MaxAttempts = 1
    MaxFaults = 1
    MaxStalls = 0
    MaxRetries = 0
CONSTRAINT OneAtATime
INVARIANT DeadDoesNotBlock
CHECK_DEADLOCK FALSE
