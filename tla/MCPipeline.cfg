SPECIFICATION Spec
CONSTANTS
    dec1 = dec1  asm1 = asm1  asm2 = asm2
    nrm1 = nrm1  nrm2 = nrm2  res1 = res1  Nobody = Nobody
    NBatches = 2
    JobIds <- PipelineJobs
    Workers <- MCWorkers
    Serves <- MCServes
    MaxAttempts = 1
    MaxFaults = 1
    MaxStalls = 1
    MaxRetries = 1
CONSTRAINT OneMishap
SYMMETRY MCSymmetry
INVARIANTS TypeOK StageChain ParsedIsVisible SettledIsComplete
PROPERTY ProjectionsGrow
CHECK_DEADLOCK FALSE
