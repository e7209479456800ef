SPECIFICATION QueueFairSpec
CONSTANTS
    j1 = j1  j2 = j2  w1 = w1  w2 = w2  w3 = w3  Nobody = Nobody
    JobIds <- MCJobIds
    Workers <- MCWorkers
    MaxAttempts = 2
    MaxFaults = 1
    MaxStalls = 1
    MaxRetries = 1
INVARIANTS QueueTypeOK DeadWasTried OneHandler 
PROPERTY JobsSettle
CHECK_DEADLOCK FALSE
