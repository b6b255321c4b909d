CONSTANTS
    Sizes = {2}
    Workloads <- MCWorkloads
    MaxBatches = 1
    MaxRuns = 1
    Crashes = FALSE
SPECIFICATION Spec
INVARIANTS TriplesAlwaysMatch
CHECK_DEADLOCK FALSE
