CONSTANTS
    Sizes = {2}
    Workloads <- MCWorkloads
    MaxBatches = 2
    MaxRuns = 1
    Crashes = TRUE
SPECIFICATION Spec
INVARIANTS TriplesMatch NoTripleTwice
PROPERTIES ProcessesEnd
\* Parties with dumps of different batches may wait for each other, and the
\* bounds end the sequence of processes.
CHECK_DEADLOCK FALSE
