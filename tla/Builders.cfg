SPECIFICATION Spec
CONSTANTS
    Jobs <- MCJobs
    Samples <- MCSamples
INVARIANT BuildersCompute
\* A built circuit is a final state.
CHECK_DEADLOCK FALSE
