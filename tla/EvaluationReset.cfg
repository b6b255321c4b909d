SPECIFICATION Spec
CONSTANTS
    Workloads <- MCTablesThenNone
    Seeds = {1}
    ShareBits = 2
    KeyBits = 3
    Flip <- MCFlip
INVARIANT ResetAllowsNextCircuit
CHECK_DEADLOCK FALSE
