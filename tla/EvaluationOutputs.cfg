SPECIFICATION Spec
CONSTANTS
    Workloads <- MCLaterFirst
    Seeds = {1}
    ShareBits = 2
    KeyBits = 3
    Flip <- MCFlip
INVARIANT OutputsAreClear
CHECK_DEADLOCK FALSE
