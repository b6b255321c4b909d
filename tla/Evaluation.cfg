SPECIFICATION Spec
CONSTANTS
    Workloads <- MCWorkloads
    Seeds = {1, 2}
    ShareBits = 2
    KeyBits = 3
    Flip <- MCFlip
INVARIANTS TypeOK SharesOpen NoUseAfterFree PreparedSuffices BuffersAgree ConversionsAreThrough
PROPERTY ImplementsIdeal
