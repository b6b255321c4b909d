SPECIFICATION Spec
CONSTANTS
    NumOTThreads = 1
    MTGenAlg = "MT_PAILLIER"
    Window = 2
    Circuits <- MCCircuits
INVARIANTS TasksNotShared OTsPaired ReceivesItsData TriplesDivided
PROPERTY SetupEnds
\* When all circuits are through nothing is left to do; SetupEnds says that
\* nothing stops before.
CHECK_DEADLOCK FALSE
