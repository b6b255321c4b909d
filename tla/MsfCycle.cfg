CONSTANTS
    N = 7
    WeightDummy = 3
    Owners = {"BOTH"}
    Pairs <- Cycle7
    Inputs <- SplitInputs
SPECIFICATION Spec
PROPERTIES Termination ImplementsContraction
