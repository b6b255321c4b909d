CONSTANTS
    K = 3
    Kappa = 2
    Modulus = 16
    MaxCount = 2
    Inputs <- MCInputs
SPECIFICATION Spec
INVARIANTS IndicesValid LabelsAreComponents TreeComplete DrawsEveryEdgeOnce RandIntFair
