CONSTANTS
    N = 4
    WeightDummy = 2
    Owners = {"SERVER", "CLIENT", "BOTH"}
    Pairs <- Complete4
    Inputs <- MCInputs
SPECIFICATION Spec
INVARIANTS TypeOK PartitionOK AdjOK WeightsCurrent ClustersAccounted
    OpenedStillIsolated EveryRoundMerges SubgraphsSound ResultIsMsf
PROPERTIES NothingDropped
