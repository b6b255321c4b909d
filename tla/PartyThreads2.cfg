CONSTANTS
    Layers = 2
    Capacity = 1
    Traffics <- MCTraffics
SPECIFICATION Spec
INVARIANTS BuffersNotShared CounterExact WokenBySendOnly ReceivesOwnLayer
PROPERTIES BothFinish
