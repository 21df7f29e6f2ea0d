SPECIFICATION Spec
CONSTANTS
    Base = 2
    T = 2
    MinDigits = 6
    MaxDigits = 8
    LoadFactor = 1
    MinBuckets = 2
    Ids = {33, 37, 45, 51, 60, 71, 90, 154}
    Batches <- MCBatches
    Slacks = {0, 2}
    NoBound = NoBound
    Capacities = {0, 5}
    Fragments <- MCFragments
INVARIANTS
    BucketsAreSound
    FuzzySound
    FuzzyFindsWhatLostAnEnd
PROPERTIES
    ImplementsIdSet
