SPECIFICATION Spec
CONSTANTS
    d1 = d1
    d2 = d2
    d3 = d3
    Discoveries = {d1, d2, d3}
    Published <- MCPublished
    FallbackLists <- MCFallbackLists
    Allowlists <- MCAllowlists
    Noise <- MCNoise
    TooGeneric <- MCTooGeneric
    FreshFail = 1
    Week = 2
    MaxTime = 3
SYMMETRY Alike
INVARIANTS TypeOK OneSourceAtATime EmptyRegistryNoticed
PROPERTIES NeverGuessed LossesExplained LeftDated
