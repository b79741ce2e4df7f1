SPECIFICATION Spec
CONSTANTS
    Brands = {1, 2}
    Runs = {1, 2, 3}
    Threshold = 2
    Cooldown = 1
    Interval = 2
    Poison = {}
    Manual = {"brand"}
    Overlap = TRUE
    Faults = {"database", "statement", "crash"}
    MaxTime = 2
INVARIANTS TypeOK LedgersAgree BreakerCountsStreak OpenOnEvidence
