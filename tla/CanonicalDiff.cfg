SPECIFICATION Spec
CONSTANTS
    Arrays = {"depositRates", "lendingRates"}
    Keys = {1, 2}
    Spellings = {1, 2, 3}
    Fold <- MCFold
    Infos = {"none", "empty", "hollow", "text"}
    MaxEntries = 3
    MaxEdits = 2
    MaxChanges = 3
    Unknown = Unknown
INVARIANTS TypeOK CanonicalStable
PROPERTIES NoiseUnreported MeaningReported RowsRebuild HeadlineExplained LikeWithLike
