SPECIFICATION Spec
CONSTANTS
    Arrays = {"depositRates", "lendingRates"}
    Keys = {1, 2}
    Spellings = {1, 2, 3}
    Fold <- MCFold
    Infos = {"none", "empty", "text"}
    MaxEntries = 3
    MaxEdits = 2
    MaxChanges = 3
    Unknown = Unknown
PROPERTY ReorderUnreported
