SPECIFICATION FairSpec
CONSTANTS
    Runs = {1, 2, 3}
    Products = {1, 2}
    a = a
    b = b
    b2 = b2
    Contents = {a, b}
    Reading <- MCReading
    Absent = Absent
    Faults = {}
    Overlap = TRUE
    Garbled = FALSE
INVARIANT FeedExplainsState
PROPERTY PassesEnd
