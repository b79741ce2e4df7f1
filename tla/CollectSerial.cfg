SPECIFICATION Spec
CONSTANTS
    Runs = {1, 2, 3}
    Products = {1, 2}
    a = a
    b = b
    b2 = b2
    Contents = {a, b, b2}
    Reading <- MCReading
    Absent = Absent
    Faults = {"fetch", "unparseable", "raise", "abort"}
    Overlap = FALSE
    Garbled = FALSE
INVARIANTS TypeOK CacheRebuildable NewSnapshotsReported FeedReplays
PROPERTIES ImplementsChangeFeed LedgerAccounts OnlyUnofferedWithdrawn
