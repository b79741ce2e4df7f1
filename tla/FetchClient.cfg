\* The client stops once every call has ended; CallsEnd says that each does.
SPECIFICATION FairSpec
CONSTANTS
    Calls = {1, 2, 3}
    Brand <- MCBrand
    Kinds = {"list", "detail"}
    StartVersion = 4
    Floor = 3
    Ceiling = 5
    SanityCap = 6
    MaxRetries = 1
    Slots = 1
    Served = {3, 6}
    Claimed = {9}
    Named = {2, 6, 8}
CHECK_DEADLOCK FALSE
INVARIANTS TypeOK RefusedNotReasked RequestsBounded VersionFailuresHonest HostRemembered
PROPERTIES CallsEnd
