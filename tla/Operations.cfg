SPECIFICATION FairSpec
CONSTANTS
    Invocations = {1, 2, 3}
    Requests <- MCRequests
    initial_schema = initial_schema
    record_product_failures = record_product_failures
    Files <- MCFiles
    Alters <- MCAlters
INVARIANTS TypeOK MigratedOnce RunsOnNewestSchema BackupKeepsPast
PROPERTY InvocationsEnd
