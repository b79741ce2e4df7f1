SPECIFICATION Spec
CONSTANTS
    Invocations = {1, 2}
    Requests <- MCTwo
    initial_schema = initial_schema
    record_product_failures = record_product_failures
    Files <- MCFiles
    Alters <- MCAlters
INVARIANT RestoreVerifies
