---------------------------- MODULE MCOperations ----------------------------
(* Operations on the two migration files of the repository.                 *)
EXTENDS Operations

CONSTANTS initial_schema, record_product_failures

MCFiles == <<initial_schema, record_product_failures>>
MCAlters == [f \in FileNames |->
                IF f = record_product_failures THEN {"collection_run_brand"} ELSE {}]

\* What invocations 1, 2 and 3 are asked for.
MCRequests == {<<"collect", "collect", "backup">>, <<"collect", "migrate", "backup">>,
               <<"collect", "migrate", "migrate">>, <<"collect", "backup", "backup">>}

MCTwo == {<<"collect", "backup">>}
=============================================================================
