--------------------------- MODULE MCFetchClient ---------------------------
(* FetchClient with two brands on one host: two calls for the first.        *)
EXTENDS FetchClient

MCBrand == [c \in Calls |-> IF c <= 2 THEN 1 ELSE 2]
=============================================================================
