-------------------------- MODULE MCCanonicalDiff --------------------------
(* CanonicalDiff with three spellings of two decimals.                      *)
EXTENDS CanonicalDiff

\* 3 is another way to write 1.
MCFold == [v \in Spellings |-> IF v = 3 THEN 1 ELSE v]
=============================================================================
