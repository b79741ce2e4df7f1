--------------------------- MODULE MCCollectBrand ---------------------------
(* CollectBrand on a small catalogue.                                      *)
EXTENDS CollectBrand, TLC

CONSTANTS a, b, b2  \* documents; b and b2 hash apart and read alike

MCReading == [c \in Contents |-> IF c = b2 THEN b ELSE c]
=============================================================================
