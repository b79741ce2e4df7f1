---------------------------- MODULE ProductDiff ----------------------------
(***************************************************************************)
(* What differ.py says about two versions of one product, at the grain of  *)
(* the collector: which kind of change, if any, a pair of canonical        *)
(* documents gives rise to.  A canonical document is identified with its   *)
(* content hash (normalise.content_hash is taken to be injective).         *)
(***************************************************************************)
EXTENDS Sequences

CONSTANTS
    Contents,   \* canonical product documents a bank may publish
    Absent,     \* no document: product unknown before, or withdrawn after
    Reading     \* what differ.py's comparison can tell apart in a document

\* Reading maps a document to a representative of the documents the differ
\* calls equal.  It is not the identity: the hash is taken over JSON text,
\* where 1, 1.0 and true differ, and the walk compares Python values, where
\* they do not; a trailing null in a list is hashed but not walked.
ASSUME DocumentAssumption ==
    /\ Absent \notin Contents
    /\ Reading \in [Contents -> Contents]

Docs == Contents \cup {Absent}

\* A row group of product_change: all rows one diff inserts for one product.
Events == [type : {"ADDED", "CHANGED", "WITHDRAWN"}, from : Docs, to : Docs]

Event(type, from, to) == [type |-> type, from |-> from, to |-> to]

\* The walk over two present documents finds something to report.
Differ(prev, doc) == Reading[prev] # Reading[doc]

\* diff_products(previous, current): at most one row group.
Diff(prev, doc) ==
    CASE prev = Absent /\ doc = Absent -> << >>
      [] prev = Absent /\ doc # Absent -> <<Event("ADDED", prev, doc)>>
      [] prev # Absent /\ doc = Absent -> <<Event("WITHDRAWN", prev, doc)>>
      [] OTHER -> IF Differ(prev, doc)
                  THEN <<Event("CHANGED", prev, doc)>> ELSE << >>

\* The document a product last had according to an event.
LastDoc(event) == IF event.type = "WITHDRAWN" THEN event.from ELSE event.to
=============================================================================
