----------------------------- MODULE ChangeFeed -----------------------------
(***************************************************************************)
(* What the radar promises about one brand: a current document per         *)
(* product, whether the product is on sale, and a feed of changes that is  *)
(* published together with the state it explains.  One step is one         *)
(* database commit: any set of products is observed or withdrawn at once.  *)
(* CollectBrand implements this when its passes do not overlap.            *)
(***************************************************************************)
EXTENDS ProductDiff, Naturals

CONSTANT Products       \* product ids of the brand

VARIABLES
    shown,      \* product_current.snapshot_id, as the document it points to
    onSale,     \* product_current.is_available
    feed        \* product_change, per product, in insertion order

vars == <<shown, onSale, feed>>

Init ==
    /\ shown = [p \in Products |-> Absent]
    /\ onSale = [p \in Products |-> FALSE]
    /\ feed = [p \in Products |-> << >>]

\* One commit: the products in the domain of doc are observed with that
\* document, those in gone - all on sale - are withdrawn and keep their last
\* document, and the others are left alone.
Publish(doc, gone) ==
    /\ gone \subseteq {p \in Products \ DOMAIN doc : onSale[p]}
    /\ feed' = [p \in Products |->
                    feed[p] \o (IF p \in DOMAIN doc THEN Diff(shown[p], doc[p])
                                ELSE IF p \in gone THEN Diff(shown[p], Absent)
                                ELSE << >>)]
    /\ shown' = [p \in Products |-> IF p \in DOMAIN doc THEN doc[p] ELSE shown[p]]
    /\ onSale' = [p \in Products |-> p \in DOMAIN doc \/ (onSale[p] /\ p \notin gone)]

Next ==
    \E seen, gone \in SUBSET Products :
        \E doc \in [seen -> Contents] : Publish(doc, gone)

Spec == Init /\ [][Next]_vars
-----------------------------------------------------------------------------
TypeOK ==
    /\ shown \in [Products -> Docs]
    /\ onSale \in [Products -> BOOLEAN]
    /\ feed \in [Products -> Seq(Events)]

LastRow(p) == feed[p][Len(feed[p])]

\* A product's first row, and no other, announces it.
OpensWithAdded(p) ==
    \A i \in DOMAIN feed[p] : feed[p][i].type = "ADDED" <=> i = 1

\* Each row starts from what the row before it left, up to Reading.
Links(p) ==
    \A i \in 1 .. Len(feed[p]) - 1 :
        Reading[feed[p][i + 1].from] = Reading[LastDoc(feed[p][i])]

\* The feed ends at the document shown, and with a withdrawal when the product
\* is off sale; the converse fails for one that is back with a document that
\* reads the same, for which no row is written.
ReachesShown(p) ==
    /\ feed[p] = << >> <=> shown[p] = Absent
    /\ onSale[p] => shown[p] # Absent
    /\ feed[p] # << >> =>
        /\ Reading[shown[p]] = Reading[LastDoc(LastRow(p))]
        /\ ~onSale[p] => LastRow(p).type = "WITHDRAWN"

\* Replaying a product's feed yields the document product_current shows: the
\* feed opens with its addition, each row takes up where the previous one
\* ended, and the last row ends at the current document.  This is what a
\* reader of the change feed relies on (docs/data-model.md).
FeedReplays ==
    \A p \in Products : OpensWithAdded(p) /\ Links(p) /\ ReachesShown(p)
=============================================================================
