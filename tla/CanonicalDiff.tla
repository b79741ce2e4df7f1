--------------------------- MODULE CanonicalDiff ---------------------------
(***************************************************************************)
(* One product's payload on its way into the feed: normalise.canonicalise, *)
(* differ.diff_products and normalise.headline_rate, as the bank edits,    *)
(* reorders and respells what it publishes and the collector               *)
(* comes by (collector._store_product).                                    *)
(*                                                                         *)
(* A product has arrays of entries, an entry a natural key and a decimal;  *)
(* additionalInformation stands for the nested objects.  An absent array   *)
(* is an empty one.                                                        *)
(***************************************************************************)
EXTENDS Naturals, FiniteSets, FiniteSetsExt, SequencesExt

CONSTANTS
    Arrays,      \* names of the arrays, members of DOMAIN TypeOf
    Keys,        \* natural keys, in sorting order
    Spellings,   \* decimals as written, in sorting order
    Fold,        \* how _decimal_str writes them
    Infos,       \* what additionalInformation may hold: members of InfoKinds
    MaxEntries,  \* bound on the entries of a payload
    MaxEdits,    \* bound on the edits between two collections
    MaxChanges,  \* max_changes_per_product
    Unknown      \* no snapshot yet

\* "empty" is {}, "hollow" an object of fields that are all volatile, null or
\* empty, "text" any other object.
InfoKinds == {"none", "empty", "hollow", "text"}

\* _PREFIX_RULES, for the fields modelled here.
TypeOf == [depositRates |-> "RATE_CHANGED", lendingRates |-> "RATE_CHANGED",
           fees |-> "FEE_CHANGED", additionalInformation |-> "TERMS_CHANGED"]

Entry == [key : Keys, value : Spellings]
Documents == [arrays : [Arrays -> Seq(Entry)], info : InfoKinds]

ASSUME DocumentsAssumption ==
    /\ Arrays \subseteq DOMAIN TypeOf \ {"additionalInformation"}
    /\ IsFiniteSet(Keys) /\ Keys \subseteq Nat \ {0}
    /\ IsFiniteSet(Spellings) /\ Spellings \subseteq Nat \ {0}
    /\ Fold \in [Spellings -> Spellings]
    /\ \A v \in Spellings : Fold[Fold[v]] = Fold[v]
    /\ Infos \subseteq InfoKinds /\ "none" \in Infos
    /\ {MaxEntries, MaxEdits, MaxChanges} \subseteq Nat \ {0}
    /\ Unknown \notin Documents

VARIABLES
    raw,      \* the payload the bank publishes
    stored,   \* the canonical document last stored
    edits     \* edits since then

vars == <<raw, stored, edits>>
-----------------------------------------------------------------------------
(* normalise.py                                                            *)

Base == Max(Spellings) + 1

\* ARRAY_SORT_KEYS: the natural key of a deposit rate includes the rate, that
\* of a lending rate or a fee does not include the rate or the amount.
Rank(f, e) ==
    IF f = "depositRates" THEN e.key * Base + e.value ELSE e.key

\* list.sort, which is stable: equal ranks keep their order.
Sorted(f, seq) ==
    LET before(i) == {j \in DOMAIN seq : \/ Rank(f, seq[j]) < Rank(f, seq[i])
                                        \/ (Rank(f, seq[j]) = Rank(f, seq[i]) /\ j <= i)}
    IN  [n \in DOMAIN seq |-> seq[CHOOSE i \in DOMAIN seq : Cardinality(before(i)) = n]]

\* Mutant: only a decimal in its plain spelling is read.
FoldedPlain(seq) ==
    [i \in DOMAIN seq |-> [seq[i] EXCEPT !.value = IF Fold[@] = @ THEN @ ELSE 0]]

Folded(seq) == [i \in DOMAIN seq |-> [seq[i] EXCEPT !.value = Fold[@]]]

\* _canonicalise_value drops a field that is null or {} before it looks into it:
\* an object whose own fields are all dropped stays, as {}.
Trimmed(info) ==
    CASE info = "hollow" -> "empty"
      [] info = "text" -> "text"
      [] info \in {"none", "empty"} -> "none"

\* Mutant: the order is the bank's.
CanonicalUnsorted(p) ==
    [arrays |-> [f \in Arrays |-> Folded(p.arrays[f])],
     info |-> Trimmed(p.info)]

\* Mutant: arrays are sorted as they are written, then rendered.
CanonicalEarly(p) ==
    [arrays |-> [f \in Arrays |-> Folded(Sorted(f, p.arrays[f]))],
     info |-> Trimmed(p.info)]

\* Decimals are respelled first, arrays sorted as they then read.
Canonical(p) ==
    [arrays |-> [f \in Arrays |-> Sorted(f, Folded(p.arrays[f]))],
     info |-> Trimmed(p.info)]

Values(doc, f) ==
    IF f \in Arrays THEN {doc.arrays[f][i].value : i \in DOMAIN doc.arrays[f]} ELSE {}

\* headline_rate: what product_current shows.
Headline(doc) ==
    IF doc = Unknown THEN <<"none", 0>>
    ELSE IF Values(doc, "depositRates") # {} THEN <<"deposit", Max(Values(doc, "depositRates"))>>
    ELSE IF Values(doc, "lendingRates") # {} THEN <<"lending", Min(Values(doc, "lendingRates"))>>
    ELSE <<"none", 0>>
-----------------------------------------------------------------------------
(* differ.py.  A row is <<path, old_value, new_value>>.                    *)

None == [key |-> 0, value |-> 0]
At(seq, i) == IF i \in DOMAIN seq THEN seq[i] ELSE None

Row(path, old, new) == IF old = new THEN {} ELSE {<<path, old, new>>}

EntryRows(path, old, new) ==
    IF None \in {old, new} THEN Row(path, old, new)
    ELSE UNION {Row(Append(path, part), old[part], new[part]) : part \in DOMAIN old}

\* Mutant: as far as both arrays reach.
ArrayRowsZipped(f, old, new) ==
    IF << >> \in {old, new} THEN Row(<<f>>, old, new)
    ELSE UNION {EntryRows(<<f, i>>, At(old, i), At(new, i)) : i \in DOMAIN old \cap DOMAIN new}

\* Mutant: the old array is compared from its end.
ArrayRowsBackwards(f, old, new) ==
    IF << >> \in {old, new} THEN Row(<<f>>, old, new)
    ELSE UNION {EntryRows(<<f, i>>, At(Reverse(old), i), At(new, i)) :
                    i \in DOMAIN old \cup DOMAIN new}

\* Arrays are compared by position; an absent one is compared as a whole.
ArrayRows(f, old, new) ==
    IF << >> \in {old, new} THEN Row(<<f>>, old, new)
    ELSE UNION {EntryRows(<<f, i>>, At(old, i), At(new, i)) : i \in DOMAIN old \cup DOMAIN new}

\* _walk, without its limit.
Walk(old, new) ==
    Row(<<"additionalInformation">>, old.info, new.info)
    \cup UNION {ArrayRows(f, old.arrays[f], new.arrays[f]) : f \in Arrays}

Truncated == {<< <<"/">>, "truncated", "truncated">>}

\* Mutant: a walk that has reached its limit reports nothing.
DiffSilent(old, new) ==
    IF old = Unknown THEN {<< << >>, old, new>>}
    ELSE IF Cardinality(Walk(old, new)) >= MaxChanges THEN {} ELSE Walk(old, new)

\* diff_products, for a product that is offered.
Diff(old, new) ==
    IF old = Unknown THEN {<< << >>, old, new>>}
    ELSE IF Cardinality(Walk(old, new)) >= MaxChanges THEN Truncated ELSE Walk(old, new)

\* Mutant: a rule's own path is not matched, only what is below it.
ClassifyBelow(path) ==
    IF path = << >> THEN "PRODUCT_ADDED"
    ELSE IF path[1] \in DOMAIN TypeOf /\ Len(path) > 1 THEN TypeOf[path[1]] ELSE "OTHER_CHANGED"

\* _classify, and the type of the row for a new product.
Classify(path) ==
    IF path = << >> THEN "PRODUCT_ADDED"
    ELSE IF path[1] \in DOMAIN TypeOf THEN TypeOf[path[1]] ELSE "OTHER_CHANGED"
-----------------------------------------------------------------------------
Init ==
    /\ raw = [arrays |-> [f \in Arrays |-> << >>], info |-> "none"]
    /\ stored = Unknown
    /\ edits = 0

\* The bank edits its payload; arrays may come out in any order.
Publish(new) ==
    /\ edits < MaxEdits
    /\ raw' = new
    /\ edits' = edits + 1
    /\ UNCHANGED stored

Size(p) == Cardinality(UNION {{f} \X DOMAIN p.arrays[f] : f \in Arrays})

Reprice ==
    \E f \in Arrays : \E i \in DOMAIN raw.arrays[f], v \in Spellings :
        Publish([raw EXCEPT !.arrays[f][i].value = v])
AddEntry ==
    \E f \in Arrays, e \in Entry :
        /\ Size(raw) < MaxEntries
        /\ Publish([raw EXCEPT !.arrays[f] = Append(@, e)])
DropEntry ==
    \E f \in Arrays : \E i \in DOMAIN raw.arrays[f] :
        Publish([raw EXCEPT !.arrays[f] = RemoveAt(@, i)])
Reorder ==
    \E f \in Arrays :
        /\ Len(raw.arrays[f]) > 1
        /\ Publish([raw EXCEPT !.arrays[f] = Reverse(@)])
Reinform == \E info \in Infos : Publish([raw EXCEPT !.info = info])

\* _store_product: canonicalise, compare with the last snapshot, store the new
\* one and the change rows between the two.
Collect ==
    /\ stored' = Canonical(raw)
    /\ edits' = 0
    /\ UNCHANGED raw

Rows == Diff(stored, stored')
Collected == stored # Unknown /\ edits > 0 /\ edits' = 0

Next == Reprice \/ AddEntry \/ DropEntry \/ Reorder \/ Reinform \/ Collect
Spec == Init /\ [][Next]_vars
-----------------------------------------------------------------------------
TypeOK ==
    /\ raw \in Documents
    /\ stored = Unknown \/ stored \in Documents
    /\ edits \in 0 .. MaxEdits

\* What a payload says to a reader: which entries it has how often, whatever
\* their order and spelling; volatile, null and empty fields say nothing.
Meaning(p) ==
    [arrays |-> [f \in Arrays |-> [e \in Entry |->
        Cardinality({i \in DOMAIN p.arrays[f] :
            p.arrays[f][i].key = e.key /\ Fold[p.arrays[f][i].value] = e.value})]],
     info |-> IF p.info = "text" THEN "text" ELSE "none"]

\* No two entries of an array share a natural key.
Unambiguous(p) ==
    \A f \in Arrays : \A i, j \in DOMAIN p.arrays[f] :
        p.arrays[f][i].key = p.arrays[f][j].key => i = j

\* The differ reports movement and nothing but movement (docs/data-model.md): a
\* payload that says the same as the last one - reordered, respelled - gives
\* the same document and no row, if its entries have natural keys and an object
\* with nothing in it does not come or go, which the {} stored for it shows.
NoiseUnreported ==
    [][Collected /\ Meaning(raw) = Meaning(stored) /\ Unambiguous(raw)
            /\ (raw.info = "hollow" <=> stored.info = "empty") =>
            Rows = {} /\ stored' = stored]_vars

\* ... and one that says something else gives a row, also beyond the limit.
MeaningReported ==
    [][Collected /\ Meaning(raw) # Meaning(stored) => Rows # {}]_vars

\* The document with the new values of the rows put where the rows say.
NewAt(changes, path, old) ==
    IF \E row \in changes : row[1] = path
    THEN (CHOOSE row \in changes : row[1] = path)[3] ELSE old
PatchedEntry(changes, path, old) ==
    NewAt(changes, path, [part \in DOMAIN old |-> NewAt(changes, Append(path, part), old[part])])
PatchedArray(changes, f, old) ==
    LET at(i) == PatchedEntry(changes, <<f, i>>, At(old, i))
        kept == {i \in 1 .. MaxEntries : at(i) # None}
    IN  NewAt(changes, <<f>>, [i \in 1 .. Cardinality(kept) |-> at(i)])
Patched(doc, changes) ==
    [arrays |-> [f \in Arrays |-> PatchedArray(changes, f, doc.arrays[f])],
     info |-> NewAt(changes, <<"additionalInformation">>, doc.info)]

\* The rows of a collection are the whole difference: put into the old document
\* they give the new one, wherever entries were added, dropped or moved -
\* unless they were cut off, which one OTHER_CHANGED row at "/" says.
RowsRebuild ==
    [][Collected /\ Rows # Truncated =>
            Patched(stored, Rows) = stored']_vars

\* The headline rate of product_current does not move behind the feed's back:
\* one of the rows of that collection is a rate change or a new product, or the
\* rows were cut off and the one row says only that.
HeadlineExplained ==
    [][Headline(stored') # Headline(stored) =>
            \E row \in Rows : \/ Classify(row[1]) \in {"RATE_CHANGED", "PRODUCT_ADDED"}
                               \/ Rows = Truncated]_vars

\* Positional comparison is meaningful (differ.py): while the natural keys of an
\* array stay the same and distinct, an entry is compared with itself only.
KeysOf(p, f) == {p.arrays[f][i].key : i \in DOMAIN p.arrays[f]}
LikeWithLike ==
    [][Collected /\ Unambiguous(raw) /\ Unambiguous(stored)
            /\ (\A f \in Arrays : KeysOf(raw, f) = KeysOf(stored, f)) =>
            \A row \in Rows : Len(row[1]) = 3 => row[1][3] = "value"]_vars

\* Normalising keeps what a payload says.  Normalising a stored document again
\* leaves its arrays as they are, decimals and order, and the whole document
\* unless it holds a {}, which is dropped the second time (normalise.py:99).
CanonicalStable ==
    /\ Meaning(Canonical(raw)) = Meaning(raw)
    /\ stored # Unknown =>
        /\ Canonical(stored).arrays = stored.arrays
        /\ stored.info # "empty" => Canonical(stored) = stored
-----------------------------------------------------------------------------
(* What the documents say and the code does not do.                        *)

\* "arrays sorted by a stable natural key ..., so that a bank reordering its
\* rate array is not reported as a change" (docs/data-model.md).
ReorderUnreported ==
    [][Collected /\ Meaning(raw) = Meaning(stored) => Rows = {}]_vars
=============================================================================
