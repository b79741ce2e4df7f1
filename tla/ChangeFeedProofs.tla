-------------------------- MODULE ChangeFeedProofs --------------------------
(* Theorems about ChangeFeed, and the lemmas about Diff they rest on, for   *)
(* every catalogue, set of documents and Reading.                          *)
EXTENDS ChangeFeed, Integers, TLAPS

\* Appending rows leaves the earlier rows where they are.
LEMMA ConcatKeeps ==
    ASSUME NEW S, NEW s \in Seq(S), NEW t \in Seq(S), NEW i \in DOMAIN s
    PROVE  i \in DOMAIN (s \o t) /\ (s \o t)[i] = s[i]
<1>1. Len(s) \in Nat /\ Len(t) \in Nat /\ Len(s \o t) = Len(s) + Len(t)
  OBVIOUS
<1>2. DOMAIN s = 1 .. Len(s) /\ DOMAIN (s \o t) = 1 .. Len(s \o t)
  OBVIOUS
<1>3. QED
  BY <1>1, <1>2

\* A diff has at most one row group.  It is empty only when nothing was there
\* before and after, or when the two documents read alike.
LEMMA DiffShape ==
    ASSUME NEW prev \in Docs, NEW doc \in Docs
    PROVE  \/ /\ Diff(prev, doc) = << >>
              /\ \/ prev = Absent /\ doc = Absent
                 \/ prev \in Contents /\ doc \in Contents /\ Reading[prev] = Reading[doc]
           \/ \E type \in {"ADDED", "CHANGED", "WITHDRAWN"} :
                /\ Diff(prev, doc) = <<Event(type, prev, doc)>>
                /\ type = "ADDED" <=> prev = Absent
                /\ type = "WITHDRAWN" <=> doc = Absent
                /\ prev # Absent \/ doc # Absent
<1>1. CASE prev = Absent /\ doc = Absent
  BY <1>1 DEF Diff
<1>2. CASE prev = Absent /\ doc # Absent
  BY <1>2 DEF Diff
<1>3. CASE prev # Absent /\ doc = Absent
  BY <1>3 DEF Diff
<1>4. CASE prev # Absent /\ doc # Absent
  BY <1>4 DEF Diff, Docs, Differ
<1>5. QED
  BY <1>1, <1>2, <1>3, <1>4

\* No row means that the two documents are equal or read alike.
LEMMA EmptyDiff ==
    ASSUME NEW prev \in Docs, NEW doc \in Docs, Diff(prev, doc) = << >>
    PROVE  \/ prev = Absent /\ doc = Absent
           \/ prev \in Contents /\ doc \in Contents /\ Reading[prev] = Reading[doc]
BY DEF Diff, Docs, Differ

\* A diff is a sequence of events.
LEMMA DiffType ==
    ASSUME NEW prev \in Docs, NEW doc \in Docs
    PROVE  Diff(prev, doc) \in Seq(Events)
<1>1. \A type \in {"ADDED", "CHANGED", "WITHDRAWN"} :
        <<Event(type, prev, doc)>> \in Seq(Events)
  BY DEF Event, Events
<1>2. << >> \in Seq(Events)
  OBVIOUS
<1>3. CASE Diff(prev, doc) = << >>
  BY <1>2, <1>3
<1>4. CASE \E type \in {"ADDED", "CHANGED", "WITHDRAWN"} :
             Diff(prev, doc) = <<Event(type, prev, doc)>>
  BY <1>1, <1>4
<1>5. QED
  BY <1>3, <1>4, DiffShape
-----------------------------------------------------------------------------
\* Type correctness of the abstract feed.
THEOREM TypeCorrect == Spec => []TypeOK
<1>1. Init => TypeOK
  BY DEF Init, TypeOK, Docs
<1>2. TypeOK /\ [Next]_vars => TypeOK'
  <2> SUFFICES ASSUME TypeOK, [Next]_vars PROVE TypeOK'
    OBVIOUS
  <2>1. CASE UNCHANGED vars
    BY <2>1 DEF vars, TypeOK
  <2>2. ASSUME NEW seen \in SUBSET Products, NEW gone \in SUBSET Products,
               NEW doc \in [seen -> Contents], Publish(doc, gone)
        PROVE  TypeOK'
    <3>1. shown' \in [Products -> Docs]
      BY <2>2 DEF TypeOK, Publish, Docs
    <3>2. onSale' \in [Products -> BOOLEAN]
      BY <2>2 DEF TypeOK, Publish
    <3>3. ASSUME NEW p \in Products
          PROVE  feed'[p] \in Seq(Events)
      <4>1. /\ feed[p] \in Seq(Events)
            /\ shown[p] \in Docs
            /\ Absent \in Docs
            /\ p \in DOMAIN doc => doc[p] \in Docs
        BY <2>2 DEF TypeOK, Docs
      <4>2. << >> \in Seq(Events)
        OBVIOUS
      <4>3. (IF p \in DOMAIN doc THEN Diff(shown[p], doc[p])
             ELSE IF p \in gone THEN Diff(shown[p], Absent) ELSE << >>) \in Seq(Events)
        BY <4>1, <4>2, DiffType
      <4>4. QED
        BY <2>2, <4>1, <4>3 DEF Publish
    <3>4. QED
      BY <2>2, <3>1, <3>2, <3>3 DEF TypeOK, Publish
  <2>3. QED
    BY <2>1, <2>2 DEF Next
<1>3. QED
  BY <1>1, <1>2, PTL DEF Spec
-----------------------------------------------------------------------------
\* What one commit adds to the feed of one product keeps it replayable: the
\* row starts at the document shown and ends at the document then shown.
LEMMA AppendKeepsReplay ==
    ASSUME TypeOK, TypeOK', NEW p \in Products, NEW doc \in Docs,
           OpensWithAdded(p), Links(p), ReachesShown(p),
           feed'[p] = feed[p] \o Diff(shown[p], doc),
           shown'[p] = IF doc = Absent THEN shown[p] ELSE doc,
           doc = Absent => onSale[p] /\ ~onSale'[p],
           doc # Absent => onSale'[p]
    PROVE  OpensWithAdded(p)' /\ Links(p)' /\ ReachesShown(p)'
<1> DEFINE prev == shown[p]
           old == feed[p]
<1>1. /\ prev \in Docs
      /\ old \in Seq(Events)
      /\ feed'[p] = old \o Diff(prev, doc)
      /\ Absent \notin Contents
      /\ Reading \in [Contents -> Contents]
  BY DocumentAssumption DEF TypeOK
<1>2. doc = Absent => prev # Absent
  BY DEF ReachesShown
<1>3. CASE Diff(prev, doc) = << >>
  <2>1. /\ prev \in Contents /\ doc \in Contents
        /\ Reading[prev] = Reading[doc]
    BY <1>1, <1>2, <1>3, EmptyDiff
  <2>2. feed'[p] = old
    BY <1>1, <1>3
  <2>3. shown'[p] = doc /\ doc # Absent /\ onSale'[p]
    BY <1>1, <2>1
  <2>4. old # << >>
    BY <1>1, <2>1 DEF ReachesShown
  <2>5. OpensWithAdded(p)' /\ Links(p)'
    BY <2>2 DEF OpensWithAdded, Links
  <2>6. ReachesShown(p)'
    BY <2>1, <2>2, <2>3, <2>4 DEF ReachesShown, LastRow
  <2>7. QED
    BY <2>5, <2>6
<1>4. CASE Diff(prev, doc) # << >>
  <2>1. PICK type \in {"ADDED", "CHANGED", "WITHDRAWN"} :
          /\ Diff(prev, doc) = <<Event(type, prev, doc)>>
          /\ type = "ADDED" <=> prev = Absent
          /\ type = "WITHDRAWN" <=> doc = Absent
    BY <1>1, <1>4, DiffShape
  <2> DEFINE e == Event(type, prev, doc)
             n == Len(old)
  <2>2. /\ feed'[p] = Append(old, e)
        /\ n \in Nat
        /\ Len(feed'[p]) = n + 1
        /\ \A i \in 1 .. n : feed'[p][i] = old[i]
        /\ feed'[p][n + 1] = e
        /\ DOMAIN old = 1 .. n
        /\ DOMAIN feed'[p] = 1 .. (n + 1)
    BY <1>1, <2>1 DEF TypeOK, Events, Event
  <2>3. e.type = type /\ e.from = prev /\ e.to = doc
    BY DEF Event
  <2>4. n = 0 <=> prev = Absent
    BY <1>1, <2>2 DEF ReachesShown
  <2>5. OpensWithAdded(p)'
    BY <2>1, <2>2, <2>3, <2>4 DEF OpensWithAdded
  <2>6. Links(p)'
    <3> SUFFICES ASSUME NEW i \in 1 .. n
                 PROVE  Reading[feed'[p][i + 1].from] = Reading[LastDoc(feed'[p][i])]
      BY <2>2 DEF Links
    <3>1. CASE i < n
      BY <2>2, <3>1 DEF Links
    <3>2. CASE i = n
      BY <2>2, <2>3, <2>4, <3>2 DEF ReachesShown, LastRow
    <3>3. QED
      BY <3>1, <3>2, <2>2
  <2>7. Reading[shown'[p]] = Reading[LastDoc(e)]
    BY <2>1, <2>3 DEF LastDoc
  <2>8. ReachesShown(p)'
    <3>1. feed'[p] # << >> /\ shown'[p] # Absent
      <4>1. feed'[p] # << >>
        BY <2>2
      <4>2. shown'[p] # Absent
        BY <1>2
      <4>3. QED
        BY <4>1, <4>2
    <3>2. LastRow(p)' = e
      BY <2>2 DEF LastRow
    <3>3. ~onSale'[p] => e.type = "WITHDRAWN"
      BY <2>1, <2>3
    <3>4. QED
      BY <2>7, <3>1, <3>2, <3>3 DEF ReachesShown
  <2>9. QED
    BY <2>5, <2>6, <2>8
<1>5. QED
  BY <1>3, <1>4

\* FeedReplays, for every catalogue: a reader who replays a product's rows
\* arrives at the document the radar shows.
THEOREM FeedAlwaysReplays == Spec => []FeedReplays
<1>1. Init => FeedReplays
  <2> SUFFICES ASSUME Init, NEW p \in Products
               PROVE  OpensWithAdded(p) /\ Links(p) /\ ReachesShown(p)
    BY DEF FeedReplays
  <2>1. feed[p] = << >> /\ shown[p] = Absent /\ ~onSale[p]
    BY DEF Init
  <2>2. Len(feed[p]) = 0 /\ DOMAIN feed[p] = {}
    BY <2>1
  <2>3. QED
    BY <2>1, <2>2 DEF OpensWithAdded, Links, ReachesShown
<1>2. TypeOK /\ TypeOK' /\ FeedReplays /\ [Next]_vars => FeedReplays'
  <2> SUFFICES ASSUME TypeOK, TypeOK', FeedReplays, [Next]_vars, NEW p \in Products
               PROVE  OpensWithAdded(p)' /\ Links(p)' /\ ReachesShown(p)'
    BY DEF FeedReplays
  <2>0. OpensWithAdded(p) /\ Links(p) /\ ReachesShown(p)
    BY DEF FeedReplays
  <2>1. CASE shown'[p] = shown[p] /\ onSale'[p] = onSale[p] /\ feed'[p] = feed[p]
    BY <2>0, <2>1 DEF OpensWithAdded, Links, ReachesShown, LastRow
  <2>2. CASE UNCHANGED vars
    BY <2>1, <2>2 DEF vars
  <2>3. ASSUME NEW seen \in SUBSET Products, NEW gone \in SUBSET Products,
               NEW doc \in [seen -> Contents], Publish(doc, gone)
        PROVE  OpensWithAdded(p)' /\ Links(p)' /\ ReachesShown(p)'
    <3>1. CASE p \in seen
      <4>1. /\ doc[p] \in Docs /\ doc[p] # Absent
            /\ feed'[p] = feed[p] \o Diff(shown[p], doc[p])
            /\ shown'[p] = doc[p]
            /\ onSale'[p]
        BY <2>3, <3>1, DocumentAssumption DEF Publish, Docs
      <4>2. QED
        BY <2>0, <4>1, AppendKeepsReplay
    <3>2. CASE p \notin seen /\ p \in gone
      <4>1. /\ Absent \in Docs
            /\ feed'[p] = feed[p] \o Diff(shown[p], Absent)
            /\ shown'[p] = shown[p]
            /\ onSale[p] /\ ~onSale'[p]
        BY <2>3, <3>2 DEF Publish, Docs
      <4>2. QED
        BY <2>0, <4>1, AppendKeepsReplay
    <3>3. CASE p \notin seen /\ p \notin gone
      <4>1. feed[p] \in Seq(Events)
        BY DEF TypeOK
      <4>2. feed'[p] = feed[p] \o << >>
        BY <2>3, <3>3 DEF Publish
      <4>3. feed'[p] = feed[p]
        BY <4>1, <4>2
      <4>4. shown'[p] = shown[p] /\ onSale'[p] = onSale[p]
        BY <2>3, <3>3 DEF Publish, TypeOK
      <4>5. QED
        BY <2>1, <4>3, <4>4
    <3>4. QED
      BY <3>1, <3>2, <3>3
  <2>4. QED
    BY <2>2, <2>3 DEF Next
<1>3. QED
  BY <1>1, <1>2, TypeCorrect, PTL DEF Spec
=============================================================================
