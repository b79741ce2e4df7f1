------------------------- MODULE CollectBrandProofs -------------------------
(* Theorems about CollectBrand, for every set of runs, products, documents *)
(* and faults: first with runs that may overlap, then without.             *)
EXTENDS CollectBrand, Integers, FiniteSetTheorems, WellFoundedInduction, TLAPS

\* What is proved of the change feed and of Diff holds of the tables.
CFP == INSTANCE ChangeFeedProofs WITH shown <- current, onSale <- available

\* ChangeFeed's documents, events and diffs are this module's.
LEMMA SameDiff ==
    /\ CFP!Docs = Docs
    /\ CFP!Events = Events
    /\ \A prev, doc : CFP!Diff(prev, doc) = Diff(prev, doc)
    /\ \A type, prev, doc : CFP!Event(type, prev, doc) = Event(type, prev, doc)
BY DEF CFP!Docs, Docs, CFP!Events, Events, CFP!Diff, Diff, CFP!Differ, Differ,
       CFP!Event, Event

\* So is what ChangeFeed assumes of them.
LEMMA SameAssumption == CFP!DocumentAssumption
BY DocumentAssumption DEF CFP!DocumentAssumption

\* A diff is a sequence of events.
LEMMA DiffType ==
    ASSUME NEW prev \in Docs, NEW doc \in Docs
    PROVE  Diff(prev, doc) \in Seq(Events)
BY SameDiff, SameAssumption, CFP!DiffType

\* No row means that the two documents are equal or read alike.
LEMMA EmptyDiff ==
    ASSUME NEW prev \in Docs, NEW doc \in Docs, Diff(prev, doc) = << >>
    PROVE  \/ prev = Absent /\ doc = Absent
           \/ prev \in Contents /\ doc \in Contents /\ Reading[prev] = Reading[doc]
BY SameDiff, SameAssumption, CFP!EmptyDiff

\* A diff is at most one row group, from the one document to the other.
LEMMA DiffShape ==
    ASSUME NEW prev \in Docs, NEW doc \in Docs, Diff(prev, doc) # << >>
    PROVE  \E type \in {"ADDED", "CHANGED", "WITHDRAWN"} :
               Diff(prev, doc) = <<Event(type, prev, doc)>>
BY SameDiff, SameAssumption, CFP!DiffShape


LEMMA LeastNatural ==
    ASSUME NEW S \in SUBSET Nat, S # {}
    PROVE  \E n \in S : \A m \in S : n <= m
<1>1. PICK n \in S : \A m \in S : ~(<<m, n>> \in OpToRel(<, Nat))
  BY NatLessThanWellFounded, WFMin, Zenon
<1>2. \A m \in S : ~(m < n)
  <2> SUFFICES ASSUME NEW m \in S, m < n PROVE FALSE
    OBVIOUS
  <2> DEFINE pair == <<m, n>>
  <2>1. pair \in Nat \X Nat /\ pair[1] < pair[2]
    OBVIOUS
  <2> HIDE DEF pair
  <2>2. pair \in OpToRel(<, Nat)
    BY <2>1, Zenon DEF OpToRel
  <2> QED
    BY <1>1, <2>2 DEF pair
<1> QED
  BY <1>2, SMT

\* The first of a non-empty set of products is one of them.
LEMMA LeastIn ==
    ASSUME NEW S \in SUBSET Products, S # {}
    PROVE  Least(S) \in S
BY PassAssumption, LeastNatural DEF Least

\* A set of products is finite: it has a count.
LEMMA CountIsNat ==
    ASSUME NEW S \in SUBSET Products
    PROVE  Cardinality(S) \in Nat
BY PassAssumption, FS_Subset, FS_CardinalityType

\* The empty and the pending writes are writes.
LEMMA WritesTyped ==
    /\ Nothing \in Writes
    /\ NoWrites \in [Products -> Writes]
    /\ Absent \in Docs
    /\ NoRow \in [status : Statuses, seen : Nat, failed : Nat,
                  quarantined : Nat, new : Nat]
BY DEF Nothing, Writes, NoWrites, Docs, NoRow, Statuses

\* The tables stay typed across a commit.
TablesOK ==
    /\ current \in [Products -> Docs]
    /\ available \in [Products -> BOOLEAN]
    /\ feed \in [Products -> Seq(Events)]
    /\ firstRun \in [Products -> [Contents -> Runs \cup {0}]]
    /\ lastRun \in [Products -> [Contents -> Runs \cup {0}]]

\* A commit of typed writes keeps the tables typed.
LEMMA FlushTyped ==
    ASSUME TablesOK, NEW r \in Runs, NEW w \in [Products -> Writes], Flush(r, w)
    PROVE  TablesOK'
<1>1. current' \in [Products -> Docs]
  BY DEF TablesOK, Flush, Writes, Docs
<1>2. available' \in [Products -> BOOLEAN]
  BY DEF TablesOK, Flush
<1>3. feed' \in [Products -> Seq(Events)]
  <2>1. ASSUME NEW p \in Products
        PROVE  feed[p] \o Diff(w[p].prev, w[p].doc) \in Seq(Events)
    <3>1. w[p].prev \in Docs /\ w[p].doc \in Docs /\ feed[p] \in Seq(Events)
      BY DEF TablesOK, Writes
    <3>2. Diff(w[p].prev, w[p].doc) \in Seq(Events)
      BY <3>1, DiffType
    <3>3. QED
      BY <3>1, <3>2
  <2>2. QED
    BY <2>1 DEF Flush
<1>4. firstRun' \in [Products -> [Contents -> Runs \cup {0}]]
  BY DEF TablesOK, Flush
<1>5. lastRun' \in [Products -> [Contents -> Runs \cup {0}]]
  BY DEF TablesOK, Flush
<1>6. QED
  BY <1>1, <1>2, <1>3, <1>4, <1>5 DEF TablesOK

\* The ledger, the quarantine and the passes' own variables.
LocalsOK ==
    /\ pc \in [Runs -> {"waiting", "listing", "storing", "holding", "withdrawing",
                        "recording", "done", "dead"}]
    /\ known \in [Runs -> SUBSET Products]
    /\ listed \in [Runs -> SUBSET Products]
    /\ todo \in [Runs -> SUBSET Products]
    /\ held \in [Runs -> Writes]
    /\ txn \in [Runs -> [Products -> Writes]]
    /\ failed \in [Runs -> Nat]
    /\ new \in [Runs -> Nat]
    /\ verdict \in [Runs -> {"ok", "partial", "failed", "unlisted", "raised"}]
    /\ offered \in [Runs -> SUBSET Products]

LedgerOK ==
    /\ quarantine \in SUBSET (Runs \X Products)
    /\ ledger \in [Runs -> [status : Statuses, seen : Nat, failed : Nat,
                            quarantined : Nat, new : Nat]]

\* The type invariant, as its parts on tables, passes and ledger.
LEMMA TypeOKParts == TypeOK <=> TablesOK /\ LocalsOK /\ LedgerOK
BY DEF TypeOK, TablesOK, LocalsOK, LedgerOK

\* A pass that leaves keeps its local state typed.
LEMMA LeaveTyped ==
    ASSUME LocalsOK, NEW r \in Runs, NEW how \in Ended, Leave(r, how)
    PROVE  LocalsOK'
BY WritesTyped DEF LocalsOK, Leave, Ended

\* Visiting a product keeps the work list a set of products.
LEMMA VisitedTyped ==
    ASSUME todo \in [Runs -> SUBSET Products], NEW r \in Runs, Visited(r)
    PROVE  todo' \in [Runs -> SUBSET Products]
BY DEF Visited

\* Type correctness of the collector.
THEOREM TypeCorrect == Spec => []TypeOK
<1>1. Init => TypeOK
  BY WritesTyped DEF Init, TypeOK
<1>2. TypeOK /\ [Next]_vars => TypeOK'
  <2> SUFFICES ASSUME TypeOK, [Next]_vars PROVE TypeOK'
    OBVIOUS
  <2> TablesOK /\ LocalsOK /\ LedgerOK
    BY TypeOKParts
  <2> SUFFICES TablesOK' /\ LocalsOK' /\ LedgerOK'
    BY DEF TypeOK, TablesOK, LocalsOK, LedgerOK
  <2>1. CASE UNCHANGED vars
    BY <2>1 DEF vars, TablesOK, LocalsOK, LedgerOK
  <2>2. ASSUME NEW r \in Runs, Begin(r) PROVE TablesOK' /\ LocalsOK' /\ LedgerOK'
    BY <2>2 DEF Begin, tables, counts, TablesOK, LocalsOK, LedgerOK
  <2>3. ASSUME NEW r \in Runs, ListProducts(r) PROVE TablesOK' /\ LocalsOK' /\ LedgerOK'
    BY <2>3 DEF ListProducts, tables, counts, TablesOK, LocalsOK, LedgerOK
  <2>4. ASSUME NEW r \in Runs, ListFails(r) PROVE TablesOK' /\ LocalsOK' /\ LedgerOK'
    BY <2>4 DEF ListFails, tables, counts, TablesOK, LocalsOK, LedgerOK
  <2>5. ASSUME NEW r \in Runs, SkipFailed(r) PROVE TablesOK' /\ LocalsOK' /\ LedgerOK'
    BY <2>5, VisitedTyped DEF SkipFailed, tables, TablesOK, LocalsOK, LedgerOK
  <2>6. ASSUME NEW r \in Runs, Quarantine(r) PROVE TablesOK' /\ LocalsOK' /\ LedgerOK'
    <3>1. TablesOK'
      BY <2>6, FlushTyped DEF Quarantine, LocalsOK
    <3>2. LocalsOK'
      BY <2>6, VisitedTyped, WritesTyped DEF Quarantine, counts, LocalsOK
    <3>3. Least(todo[r]) \in Products
      BY <2>6, LeastIn DEF Quarantine, Visiting, LocalsOK
    <3>4. LedgerOK'
      BY <2>6, <3>3 DEF Quarantine, LedgerOK
    <3>5. QED
      BY <3>1, <3>2, <3>4
  <2>7. ASSUME NEW r \in Runs, ReadLatest(r) PROVE TablesOK' /\ LocalsOK' /\ LedgerOK'
    <3>1. Least(todo[r]) \in Products
      BY <2>7, LeastIn DEF ReadLatest, Visiting, LocalsOK
    <3>2. held' \in [Runs -> Writes]
      BY <2>7, <3>1 DEF ReadLatest, TablesOK, LocalsOK, Writes, Docs
    <3>3. QED
      BY <2>7, <3>2 DEF ReadLatest, tables, counts, TablesOK, LocalsOK, LedgerOK
  <2>8. ASSUME NEW r \in Runs, Write(r) PROVE TablesOK' /\ LocalsOK' /\ LedgerOK'
    <3>1. txn' \in [Runs -> [Products -> Writes]]
      BY <2>8 DEF Write, LocalsOK
    <3>2. todo' \in [Runs -> SUBSET Products]
      BY <2>8, VisitedTyped DEF Write, LocalsOK
    <3>3. held' \in [Runs -> Writes]
      BY <2>8, WritesTyped DEF Write, LocalsOK
    <3>4. new' \in [Runs -> Nat]
      BY <2>8 DEF Write, LocalsOK
    <3>5. LocalsOK'
      BY <2>8, <3>1, <3>2, <3>3, <3>4 DEF Write, LocalsOK
    <3>6. TablesOK' /\ LedgerOK'
      BY <2>8 DEF Write, tables, TablesOK, LedgerOK
    <3>7. QED
      BY <3>5, <3>6
  <2>9. ASSUME NEW r \in Runs, Raise(r) PROVE TablesOK' /\ LocalsOK' /\ LedgerOK'
    BY <2>9, WritesTyped DEF Raise, tables, counts, TablesOK, LocalsOK, LedgerOK
  <2>10. ASSUME NEW r \in Runs, Conclude(r) PROVE TablesOK' /\ LocalsOK' /\ LedgerOK'
    BY <2>10 DEF Conclude, tables, counts, TablesOK, LocalsOK, LedgerOK
  <2>11. ASSUME NEW r \in Runs, RecordWithdrawal(r) PROVE TablesOK' /\ LocalsOK' /\ LedgerOK'
    <3>1. Least(todo[r]) \in Products
      BY <2>11, LeastIn DEF RecordWithdrawal, LocalsOK
    <3>2. [prev |-> current[Least(todo[r])], doc |-> Absent] \in Writes
      <4>1. current[Least(todo[r])] \in Docs
        BY <3>1 DEF TablesOK
      <4>2. QED
        BY <4>1, WritesTyped DEF Writes
    <3>3. txn' \in [Runs -> [Products -> Writes]]
      BY <2>11, <3>2 DEF RecordWithdrawal, LocalsOK
    <3>4. QED
      BY <2>11, <3>3, VisitedTyped
      DEF RecordWithdrawal, tables, counts, TablesOK, LocalsOK, LedgerOK
  <2>12. ASSUME NEW r \in Runs, Commit(r) PROVE TablesOK' /\ LocalsOK' /\ LedgerOK'
    <3>1. TablesOK'
      BY <2>12, FlushTyped DEF Commit, LocalsOK
    <3>2. QED
      BY <2>12, <3>1, WritesTyped DEF Commit, counts, LocalsOK, LedgerOK
  <2>13. ASSUME NEW r \in Runs, Record(r) PROVE TablesOK' /\ LocalsOK' /\ LedgerOK'
    <3>1. /\ Cardinality(listed[r]) \in Nat
          /\ Quarantined(r) \in Nat
          /\ Status(verdict[r]) \in Statuses
      BY CountIsNat DEF LocalsOK, Quarantined, Status, Statuses
    <3>2. LedgerOK'
      BY <2>13, <3>1 DEF Record, LocalsOK, LedgerOK
    <3>3. LocalsOK'
      BY <2>13, LeaveTyped DEF Record, Ended
    <3>4. QED
      BY <2>13, <3>2, <3>3 DEF Record, tables, TablesOK
  <2>14. ASSUME NEW r \in Runs, Abort(r) \/ DeadlockVictim(r)
         PROVE TablesOK' /\ LocalsOK' /\ LedgerOK'
    <3>1. Leave(r, "dead") /\ UNCHANGED <<tables, quarantine, ledger>>
      BY <2>14 DEF Abort, DeadlockVictim
    <3>2. LocalsOK'
      BY <3>1, LeaveTyped DEF Ended
    <3>3. QED
      BY <3>1, <3>2 DEF tables, TablesOK, LedgerOK
  <2>15. QED
    BY <2>1, <2>2, <2>3, <2>4, <2>5, <2>6, <2>7, <2>8, <2>9, <2>10, <2>11, <2>12,
       <2>13, <2>14 DEF Next, Step, Over
<1>3. QED
  BY <1>1, <1>2, PTL DEF Spec
-----------------------------------------------------------------------------
(* The feed explains what is shown, even when passes overlap.              *)

\* What a pass has read was announced when it read it, and feeds only grow.
ReadsOK(r) ==
    /\ held[r].prev # Absent => Announced(Least(todo[r]), held[r].prev)
    /\ pc[r] # "holding" => held[r] = Nothing
    /\ \A p \in Products :
        txn[r][p].prev # Absent => Announced(p, txn[r][p].prev)

ReadsAnnounced == \A r \in Runs : ReadsOK(r)

\* A pass that holds a document has a product left to store it for.
HoldingVisits == \A r \in Runs : pc[r] = "holding" => todo[r] # {}

ExplainInv == TypeOK /\ HoldingVisits /\ FeedExplainsState /\ ReadsAnnounced

\* A commit appends to the feed.
LEMMA FlushKeepsRows ==
    ASSUME TypeOK, NEW r \in Runs, NEW w \in [Products -> Writes], Flush(r, w),
           NEW p \in Products, NEW i \in DOMAIN feed[p]
    PROVE  i \in DOMAIN feed'[p] /\ feed'[p][i] = feed[p][i]
<1> DEFINE rows == Diff(w[p].prev, w[p].doc)
<1>1. w[p].prev \in Docs /\ w[p].doc \in Docs
  BY DEF Writes
<1>2. rows \in Seq(Events) /\ feed[p] \in Seq(Events)
  BY <1>1, DiffType DEF TypeOK
<1>3. feed'[p] = feed[p] \o rows
  BY DEF Flush
<1>4. i \in DOMAIN (feed[p] \o rows) /\ (feed[p] \o rows)[i] = feed[p][i]
  <2> HIDE DEF rows
  <2>1. QED
    BY <1>2, SameAssumption, CFP!ConcatKeeps, SMT
<1>5. QED
  BY <1>3, <1>4

\* An announcement stays in the feed.
LEMMA FlushKeepsAnnounced ==
    ASSUME TypeOK, NEW r \in Runs, NEW w \in [Products -> Writes], Flush(r, w),
           NEW p \in Products, NEW d \in Contents, Announced(p, d)
    PROVE  Announced(p, d)'
<1>1. PICK i \in DOMAIN feed[p] :
        feed[p][i].to # Absent /\ Reading[feed[p][i].to] = Reading[d]
  BY DEF Announced
<1>2. i \in DOMAIN feed'[p] /\ feed'[p][i] = feed[p][i]
  BY <1>1, FlushKeepsRows
<1>3. QED
  BY <1>1, <1>2 DEF Announced

\* A commit announces the documents it shows and withdraws what it takes off
\* sale, provided what it read had been announced.
LEMMA FlushExplains ==
    ASSUME TypeOK, FeedExplainsState, NEW r \in Runs,
           NEW w \in [Products -> Writes], Flush(r, w),
           \A p \in Products : w[p].prev # Absent => Announced(p, w[p].prev)
    PROVE  FeedExplainsState'
<1> SUFFICES ASSUME NEW p \in Products, current'[p] # Absent
             PROVE  /\ Announced(p, current[p])'
                    /\ ~available'[p] =>
                         \E i \in DOMAIN feed'[p] : feed'[p][i].type = "WITHDRAWN"
  BY DEF FeedExplainsState
<1> DEFINE prev == w[p].prev
           doc == w[p].doc
<1>1. /\ prev \in Docs /\ doc \in Docs
      /\ feed[p] \in Seq(Events)
      /\ feed'[p] = feed[p] \o Diff(prev, doc)
      /\ current'[p] = IF doc # Absent THEN doc ELSE current[p]
      /\ available'[p] <=> doc # Absent \/ (available[p] /\ prev = Absent)
      /\ current[p] \in Docs
  BY DEF TypeOK, Flush, Writes
<1>2. Diff(prev, doc) \in Seq(Events)
  BY <1>1, DiffType
<1>3. CASE doc # Absent
  <2>1. current'[p] = doc /\ available'[p] /\ doc \in Contents
    BY <1>1, <1>3 DEF Docs
  <2>2. CASE Diff(prev, doc) = << >>
    <3>1. prev \in Contents /\ prev # Absent /\ Reading[prev] = Reading[doc]
      BY <1>1, <1>3, <2>2, EmptyDiff, DocumentAssumption
    <3>2. Announced(p, prev)'
      BY <3>1, FlushKeepsAnnounced
    <3>3. QED
      BY <2>1, <3>1, <3>2 DEF Announced
  <2>3. CASE Diff(prev, doc) # << >>
    <3>1. PICK type \in {"ADDED", "CHANGED", "WITHDRAWN"} :
            Diff(prev, doc) = <<Event(type, prev, doc)>>
      BY <1>1, <2>3, DiffShape
    <3> DEFINE n == Len(feed[p]) + 1
    <3>2. n \in DOMAIN feed'[p] /\ feed'[p][n].to = doc
      BY <1>1, <3>1 DEF Event
    <3>3. QED
      BY <1>3, <2>1, <3>2 DEF Announced
  <2>4. QED
    BY <2>2, <2>3
<1>4. CASE doc = Absent
  <2>1. current'[p] = current[p] /\ current[p] # Absent /\ current[p] \in Contents
    BY <1>1, <1>4 DEF Docs
  <2>2. Announced(p, current[p])'
    <3>1. Announced(p, current[p])
      BY <2>1 DEF FeedExplainsState
    <3>2. QED
      BY <2>1, <3>1, FlushKeepsAnnounced DEF Announced
  <2>3. ASSUME ~available'[p]
        PROVE  \E i \in DOMAIN feed'[p] : feed'[p][i].type = "WITHDRAWN"
    <3>1. CASE ~available[p]
      <4>1. PICK i \in DOMAIN feed[p] : feed[p][i].type = "WITHDRAWN"
        BY <2>1, <3>1 DEF FeedExplainsState
      <4>2. i \in DOMAIN feed'[p] /\ feed'[p][i] = feed[p][i]
        BY <4>1, FlushKeepsRows
      <4>3. QED
        BY <4>1, <4>2
    <3>2. CASE available[p]
      <4>1. prev # Absent
        BY <1>1, <1>4, <2>3, <3>2
      <4>2. Diff(prev, doc) = <<Event("WITHDRAWN", prev, doc)>>
        BY <1>4, <4>1 DEF Diff
      <4> DEFINE n == Len(feed[p]) + 1
      <4>3. n \in DOMAIN feed'[p] /\ feed'[p][n].type = "WITHDRAWN"
        BY <1>1, <4>2 DEF Event
      <4>4. QED
        BY <4>3
    <3>3. QED
      BY <3>1, <3>2
  <2>4. QED
    BY <2>2, <2>3
<1>5. QED
  BY <1>3, <1>4

\* The invariant holds of the empty tables.
LEMMA InitExplains == Init => ExplainInv
<1> SUFFICES ASSUME Init PROVE ExplainInv
  OBVIOUS
<1>1. TypeOK
  BY WritesTyped DEF Init, TypeOK
<1>2. HoldingVisits /\ FeedExplainsState /\ ReadsAnnounced
  BY DEF Init, HoldingVisits, FeedExplainsState, ReadsAnnounced, ReadsOK, Nothing, NoWrites
<1>3. QED
  BY <1>1, <1>2 DEF ExplainInv

\* While the tables stand still, so do the feed's explanations and what the
\* other passes have read.
LEMMA QuietExplains ==
    ASSUME FeedExplainsState, UNCHANGED tables
    PROVE  FeedExplainsState'
BY DEF tables, FeedExplainsState, Announced

\* While the tables and the feed stand still, what a pass has read stays announced.
LEMMA QuietRead ==
    ASSUME NEW r \in Runs, ReadsOK(r), feed' = feed, held'[r] = held[r],
           todo'[r] = todo[r], pc'[r] = pc[r], txn'[r] = txn[r]
    PROVE  ReadsOK(r)'
BY DEF ReadsOK, Announced

\* A pass that holds and has written nothing has read nothing.
LEMMA ForgottenRead ==
    ASSUME NEW r \in Runs, held'[r] = Nothing, txn'[r] = NoWrites
    PROVE  ReadsOK(r)'
BY DEF ReadsOK, Nothing, NoWrites

\* A step of one pass that leaves the tables alone and forgets what it read.
LEMMA ForgetExplains ==
    ASSUME ExplainInv, UNCHANGED tables, NEW r \in Runs,
           held' = [held EXCEPT ![r] = Nothing],
           txn' = [txn EXCEPT ![r] = NoWrites],
           \A s \in Runs \ {r} : todo'[s] = todo[s] /\ pc'[s] = pc[s]
    PROVE  FeedExplainsState' /\ ReadsAnnounced'
<1>1. FeedExplainsState'
  BY QuietExplains DEF ExplainInv
<1>2. ReadsOK(r)'
  BY ForgottenRead DEF ExplainInv, TypeOK
<1>3. ASSUME NEW s \in Runs \ {r} PROVE ReadsOK(s)'
  BY QuietRead DEF ExplainInv, TypeOK, ReadsAnnounced, tables
<1>4. QED
  BY <1>1, <1>2, <1>3 DEF ReadsAnnounced

\* A step of one pass that leaves the tables and what it has read alone.
LEMMA StutterExplains ==
    ASSUME ExplainInv, UNCHANGED tables, UNCHANGED <<held, txn>>, NEW r \in Runs,
           pc[r] # "holding", pc'[r] # "holding",
           \A s \in Runs \ {r} : todo'[s] = todo[s] /\ pc'[s] = pc[s]
    PROVE  FeedExplainsState' /\ ReadsAnnounced'
<1>1. FeedExplainsState'
  BY QuietExplains DEF ExplainInv
<1>2. ReadsOK(r)'
  BY DEF ExplainInv, ReadsAnnounced, ReadsOK, Announced, tables, Nothing
<1>3. ASSUME NEW s \in Runs \ {r} PROVE ReadsOK(s)'
  BY QuietRead DEF ExplainInv, ReadsAnnounced, tables
<1>4. QED
  BY <1>1, <1>2, <1>3 DEF ReadsAnnounced

\* A commit of one pass.
LEMMA CommitExplains ==
    ASSUME ExplainInv, NEW r \in Runs, Flush(r, txn[r]),
           UNCHANGED held, held[r] = Nothing,
           txn' = [txn EXCEPT ![r] = NoWrites],
           \A s \in Runs \ {r} : todo'[s] = todo[s] /\ pc'[s] = pc[s]
    PROVE  FeedExplainsState' /\ ReadsAnnounced'
<1>1. txn[r] \in [Products -> Writes]
  BY DEF ExplainInv, TypeOK
<1>2. FeedExplainsState'
  BY <1>1, FlushExplains DEF ExplainInv, ReadsAnnounced, ReadsOK
<1>3. ReadsOK(r)'
  BY ForgottenRead DEF ExplainInv, TypeOK
<1>4. ASSUME NEW s \in Runs \ {r} PROVE ReadsOK(s)'
  <2>1. /\ ReadsOK(s) /\ held'[s] = held[s] /\ txn'[s] = txn[s]
        /\ todo'[s] = todo[s] /\ pc'[s] = pc[s]
        /\ held[s] \in Writes /\ txn[s] \in [Products -> Writes]
        /\ todo[s] \in SUBSET Products
    BY <1>4 DEF ExplainInv, TypeOK, ReadsAnnounced
  <2>2. ASSUME NEW p \in Products, NEW d \in Docs, d # Absent, Announced(p, d)
        PROVE  Announced(p, d)'
    BY <1>1, <2>2, FlushKeepsAnnounced DEF Docs, ExplainInv
  <2>3. ASSUME held[s].prev # Absent
        PROVE  Announced(Least(todo[s]), held[s].prev)'
    <3>1. pc[s] = "holding"
      BY <2>1, <2>3 DEF ReadsOK, Nothing
    <3>2. Least(todo[s]) \in Products
      BY <3>1, <2>1, LeastIn DEF ExplainInv, HoldingVisits
    <3>3. QED
      BY <2>1, <2>2, <2>3, <3>2 DEF ReadsOK, Writes, Announced
  <2>4. ASSUME NEW p \in Products, txn[s][p].prev # Absent
        PROVE  Announced(p, txn[s][p].prev)'
    BY <2>1, <2>2, <2>4 DEF ReadsOK, Writes, Announced
  <2>5. QED
    BY <2>1, <2>3, <2>4 DEF ReadsOK, Announced
<1>5. QED
  BY <1>2, <1>3, <1>4 DEF ReadsAnnounced

\* Every step of a pass keeps the invariant.
LEMMA StepExplains ==
    ASSUME ExplainInv, TypeOK', [Next]_vars
    PROVE  HoldingVisits' /\ FeedExplainsState' /\ ReadsAnnounced'
<1> USE DEF tables, counts
<1> DEFINE Goal == HoldingVisits' /\ FeedExplainsState' /\ ReadsAnnounced'
<1>0. TypeOK /\ HoldingVisits /\ FeedExplainsState /\ ReadsAnnounced
  BY DEF ExplainInv
<1>1. CASE UNCHANGED vars
  BY <1>0, <1>1 DEF vars, HoldingVisits, FeedExplainsState, ReadsAnnounced, ReadsOK, Announced
<1>2. ASSUME NEW r \in Runs, Begin(r) PROVE Goal
  <2>1. HoldingVisits'
    BY <1>0, <1>2 DEF Begin, HoldingVisits, TypeOK
  <2>2. QED
    BY <1>0, <1>2, <2>1, StutterExplains DEF Begin, TypeOK
<1>3. ASSUME NEW r \in Runs, ListProducts(r) PROVE Goal
  <2>1. HoldingVisits'
    BY <1>0, <1>3 DEF ListProducts, HoldingVisits, TypeOK
  <2>2. \A s \in Runs \ {r} : todo'[s] = todo[s] /\ pc'[s] = pc[s]
    BY <1>0, <1>3 DEF ListProducts, TypeOK
  <2>3. QED
    BY <1>0, <1>3, <2>1, <2>2, StutterExplains DEF ListProducts, TypeOK
<1>4. ASSUME NEW r \in Runs, ListFails(r) PROVE Goal
  <2>1. HoldingVisits'
    BY <1>0, <1>4 DEF ListFails, HoldingVisits, TypeOK
  <2>2. QED
    BY <1>0, <1>4, <2>1, StutterExplains DEF ListFails, TypeOK
<1>5. ASSUME NEW r \in Runs, SkipFailed(r) PROVE Goal
  <2>1. HoldingVisits'
    BY <1>0, <1>5 DEF SkipFailed, Visiting, Visited, HoldingVisits, TypeOK
  <2>2. QED
    BY <1>0, <1>5, <2>1, StutterExplains DEF SkipFailed, Visiting, Visited, TypeOK
<1>6. ASSUME NEW r \in Runs, Quarantine(r) PROVE Goal
  <2>1. HoldingVisits'
    BY <1>0, <1>6 DEF Quarantine, Visiting, Visited, HoldingVisits, TypeOK
  <2>2. held[r] = Nothing
    BY <1>0, <1>6 DEF Quarantine, Visiting, ReadsAnnounced, ReadsOK
  <2>3. QED
    BY <1>0, <1>6, <2>1, <2>2, CommitExplains DEF Quarantine, Visited, TypeOK
<1>7. ASSUME NEW r \in Runs, ReadLatest(r) PROVE Goal
  <2>1. HoldingVisits'
    BY <1>0, <1>7 DEF ReadLatest, Visiting, HoldingVisits, TypeOK
  <2>2. FeedExplainsState'
    BY <1>0, <1>7, QuietExplains DEF ReadLatest
  <2>3. ReadsOK(r)'
    <3>1. Least(todo[r]) \in Products
      BY <1>0, <1>7, LeastIn DEF ReadLatest, Visiting, TypeOK
    <3>2. /\ held'[r].prev = current[Least(todo[r])]
          /\ pc'[r] = "holding" /\ feed' = feed /\ todo' = todo /\ txn' = txn
      BY <1>0, <1>7 DEF ReadLatest, TypeOK
    <3>3. held'[r].prev # Absent => Announced(Least(todo[r]), held'[r].prev)
      BY <1>0, <3>1, <3>2 DEF FeedExplainsState
    <3>4. QED
      BY <1>0, <3>2, <3>3 DEF ReadsAnnounced, ReadsOK, Announced
  <2>4. ASSUME NEW s \in Runs \ {r} PROVE ReadsOK(s)'
    BY <1>0, <1>7, QuietRead DEF ReadLatest, TypeOK, ReadsAnnounced
  <2>5. QED
    BY <2>1, <2>2, <2>3, <2>4 DEF ReadsAnnounced
<1>8. ASSUME NEW r \in Runs, Write(r) PROVE Goal
  <2>1. HoldingVisits'
    BY <1>0, <1>8 DEF Write, Visited, HoldingVisits, TypeOK
  <2>2. FeedExplainsState'
    BY <1>0, <1>8, QuietExplains DEF Write
  <2>3. ReadsOK(r)'
    <3> DEFINE q == Least(todo[r])
    <3>1. /\ ReadsOK(r)
          /\ held'[r] = Nothing /\ feed' = feed /\ held[r] \in Writes
          /\ \A p \in Products : txn'[r][p] = IF p = q THEN held[r] ELSE txn[r][p]
      BY <1>0, <1>8 DEF Write, TypeOK, ReadsAnnounced
    <3>2. ASSUME NEW p \in Products, txn'[r][p].prev # Absent
          PROVE  Announced(p, txn'[r][p].prev)
      BY <3>1, <3>2 DEF ReadsOK
    <3>3. QED
      BY <3>1, <3>2 DEF ReadsOK, Nothing, Announced
  <2>4. ASSUME NEW s \in Runs \ {r} PROVE ReadsOK(s)'
    BY <1>0, <1>8, QuietRead DEF Write, Visited, TypeOK, ReadsAnnounced
  <2>5. QED
    BY <2>1, <2>2, <2>3, <2>4 DEF ReadsAnnounced
<1>9. ASSUME NEW r \in Runs, Raise(r) PROVE Goal
  <2>1. HoldingVisits'
    BY <1>0, <1>9 DEF Raise, HoldingVisits, TypeOK
  <2>2. QED
    BY <1>0, <1>9, <2>1, ForgetExplains DEF Raise, TypeOK
<1>10. ASSUME NEW r \in Runs, Conclude(r) PROVE Goal
  <2>1. HoldingVisits'
    BY <1>0, <1>10 DEF Conclude, HoldingVisits, TypeOK
  <2>2. QED
    BY <1>0, <1>10, <2>1, StutterExplains DEF Conclude, TypeOK
<1>11. ASSUME NEW r \in Runs, RecordWithdrawal(r) PROVE Goal
  <2>1. HoldingVisits'
    BY <1>0, <1>11 DEF RecordWithdrawal, Visited, HoldingVisits, TypeOK
  <2>2. FeedExplainsState'
    BY <1>0, <1>11, QuietExplains DEF RecordWithdrawal
  <2>3. ReadsOK(r)'
    <3> DEFINE q == Least(todo[r])
    <3>1. /\ ReadsOK(r) /\ pc[r] = "withdrawing"
          /\ held' = held /\ feed' = feed /\ pc' = pc
          /\ \A p \in Products : txn'[r][p] =
               IF p = q THEN [prev |-> current[p], doc |-> Absent] ELSE txn[r][p]
      BY <1>0, <1>11 DEF RecordWithdrawal, TypeOK, ReadsAnnounced
    <3>2. ASSUME NEW p \in Products, txn'[r][p].prev # Absent
          PROVE  Announced(p, txn'[r][p].prev)
      <4>1. CASE p = q
        <5> HIDE DEF q
        <5>0. txn'[r][p] = [prev |-> current[p], doc |-> Absent]
          BY <3>1, <4>1
        <5>1. txn'[r][p].prev = current[p]
          BY <5>0
        <5>2. QED
          BY <1>0, <3>2, <5>1 DEF FeedExplainsState
      <4>2. CASE p # q
        BY <3>1, <3>2, <4>2 DEF ReadsOK
      <4>3. QED
        BY <4>1, <4>2
    <3>3. held'[r] = Nothing
      BY <3>1 DEF ReadsOK
    <3>4. \A p \in Products :
            txn'[r][p].prev # Absent => Announced(p, txn[r][p].prev)'
      BY <3>1, <3>2 DEF Announced
    <3>5. QED
      BY <3>3, <3>4 DEF ReadsOK, Nothing
  <2>4. ASSUME NEW s \in Runs \ {r} PROVE ReadsOK(s)'
    BY <1>0, <1>11, QuietRead DEF RecordWithdrawal, Visited, TypeOK, ReadsAnnounced
  <2>5. QED
    BY <2>1, <2>2, <2>3, <2>4 DEF ReadsAnnounced
<1>12. ASSUME NEW r \in Runs, Commit(r) PROVE Goal
  <2>1. HoldingVisits'
    BY <1>0, <1>12 DEF Commit, HoldingVisits, TypeOK
  <2>2. held[r] = Nothing
    BY <1>0, <1>12 DEF Commit, ReadsAnnounced, ReadsOK
  <2>3. QED
    BY <1>0, <1>12, <2>1, <2>2, CommitExplains DEF Commit, TypeOK
<1>13. ASSUME NEW r \in Runs, NEW how \in Ended, Leave(r, how), UNCHANGED tables
       PROVE  Goal
  <2>1. HoldingVisits'
    BY <1>0, <1>13 DEF Leave, Ended, HoldingVisits, TypeOK
  <2>2. QED
    BY <1>0, <1>13, <2>1, ForgetExplains DEF Leave, TypeOK
<1>14. ASSUME NEW r \in Runs, Record(r) \/ Abort(r) \/ DeadlockVictim(r) PROVE Goal
  BY <1>13, <1>14 DEF Record, Abort, DeadlockVictim, Ended
<1>15. QED
  BY <1>1, <1>2, <1>3, <1>4, <1>5, <1>6, <1>7, <1>8, <1>9, <1>10, <1>11, <1>12,
     <1>14 DEF Next, Step, Over

\* The invariant holds throughout, also for the proofs below.
LEMMA ExplainInvariant == Spec => []ExplainInv
<1>1. Init => ExplainInv
  BY InitExplains
<1>2. ExplainInv /\ TypeOK' /\ [Next]_vars => ExplainInv'
  BY StepExplains DEF ExplainInv
<1>3. QED
  BY <1>1, <1>2, TypeCorrect, PTL DEF Spec

\* FeedExplainsState, whatever the faults and even when runs overlap: what
\* product_current shows was announced in product_change, and what it no
\* longer has on sale was withdrawn there.
THEOREM FeedExplains == Spec => []FeedExplainsState
BY ExplainInvariant, PTL DEF ExplainInv
-----------------------------------------------------------------------------
(* What a step of one pass leaves alone.                                    *)

Moves(r) == Step(r) \/ Abort(r) \/ DeadlockVictim(r)

\* The state of pass s, what it has put in quarantine, and its ledger row.
Untouched(s) ==
    /\ pc'[s] = pc[s] /\ known'[s] = known[s] /\ listed'[s] = listed[s]
    /\ todo'[s] = todo[s] /\ held'[s] = held[s] /\ txn'[s] = txn[s]
    /\ failed'[s] = failed[s] /\ new'[s] = new[s] /\ verdict'[s] = verdict[s]
    /\ offered'[s] = offered[s] /\ ledger'[s] = ledger[s]
    /\ \A p \in Products : <<s, p>> \in quarantine' <=> <<s, p>> \in quarantine

\* Leaving touches no other pass.
LEMMA LeaveUntouched ==
    ASSUME LocalsOK, NEW r \in Runs, NEW how, Leave(r, how), NEW s \in Runs \ {r}
    PROVE  /\ pc'[s] = pc[s] /\ known'[s] = known[s] /\ listed'[s] = listed[s]
           /\ todo'[s] = todo[s] /\ held'[s] = held[s] /\ txn'[s] = txn[s]
           /\ failed'[s] = failed[s] /\ new'[s] = new[s] /\ verdict'[s] = verdict[s]
           /\ offered'[s] = offered[s]
BY DEF LocalsOK, Leave

\* A pass moves alone: its step is no other pass's.
LEMMA OthersUntouched ==
    ASSUME TypeOK, NEW r \in Runs, Moves(r), NEW s \in Runs \ {r}
    PROVE  Untouched(s)
<1> USE DEF Untouched, counts, Visited
<1>0. LocalsOK /\ LedgerOK
  BY TypeOKParts
<1>1. CASE Begin(r) BY <1>0, <1>1 DEF Begin, LocalsOK
<1>2. CASE ListProducts(r) BY <1>0, <1>2 DEF ListProducts, LocalsOK
<1>3. CASE ListFails(r) BY <1>0, <1>3 DEF ListFails, LocalsOK
<1>4. CASE SkipFailed(r) BY <1>0, <1>4 DEF SkipFailed, LocalsOK
<1>5. CASE Quarantine(r) BY <1>0, <1>5 DEF Quarantine, LocalsOK
<1>6. CASE ReadLatest(r) BY <1>0, <1>6 DEF ReadLatest, LocalsOK
<1>7. CASE Write(r) BY <1>0, <1>7 DEF Write, LocalsOK
<1>8. CASE Conclude(r) BY <1>0, <1>8 DEF Conclude, LocalsOK
<1>9. CASE RecordWithdrawal(r) BY <1>0, <1>9 DEF RecordWithdrawal, LocalsOK
<1>10. CASE Commit(r) BY <1>0, <1>10 DEF Commit, LocalsOK
<1>11. CASE Raise(r) BY <1>0, <1>11 DEF Raise, LocalsOK
<1>12. CASE Record(r) BY <1>0, <1>12, LeaveUntouched DEF Record, LedgerOK
<1>13. CASE Abort(r) \/ DeadlockVictim(r)
  BY <1>0, <1>13, LeaveUntouched DEF Abort, DeadlockVictim
<1>14. QED
  BY <1>1, <1>2, <1>3, <1>4, <1>5, <1>6, <1>7, <1>8, <1>9, <1>10, <1>11, <1>12,
     <1>13 DEF Moves, Step

\* The tables change only by the commit of an open transaction.
LEMMA TablesMove ==
    ASSUME TypeOK, NEW r \in Runs, Moves(r)
    PROVE  \/ UNCHANGED tables
           \/ /\ Quarantine(r) \/ Commit(r)
              /\ Flush(r, txn[r]) /\ txn'[r] = NoWrites
              /\ UNCHANGED <<held, listed, new, failed, ledger, verdict>>
<1>1. CASE Quarantine(r) \/ Commit(r)
  BY <1>1 DEF Quarantine, Commit, TypeOK, counts
<1>2. CASE ~(Quarantine(r) \/ Commit(r))
  BY <1>2 DEF Moves, Step, Begin, ListProducts, ListFails, SkipFailed, ReadLatest,
     Write, Conclude, RecordWithdrawal, Raise, Record, Abort, DeadlockVictim
<1>3. QED
  BY <1>1, <1>2

\* A step of the specification is one pass's, or changes nothing.
LEMMA WhoMoves == [Next]_vars => UNCHANGED vars \/ \E r \in Runs : Moves(r)
BY DEF Next, Over, Moves
-----------------------------------------------------------------------------
(* Every snapshot row is reported, even when passes overlap.                *)

\* What the open transaction of r has counted as new and not yet committed.
FreshIn(w) == {p \in Products : w[p].doc # Absent /\ w[p].prev # w[p].doc}

\* A document that was read has a snapshot row, and rows are never deleted.
Stored(p, d) == d # Absent => firstRun[p][d] # 0

ReadsStored(r) ==
    /\ pc[r] = "holding" => Stored(Least(todo[r]), held[r].prev)
    /\ \A p \in Products : Stored(p, txn[r][p].prev)

\* snapshots_new is ahead of the rows inserted by what is not yet committed.
InsertsCounted(r) ==
    /\ IsFiniteSet(InsertedBy(r))
    /\ pc[r] \notin Ended =>
         Cardinality(InsertedBy(r)) + Cardinality(FreshIn(txn[r])) <= new[r]
    /\ ledger[r] # NoRow =>
         pc[r] = "done" /\ Cardinality(InsertedBy(r)) <= ledger[r].new

ReportInv ==
    /\ \A p \in Products : Stored(p, current[p])
    /\ \A r \in Runs : ReadsStored(r) /\ InsertsCounted(r)

\* What is counted as new is a finite set.
LEMMA FreshFinite ==
    ASSUME NEW w
    PROVE  /\ IsFiniteSet(FreshIn(w)) /\ Cardinality(FreshIn(w)) \in Nat
           /\ FreshIn(w) \in SUBSET Products
BY PassAssumption, FS_Subset, FS_CardinalityType DEF FreshIn

\* An empty transaction has counted nothing.
LEMMA NothingFresh == FreshIn(NoWrites) = {} /\ Cardinality(FreshIn(NoWrites)) = 0
BY FS_EmptySet DEF FreshIn, NoWrites, Nothing

\* A commit inserts only snapshots that were counted as new.
LEMMA FlushInserts ==
    ASSUME TypeOK, NEW r \in Runs, NEW w \in [Products -> Writes], Flush(r, w),
           \A p \in Products : Stored(p, w[p].prev), IsFiniteSet(InsertedBy(r))
    PROVE  /\ IsFiniteSet(InsertedBy(r)')
           /\ Cardinality(InsertedBy(r)') <=
                Cardinality(InsertedBy(r)) + Cardinality(FreshIn(w))
<1> DEFINE fresh == FreshIn(w)
           f == [p \in fresh |-> <<p, w[p].doc>>]
           added == {<<p, w[p].doc>> : p \in fresh}
           after == InsertedBy(r)'
<1>1. IsFiniteSet(fresh) /\ Cardinality(fresh) \in Nat
  BY FreshFinite
<1>2. f \in Surjection(fresh, added)
  BY Zenon DEF Surjection
<1>3. IsFiniteSet(added) /\ Cardinality(added) <= Cardinality(fresh)
  BY <1>1, <1>2, FS_Surjection
<1>4. ASSUME NEW s \in after PROVE s \in InsertedBy(r) \cup added
  <2>1. PICK p \in Products, c \in Contents : s = <<p, c>> /\ firstRun'[p][c] = r
    BY <1>4 DEF InsertedBy
  <2>2. firstRun'[p][c] = IF c = w[p].doc /\ firstRun[p][c] = 0 THEN r ELSE firstRun[p][c]
    BY DEF Flush
  <2>3. CASE firstRun[p][c] = r
    BY <2>1, <2>3 DEF InsertedBy
  <2>4. CASE c = w[p].doc /\ firstRun[p][c] = 0
    <3>1. p \in fresh
      BY <2>4, DocumentAssumption DEF Stored, FreshIn
    <3>2. QED
      BY <2>1, <2>4, <3>1
  <2>5. QED
    BY <2>1, <2>2, <2>3, <2>4
<1>5. after \in SUBSET (InsertedBy(r) \cup added)
  BY <1>4
<1> HIDE DEF fresh, f, added, after
<1>6. /\ IsFiniteSet(InsertedBy(r) \cup added)
      /\ Cardinality(InsertedBy(r) \cup added) =
           Cardinality(InsertedBy(r)) + Cardinality(added)
             - Cardinality(InsertedBy(r) \cap added)
  BY <1>3, FS_Union
<1>7. IsFiniteSet(InsertedBy(r) \cap added)
  BY <1>3, FS_Intersection
<1>8. IsFiniteSet(after) /\ Cardinality(after) <= Cardinality(InsertedBy(r) \cup added)
  BY <1>5, <1>6, FS_Subset
<1>9. /\ Cardinality(InsertedBy(r)) \in Nat /\ Cardinality(added) \in Nat
      /\ Cardinality(InsertedBy(r) \cap added) \in Nat /\ Cardinality(after) \in Nat
  BY <1>3, <1>7, <1>8, FS_CardinalityType
<1>10. QED
  BY <1>1, <1>3, <1>6, <1>8, <1>9 DEF fresh, after

\* A snapshot row, once inserted, keeps the run that inserted it.
LEMMA RowsStay ==
    ASSUME TypeOK, NEW r \in Runs, Moves(r), NEW p \in Products, NEW d, Stored(p, d),
           d \in Docs
    PROVE  Stored(p, d)'
<1>1. CASE UNCHANGED tables
  BY <1>1 DEF Stored, tables
<1>2. CASE Flush(r, txn[r])
  BY <1>2, PassAssumption DEF Stored, Flush, TypeOK, Docs
<1>3. QED
  BY <1>1, <1>2, TablesMove

\* What another pass commits is not this pass's to report.
LEMMA OthersInserted ==
    ASSUME TypeOK, NEW r \in Runs, Moves(r), NEW s \in Runs \ {r}
    PROVE  InsertedBy(s)' = InsertedBy(s)
<1>1. CASE UNCHANGED tables
  BY <1>1 DEF InsertedBy, tables
<1>2. CASE Flush(r, txn[r])
  BY <1>2, PassAssumption DEF InsertedBy, Flush, TypeOK
<1>3. QED
  BY <1>1, <1>2, TablesMove

\* What is shown has a snapshot row.
LEMMA ShownStored ==
    ASSUME TypeOK, NEW r \in Runs, Moves(r), NEW p \in Products, Stored(p, current[p])
    PROVE  Stored(p, current[p])'
<1>1. CASE UNCHANGED tables
  BY <1>1 DEF Stored, tables
<1>2. CASE Flush(r, txn[r])
  <2> DEFINE doc == txn[r][p].doc
  <2>1. doc \in Docs
    BY DEF TypeOK, Writes
  <2>2. CASE doc = Absent
    <3>1. current'[p] = current[p] /\ current[p] \in Docs
      BY <1>2, <2>2 DEF Flush, TypeOK
    <3>2. Stored(p, current[p])' <=> (current[p] # Absent => firstRun'[p][current[p]] # 0)
      BY <3>1 DEF Stored
    <3>3. QED
      BY <3>1, <3>2, <1>2, PassAssumption DEF Stored, Flush, TypeOK, Docs
  <2>3. CASE doc # Absent
    <3>1. current'[p] = doc /\ doc \in Contents
      BY <1>2, <2>1, <2>3 DEF Flush, Docs
    <3>2. firstRun'[p][doc] = IF firstRun[p][doc] = 0 THEN r ELSE firstRun[p][doc]
      BY <1>2, <3>1 DEF Flush
    <3>3. QED
      BY <3>1, <3>2, PassAssumption DEF Stored
  <2>4. QED
    BY <2>2, <2>3
<1>3. QED
  BY <1>1, <1>2, TablesMove

\* A step of one pass keeps the other passes' accounts.
LEMMA OthersReport ==
    ASSUME TypeOK, HoldingVisits, NEW r \in Runs, Moves(r), NEW s \in Runs \ {r},
           ReadsStored(s), InsertsCounted(s)
    PROVE  ReadsStored(s)' /\ InsertsCounted(s)'
<1>1. /\ pc'[s] = pc[s] /\ todo'[s] = todo[s] /\ held'[s] = held[s]
      /\ txn'[s] = txn[s] /\ new'[s] = new[s] /\ ledger'[s] = ledger[s]
  BY OthersUntouched DEF Untouched
<1>2. InsertedBy(s)' = InsertedBy(s)
  BY OthersInserted
<1>3. InsertsCounted(s)'
  BY <1>1, <1>2 DEF InsertsCounted, FreshIn
<1>4. ASSUME pc[s] = "holding" PROVE Stored(Least(todo[s]), held[s].prev)'
  <2>1. Least(todo[s]) \in Products /\ held[s].prev \in Docs
    BY <1>4, LeastIn DEF HoldingVisits, TypeOK, Writes
  <2>2. firstRun'[Least(todo[s])][held[s].prev] # 0 \/ held[s].prev = Absent
    BY <1>4, <2>1, RowsStay DEF ReadsStored, Stored
  <2>3. QED
    BY <1>1, <2>2 DEF Stored
<1>5. ASSUME NEW p \in Products PROVE Stored(p, txn[s][p].prev)'
  <2>1. txn[s][p].prev \in Docs
    BY DEF TypeOK, Writes
  <2>2. firstRun'[p][txn[s][p].prev] # 0 \/ txn[s][p].prev = Absent
    BY <2>1, RowsStay DEF ReadsStored, Stored
  <2>3. QED
    BY <1>1, <2>2 DEF Stored
<1>6. QED
  BY <1>1, <1>3, <1>4, <1>5 DEF ReadsStored

\* A step that writes no table and forgets the transaction, or never had one.
LEMMA QuietReport ==
    ASSUME TypeOK, UNCHANGED tables, NEW r \in Runs, ReadsStored(r), InsertsCounted(r),
           pc'[r] # "holding", txn'[r] \in {txn[r], NoWrites},
           pc[r] \notin Ended, pc'[r] = "dead" \/ (pc'[r] \notin Ended /\ new'[r] = new[r]),
           ledger'[r] = ledger[r]
    PROVE  ReadsStored(r)' /\ InsertsCounted(r)'
<1>1. InsertedBy(r)' = InsertedBy(r)
  BY DEF InsertedBy, tables
<1>2. ReadsStored(r)'
  BY DEF ReadsStored, Stored, tables, NoWrites, Nothing
<1>3. /\ Cardinality(FreshIn(txn[r])) \in Nat /\ Cardinality(FreshIn(NoWrites)) = 0
      /\ Cardinality(InsertedBy(r)) \in Nat /\ new[r] \in Nat
  BY FreshFinite, NothingFresh, FS_CardinalityType DEF InsertsCounted, TypeOK
<1>4. ledger'[r] = NoRow
  BY DEF InsertsCounted, Ended
<1>5. ASSUME pc'[r] \notin Ended
      PROVE  Cardinality(InsertedBy(r)) + Cardinality(FreshIn(txn'[r])) <= new[r]
  <2>1. CASE txn'[r] = txn[r]
    BY <2>1 DEF InsertsCounted
  <2>2. CASE txn'[r] = NoWrites
    BY <1>3, <2>2 DEF InsertsCounted
  <2>3. QED
    BY <2>1, <2>2
<1>6. FreshIn(txn[r])' = FreshIn(txn'[r])
  BY DEF FreshIn
<1>7. InsertsCounted(r)'
  BY <1>1, <1>4, <1>5, <1>6 DEF InsertsCounted, Ended
<1>8. QED
  BY <1>2, <1>7

\* A commit turns what was counted as new into rows.
LEMMA CommitReports ==
    ASSUME TypeOK, NEW r \in Runs, ReadsStored(r), InsertsCounted(r),
           Flush(r, txn[r]), txn'[r] = NoWrites, new'[r] = new[r], ledger'[r] = ledger[r],
           pc[r] \notin Ended, pc'[r] \notin Ended, pc'[r] # "holding"
    PROVE  ReadsStored(r)' /\ InsertsCounted(r)'
<1>1. /\ IsFiniteSet(InsertedBy(r)')
      /\ Cardinality(InsertedBy(r)') <=
           Cardinality(InsertedBy(r)) + Cardinality(FreshIn(txn[r]))
  <2>1. txn[r] \in [Products -> Writes]
    BY DEF TypeOK
  <2>2. QED
    BY <2>1, FlushInserts DEF ReadsStored, InsertsCounted
<1>2. /\ Cardinality(InsertedBy(r)') \in Nat /\ Cardinality(InsertedBy(r)) \in Nat
      /\ Cardinality(FreshIn(txn[r])) \in Nat /\ Cardinality(FreshIn(NoWrites)) = 0
      /\ new[r] \in Nat
  BY <1>1, FreshFinite, NothingFresh, FS_CardinalityType DEF InsertsCounted, TypeOK
<1>3. ReadsStored(r)'
  BY DEF ReadsStored, Stored, NoWrites, Nothing
<1>4. Cardinality(InsertedBy(r)') + Cardinality(FreshIn(NoWrites)) <= new[r]
  BY <1>1, <1>2 DEF InsertsCounted
<1>5. FreshIn(txn[r])' = FreshIn(NoWrites)
  BY DEF FreshIn
<1>6. ledger'[r] = NoRow
  BY DEF InsertsCounted, Ended
<1>7. InsertsCounted(r)'
  BY <1>1, <1>4, <1>5, <1>6 DEF InsertsCounted
<1>8. QED
  BY <1>3, <1>7

\* Storing a document that differs from the one before is counted.
LEMMA WriteReports ==
    ASSUME TypeOK, HoldingVisits, NEW r \in Runs, ReadsStored(r), InsertsCounted(r), Write(r)
    PROVE  ReadsStored(r)' /\ InsertsCounted(r)'
<1> DEFINE q == Least(todo[r])
           differs == held[r].prev # held[r].doc
<1>1. /\ pc[r] = "holding" /\ pc'[r] = "storing" /\ ledger' = ledger /\ UNCHANGED tables
      /\ \A p \in Products : txn'[r][p] = IF p = q THEN held[r] ELSE txn[r][p]
      /\ new'[r] = IF differs THEN new[r] + 1 ELSE new[r]
      /\ new[r] \in Nat
  BY DEF Write, TypeOK
<1>2. ReadsStored(r)'
  BY <1>1 DEF ReadsStored, Stored, tables
<1>3. InsertedBy(r)' = InsertedBy(r)
  BY <1>1 DEF InsertedBy, tables
<1>4. FreshIn(txn[r])' \in SUBSET (IF differs THEN FreshIn(txn[r]) \cup {q} ELSE FreshIn(txn[r]))
  BY <1>1 DEF FreshIn
<1> DEFINE old == FreshIn(txn[r])
           now == FreshIn(txn[r])'
<1>5. IsFiniteSet(old) /\ Cardinality(old) \in Nat
  BY FreshFinite
<1>6. /\ IsFiniteSet(old \cup {q})
      /\ Cardinality(old \cup {q}) = IF q \in old THEN Cardinality(old) ELSE Cardinality(old) + 1
  BY <1>5, FS_AddElement
<1> HIDE DEF old, now, q, differs
<1>7. Cardinality(now) <= Cardinality(old) + (IF differs THEN 1 ELSE 0) /\ Cardinality(now) \in Nat
  <2>1. CASE differs
    <3>1. now \in SUBSET (old \cup {q})
      BY <1>4, <2>1 DEF old, now
    <3>2. Cardinality(now) <= Cardinality(old \cup {q}) /\ IsFiniteSet(now)
      BY <1>6, <3>1, FS_Subset
    <3>3. QED
      BY <1>5, <1>6, <2>1, <3>2, FS_CardinalityType
  <2>2. CASE ~differs
    <3>1. now \in SUBSET old
      BY <1>4, <2>2 DEF old, now
    <3>2. QED
      BY <1>5, <2>2, <3>1, FS_Subset, FS_CardinalityType
  <2>3. QED
    BY <2>1, <2>2
<1>8. Cardinality(InsertedBy(r)) \in Nat /\ pc[r] \notin Ended
  BY <1>1, FS_CardinalityType DEF InsertsCounted, Ended
<1>9. Cardinality(InsertedBy(r)) + Cardinality(now) <= new'[r]
  BY <1>1, <1>5, <1>7, <1>8 DEF InsertsCounted, old
<1>10. ledger'[r] = NoRow
  BY <1>1 DEF InsertsCounted
<1>11. InsertsCounted(r)'
  BY <1>3, <1>9, <1>10 DEF InsertsCounted, now
<1>12. QED
  BY <1>2, <1>11

\* A withdrawal inserts no snapshot.
LEMMA WithdrawalReports ==
    ASSUME TypeOK, \A p \in Products : Stored(p, current[p]), NEW r \in Runs,
           ReadsStored(r), InsertsCounted(r), RecordWithdrawal(r)
    PROVE  ReadsStored(r)' /\ InsertsCounted(r)'
<1> DEFINE q == Least(todo[r])
           gone == [prev |-> current[q], doc |-> Absent]
<1>1. /\ pc[r] = "withdrawing" /\ pc' = pc /\ ledger' = ledger /\ new' = new
      /\ UNCHANGED tables
      /\ \A p \in Products : txn'[r][p] = IF p = q THEN gone ELSE txn[r][p]
  BY DEF RecordWithdrawal, TypeOK, counts
<1>2. gone.prev = current[q] /\ gone.doc = Absent
  OBVIOUS
<1> HIDE DEF gone
<1>3. ReadsStored(r)'
  <2>1. ASSUME NEW p \in Products PROVE Stored(p, txn'[r][p].prev)
    BY <1>1, <1>2 DEF ReadsStored
  <2>2. QED
    BY <1>1, <2>1 DEF ReadsStored, Stored, tables
<1>4. FreshIn(txn[r])' \in SUBSET FreshIn(txn[r])
  BY <1>1, <1>2 DEF FreshIn
<1>5. InsertedBy(r)' = InsertedBy(r)
  BY <1>1 DEF InsertedBy, tables
<1>6. /\ Cardinality(FreshIn(txn[r])') <= Cardinality(FreshIn(txn[r]))
      /\ Cardinality(FreshIn(txn[r])) \in Nat /\ Cardinality(FreshIn(txn[r])') \in Nat
  <2>1. IsFiniteSet(FreshIn(txn[r])) /\ Cardinality(FreshIn(txn[r])) \in Nat
    BY FreshFinite
  <2>2. IsFiniteSet(FreshIn(txn[r])')
    BY <1>4, <2>1, FS_Subset
  <2>3. QED
    BY <1>4, <2>1, <2>2, FS_Subset, FS_CardinalityType
<1>7. Cardinality(InsertedBy(r)) \in Nat /\ new[r] \in Nat
  BY FS_CardinalityType DEF InsertsCounted, TypeOK
<1>8. Cardinality(InsertedBy(r)) + Cardinality(FreshIn(txn[r])') <= new[r]
  BY <1>1, <1>6, <1>7 DEF InsertsCounted, Ended
<1>9. InsertsCounted(r)'
  BY <1>1, <1>5, <1>8 DEF InsertsCounted, Ended
<1>10. QED
  BY <1>3, <1>9

\* The ledger row takes the count over.
LEMMA RecordReports ==
    ASSUME TypeOK, NEW r \in Runs, ReadsStored(r), InsertsCounted(r), Record(r)
    PROVE  ReadsStored(r)' /\ InsertsCounted(r)'
<1>1. /\ pc[r] = "recording" /\ pc'[r] = "done" /\ txn'[r] = NoWrites /\ UNCHANGED tables
      /\ ledger'[r].new = new[r]
  BY DEF Record, Leave, TypeOK
<1>2. InsertedBy(r)' = InsertedBy(r)
  BY <1>1 DEF InsertedBy, tables
<1>3. Cardinality(InsertedBy(r)) <= new[r]
  <2>1. /\ Cardinality(InsertedBy(r)) \in Nat /\ new[r] \in Nat
        /\ Cardinality(FreshIn(txn[r])) \in Nat
    BY FreshFinite, FS_CardinalityType DEF InsertsCounted, TypeOK
  <2>2. Cardinality(InsertedBy(r)) + Cardinality(FreshIn(txn[r])) <= new[r]
    BY <1>1 DEF InsertsCounted, Ended
  <2>3. QED
    BY <2>1, <2>2
<1>4. ReadsStored(r)'
  BY <1>1 DEF ReadsStored, Stored, NoWrites, Nothing
<1>5. InsertsCounted(r)'
  BY <1>1, <1>2, <1>3 DEF InsertsCounted, Ended
<1>6. QED
  BY <1>4, <1>5

\* Every step of a pass keeps its account of the snapshots it inserts.
LEMMA StepReports ==
    ASSUME TypeOK, HoldingVisits, ReportInv, NEW r \in Runs, Moves(r)
    PROVE  ReadsStored(r)' /\ InsertsCounted(r)'
<1> DEFINE Goal == ReadsStored(r)' /\ InsertsCounted(r)'
<1>0. /\ ReadsStored(r) /\ InsertsCounted(r)
      /\ \A p \in Products : Stored(p, current[p])
  BY DEF ReportInv
<1>1. CASE \/ Begin(r) \/ ListProducts(r) \/ ListFails(r) \/ SkipFailed(r) \/ Conclude(r)
           \/ Raise(r)
  <2>1. /\ UNCHANGED tables /\ txn'[r] \in {txn[r], NoWrites}
        /\ new'[r] = new[r] /\ ledger'[r] = ledger[r]
    BY <1>1 DEF Begin, ListProducts, ListFails, SkipFailed, Conclude, Raise, counts, TypeOK
  <2>2. /\ pc[r] \in {"waiting", "listing", "storing", "holding"}
        /\ pc'[r] \in {"listing", "storing", "recording", "withdrawing"}
    BY <1>1
    DEF Begin, ListProducts, ListFails, SkipFailed, Conclude, Raise, Visiting, TypeOK
  <2>3. QED
    BY <1>0, <2>1, <2>2, QuietReport DEF Ended
<1>2. CASE Quarantine(r) \/ Commit(r)
  <2>1. /\ Flush(r, txn[r]) /\ txn'[r] = NoWrites
        /\ new'[r] = new[r] /\ ledger'[r] = ledger[r]
    BY <1>2 DEF Quarantine, Commit, counts, TypeOK
  <2>2. /\ pc[r] \in {"storing", "withdrawing"}
        /\ pc'[r] \in {"storing", "recording"}
    BY <1>2 DEF Quarantine, Commit, Visiting, TypeOK
  <2>3. QED
    BY <1>0, <2>1, <2>2, CommitReports DEF Ended
<1>3. CASE ReadLatest(r)
  <2>1. /\ UNCHANGED tables /\ pc[r] = "storing" /\ pc'[r] = "holding" /\ todo' = todo
        /\ todo[r] # {} /\ todo[r] \in SUBSET Products
        /\ held'[r].prev = current[Least(todo[r])]
        /\ txn' = txn /\ new' = new /\ ledger' = ledger
    BY <1>3 DEF ReadLatest, Visiting, TypeOK, counts
  <2>2. Least(todo[r]) \in Products
    BY <2>1, LeastIn
  <2>3. ReadsStored(r)'
    BY <1>0, <2>1, <2>2 DEF ReadsStored, Stored, tables
  <2>4. InsertsCounted(r)'
    BY <1>0, <2>1 DEF InsertsCounted, InsertedBy, FreshIn, tables, Ended
  <2>5. QED
    BY <2>3, <2>4
<1>4. CASE Write(r)
  BY <1>0, <1>4, WriteReports
<1>5. CASE RecordWithdrawal(r)
  BY <1>0, <1>5, WithdrawalReports
<1>6. CASE Record(r)
  BY <1>0, <1>6, RecordReports
<1>7. CASE Abort(r) \/ DeadlockVictim(r)
  <2>1. Leave(r, "dead") /\ UNCHANGED <<tables, ledger>>
    BY <1>7 DEF Abort, DeadlockVictim
  <2>2. /\ pc'[r] = "dead" /\ txn'[r] = NoWrites
        /\ UNCHANGED tables /\ ledger'[r] = ledger[r]
        /\ txn'[r] \in {txn[r], NoWrites} /\ pc'[r] # "holding"
    BY <2>1 DEF Leave, TypeOK
  <2>3. pc[r] \notin Ended
    BY <1>7 DEF Abort, DeadlockVictim, WaitsFor, Active, Ended
  <2>4. QED
    BY <1>0, <2>2, <2>3, QuietReport
<1>8. QED
  BY <1>1, <1>2, <1>3, <1>4, <1>5, <1>6, <1>7 DEF Moves, Step

\* NewSnapshotsReported, whatever the faults and even when runs overlap: a
\* ledger row never reports fewer new snapshots than its run committed, not
\* even when a brand failed half-way after quarantine had committed for it.
THEOREM SnapshotsReported == Spec => []NewSnapshotsReported
<1>1. Init => ReportInv
  <2> SUFFICES ASSUME Init PROVE ReportInv
    OBVIOUS
  <2>1. \A p \in Products : Stored(p, current[p])
    BY DEF Init, Stored
  <2>2. ASSUME NEW r \in Runs PROVE ReadsStored(r) /\ InsertsCounted(r)
    <3>1. InsertedBy(r) = {}
      BY PassAssumption DEF Init, InsertedBy
    <3>2. ReadsStored(r)
      BY DEF Init, ReadsStored, Stored, NoWrites, Nothing
    <3>3. txn[r] = NoWrites /\ new[r] = 0 /\ ledger[r] = NoRow
      BY DEF Init
    <3>4. QED
      BY <3>1, <3>2, <3>3, NothingFresh, FS_EmptySet DEF InsertsCounted
  <2>3. QED
    BY <2>1, <2>2 DEF ReportInv
<1>2. ReportInv /\ ExplainInv /\ [Next]_vars => ReportInv'
  <2> SUFFICES ASSUME ReportInv, ExplainInv, [Next]_vars PROVE ReportInv'
    OBVIOUS
  <2>0. TypeOK /\ HoldingVisits
    BY DEF ExplainInv
  <2>1. CASE UNCHANGED vars
    BY <2>1 DEF vars, tables, counts, ReportInv, ReadsStored, InsertsCounted, InsertedBy,
       FreshIn, Stored
  <2>2. ASSUME NEW r \in Runs, Moves(r) PROVE ReportInv'
    <3>1. \A p \in Products : Stored(p, current[p])'
      BY <2>0, <2>2, ShownStored DEF ReportInv
    <3>2. ReadsStored(r)' /\ InsertsCounted(r)'
      BY <2>0, <2>2, StepReports
    <3>3. ASSUME NEW s \in Runs \ {r} PROVE ReadsStored(s)' /\ InsertsCounted(s)'
      BY <2>0, <2>2, OthersReport DEF ReportInv
    <3>4. QED
      BY <3>1, <3>2, <3>3 DEF ReportInv
  <2>3. QED
    BY <2>1, <2>2, WhoMoves
<1>3. ReportInv => NewSnapshotsReported
  BY DEF ReportInv, InsertsCounted, NewSnapshotsReported
<1>4. QED
  BY <1>1, <1>2, <1>3, ExplainInvariant, PTL DEF Spec
-----------------------------------------------------------------------------
(* Only what the bank did not offer is withdrawn, even when passes overlap. *)

\* What a pass is about to withdraw was on sale before it and is in no page.
WithdrawsUnlisted(r) ==
    /\ pc[r] \in {"storing", "holding", "withdrawing"} => listed[r] = offered[r]
    /\ pc[r] = "holding" => held[r].doc # Absent
    /\ Withdraws(r) # {} => pc[r] = "withdrawing"
    /\ pc[r] = "withdrawing" => Withdraws(r) \cup todo[r] \subseteq known[r] \ listed[r]

WithdrawInv == \A r \in Runs : WithdrawsUnlisted(r)

\* A pass without an open transaction withdraws nothing.
LEMMA NothingWithdrawn ==
    ASSUME NEW r \in Runs, txn'[r] = NoWrites
    PROVE  Withdraws(r)' = {}
BY DEF Withdraws, NoWrites, Nothing

\* A step of one pass leaves the others' withdrawals as they are.
LEMMA OthersWithdraw ==
    ASSUME TypeOK, NEW r \in Runs, Moves(r), NEW s \in Runs \ {r}, WithdrawsUnlisted(s)
    PROVE  WithdrawsUnlisted(s)'
BY OthersUntouched DEF Untouched, WithdrawsUnlisted, Withdraws

\* Every step of a pass keeps its withdrawals to what it did not list, when
\* the listing it reads is the bank's.
LEMMA StepWithdraws ==
    ASSUME ~Garbled, TypeOK, NEW r \in Runs, Moves(r), WithdrawsUnlisted(r)
    PROVE  WithdrawsUnlisted(r)'
<1> USE DEF WithdrawsUnlisted, counts
<1>1. CASE Begin(r)
  <2>1. /\ pc[r] = "waiting" /\ pc'[r] = "listing" /\ txn' = txn
    BY <1>1 DEF Begin, TypeOK
  <2>2. Withdraws(r)' = Withdraws(r)
    BY <2>1 DEF Withdraws
  <2>3. QED
    BY <2>1, <2>2
<1>2. CASE ListProducts(r)
  <2>1. /\ pc[r] = "listing" /\ pc'[r] = "storing" /\ txn' = txn
        /\ listed'[r] = offered'[r]
    BY <1>2 DEF ListProducts, TypeOK
  <2>2. Withdraws(r)' = Withdraws(r)
    BY <2>1 DEF Withdraws
  <2>3. QED
    BY <2>1, <2>2
<1>3. CASE ListFails(r)
  <2>1. /\ pc[r] = "listing" /\ pc'[r] = "recording" /\ txn' = txn
    BY <1>3 DEF ListFails, TypeOK
  <2>2. Withdraws(r)' = Withdraws(r)
    BY <2>1 DEF Withdraws
  <2>3. QED
    BY <2>1, <2>2
<1>4. CASE SkipFailed(r)
  <2>1. pc[r] = "storing" /\ UNCHANGED <<pc, txn, listed, offered>>
    BY <1>4 DEF SkipFailed, Visiting
  <2>2. Withdraws(r)' = Withdraws(r)
    BY <2>1 DEF Withdraws
  <2>3. QED
    BY <2>1, <2>2
<1>5. CASE Quarantine(r)
  <2>1. /\ pc[r] = "storing" /\ UNCHANGED <<pc, listed, offered>>
        /\ txn'[r] = NoWrites
    BY <1>5 DEF Quarantine, Visiting, TypeOK
  <2>2. QED
    BY <2>1, NothingWithdrawn
<1>6. CASE ReadLatest(r)
  <2>1. /\ pc[r] = "storing" /\ pc'[r] = "holding" /\ UNCHANGED <<txn, listed, offered>>
        /\ held'[r].doc # Absent
    BY <1>6, DocumentAssumption DEF ReadLatest, Visiting, TypeOK
  <2>2. Withdraws(r)' = Withdraws(r)
    BY <2>1 DEF Withdraws
  <2>3. QED
    BY <2>1, <2>2
<1>7. CASE Write(r)
  <2>1. /\ pc[r] = "holding" /\ pc'[r] = "storing" /\ UNCHANGED <<listed, offered>>
        /\ \A p \in Products :
             txn'[r][p] = IF p = Least(todo[r]) THEN held[r] ELSE txn[r][p]
    BY <1>7 DEF Write, TypeOK
  <2>2. Withdraws(r)' = {}
    BY <2>1 DEF Withdraws
  <2>3. QED
    BY <2>1, <2>2
<1>8. CASE Conclude(r)
  <2>1. /\ pc[r] = "storing" /\ pc'[r] = "withdrawing"
        /\ UNCHANGED <<txn, known, listed, offered>>
        /\ todo'[r] = known[r] \ listed[r]
    BY <1>8 DEF Conclude, TypeOK
  <2>2. Withdraws(r)' = Withdraws(r)
    BY <2>1 DEF Withdraws
  <2>3. QED
    BY <2>1, <2>2
<1>9. CASE RecordWithdrawal(r)
  <2>1. /\ pc[r] = "withdrawing" /\ UNCHANGED <<pc, known, listed, offered>>
        /\ todo[r] # {} /\ todo[r] \in SUBSET Products /\ todo'[r] \subseteq todo[r]
        /\ \A p \in Products \ {Least(todo[r])} : txn'[r][p] = txn[r][p]
    BY <1>9 DEF RecordWithdrawal, Visited, TypeOK
  <2>2. Least(todo[r]) \in todo[r]
    BY <2>1, LeastIn
  <2>3. Withdraws(r)' \subseteq Withdraws(r) \cup {Least(todo[r])}
    BY <2>1 DEF Withdraws
  <2>4. QED
    BY <2>1, <2>2, <2>3
<1>10. CASE Commit(r) \/ Raise(r)
  <2>1. pc'[r] = "recording" /\ txn'[r] = NoWrites
    BY <1>10 DEF Commit, Raise, TypeOK
  <2>2. QED
    BY <2>1, NothingWithdrawn
<1>11. CASE Record(r) \/ Abort(r) \/ DeadlockVictim(r)
  <2>1. pc'[r] \in Ended /\ txn'[r] = NoWrites
    BY <1>11 DEF Record, Abort, DeadlockVictim, Leave, Ended, TypeOK
  <2>2. QED
    BY <2>1, NothingWithdrawn DEF Ended
<1>12. QED
  BY <1>1, <1>2, <1>3, <1>4, <1>5, <1>6, <1>7, <1>8, <1>9, <1>10, <1>11
  DEF Moves, Step

\* OnlyUnofferedWithdrawn, whatever fails and even when runs overlap, as long
\* as no page that is readable JSON misses products: a product goes off sale
\* only in the commit of a pass that found it on sale before and whose bank
\* did not offer it - not because its detail failed or could not be read.
THEOREM WithdrawnUnoffered ==
    ASSUME ~Garbled
    PROVE  Spec => OnlyUnofferedWithdrawn
<1> DEFINE Justified ==
        \A p \in Products : available[p] /\ ~available'[p] =>
            \E r \in Runs : /\ pc[r] = "withdrawing" /\ pc'[r] = "recording"
                            /\ p \in known[r] \ offered[r]
<1>1. Init => WithdrawInv
  BY DEF Init, WithdrawInv, WithdrawsUnlisted, Withdraws, NoWrites, Nothing
<1>2. WithdrawInv /\ TypeOK /\ [Next]_vars => WithdrawInv' /\ [Justified]_vars
  <2> SUFFICES ASSUME WithdrawInv, TypeOK, [Next]_vars PROVE WithdrawInv' /\ [Justified]_vars
    OBVIOUS
  <2>1. CASE UNCHANGED vars
    BY <2>1 DEF vars, tables, counts, WithdrawInv, WithdrawsUnlisted, Withdraws
  <2>2. ASSUME NEW r \in Runs, Moves(r) PROVE WithdrawInv' /\ Justified
    <3>1. WithdrawsUnlisted(r)'
      BY <2>2, StepWithdraws DEF WithdrawInv
    <3>2. \A s \in Runs \ {r} : WithdrawsUnlisted(s)'
      BY <2>2, OthersWithdraw DEF WithdrawInv
    <3>3. ASSUME NEW p \in Products, available[p], ~available'[p]
          PROVE  /\ pc[r] = "withdrawing" /\ pc'[r] = "recording"
                 /\ p \in known[r] \ offered[r]
      <4>1. ~UNCHANGED tables
        BY <3>3 DEF tables
      <4>2. (Quarantine(r) \/ Commit(r)) /\ Flush(r, txn[r])
        BY <2>2, <4>1, TablesMove
      <4>3. p \in Withdraws(r)
        BY <3>3, <4>2 DEF Flush, Withdraws
      <4>4. pc[r] = "withdrawing" /\ p \in known[r] \ listed[r] /\ listed[r] = offered[r]
        BY <4>3 DEF WithdrawInv, WithdrawsUnlisted
      <4>5. pc'[r] = "recording"
        BY <4>2, <4>4 DEF Quarantine, Visiting, Commit, TypeOK
      <4>6. QED
        BY <4>4, <4>5
    <3>4. QED
      BY <3>1, <3>2, <3>3 DEF WithdrawInv
  <2>3. QED
    BY <2>1, <2>2, WhoMoves
<1>3. Spec => [][Justified]_vars
  BY <1>1, <1>2, TypeCorrect, PTL DEF Spec
<1>4. QED
  BY <1>3 DEF OnlyUnofferedWithdrawn
-----------------------------------------------------------------------------
(***************************************************************************)
(* CollectBrand when runs do not overlap.  At most one pass is under way,  *)
(* so what it has read of the tables is still true when it commits, and    *)
(* what it stores has not been seen by its run before.  Hence the passes   *)
(* implement ChangeFeed, product_snapshot tells what product_current       *)
(* shows, and the ledger adds up.                                          *)
(***************************************************************************)

Alone == \A r, s \in Runs : Active(r) /\ Active(s) => r = s

\* What pass r has read and written agrees with the tables.
HoldingOK(r) ==
    pc[r] = "holding" =>
        /\ todo[r] # {}
        /\ held[r].prev = current[Least(todo[r])]
        /\ held[r].doc # Absent
WritesOK(r) ==
    /\ ~Active(r) => txn[r] = NoWrites
    /\ \A p \in Products :
        /\ txn[r][p] = Nothing \/ txn[r][p].prev = current[p]
        /\ p \in Withdraws(r) => pc[r] = "withdrawing" /\ available[p]
KnownOK(r) ==
    /\ pc[r] \in {"listing", "storing", "holding", "withdrawing"} =>
        \A p \in known[r] : available[p]
    /\ pc[r] = "withdrawing" => todo[r] \subseteq known[r]

PassOK(r) == HoldingOK(r) /\ WritesOK(r) /\ KnownOK(r)

SerialInv == TypeOK /\ Alone /\ \A r \in Runs : PassOK(r)

\* A pass that is not under way agrees with any tables.
LEMMA IdleOK ==
    ASSUME NEW r \in Runs, ~Active(r), txn[r] = NoWrites
    PROVE  PassOK(r)
BY DEF PassOK, HoldingOK, WritesOK, KnownOK, Active, Ended, NoWrites, Nothing, Withdraws

\* No pass is under way at first.
LEMMA InitSerial == Init => SerialInv
<1> SUFFICES ASSUME Init PROVE SerialInv
  OBVIOUS
<1>1. TypeOK
  BY WritesTyped DEF Init, TypeOK
<1>2. \A r \in Runs : ~Active(r) /\ txn[r] = NoWrites
  BY DEF Init, Active
<1>3. QED
  BY <1>1, <1>2, IdleOK DEF SerialInv, Alone

\* A commit of a pass that agrees with the tables is a step of ChangeFeed.
LEMMA FlushPublishes ==
    ASSUME TypeOK, NEW r \in Runs, PassOK(r), Flush(r, txn[r])
    PROVE  CF!Next
<1> DEFINE w == txn[r]
           seen == Stores(r)
           gone == Withdraws(r)
           doc == [p \in seen |-> w[p].doc]
<1>1. /\ w \in [Products -> Writes]
      /\ seen \in SUBSET Products /\ gone \in SUBSET Products
  BY DEF TypeOK, Stores, Withdraws
<1>2. doc \in [seen -> Contents]
  BY <1>1 DEF Stores, Writes, Docs
<1>3. gone \subseteq {p \in Products \ DOMAIN doc : available[p]}
  BY DEF PassOK, WritesOK, Stores, Withdraws
<1>4. ASSUME NEW p \in Products
      PROVE  /\ current'[p] = IF p \in DOMAIN doc THEN doc[p] ELSE current[p]
             /\ available'[p] = (p \in DOMAIN doc \/ (available[p] /\ p \notin gone))
             /\ feed'[p] = feed[p] \o
                    (IF p \in DOMAIN doc THEN CF!Diff(current[p], doc[p])
                     ELSE IF p \in gone THEN CF!Diff(current[p], Absent)
                     ELSE << >>)
  <2>1. p \in DOMAIN doc <=> w[p].doc # Absent
    BY DEF Stores
  <2>2. p \in gone <=> w[p].doc = Absent /\ w[p].prev # Absent
    BY DEF Withdraws
  <2>3. /\ current'[p] = IF w[p].doc # Absent THEN w[p].doc ELSE current[p]
        /\ available'[p] = (w[p].doc # Absent \/ (available[p] /\ w[p].prev = Absent))
        /\ feed'[p] = feed[p] \o Diff(w[p].prev, w[p].doc)
    BY DEF Flush
  <2>4. w[p] = Nothing \/ w[p].prev = current[p]
    BY DEF PassOK, WritesOK
  <2>5. Diff(w[p].prev, w[p].doc) =
            IF p \in DOMAIN doc THEN CF!Diff(current[p], doc[p])
            ELSE IF p \in gone THEN CF!Diff(current[p], Absent)
            ELSE << >>
    <3>1. CASE w[p].doc # Absent
      <4>1. p \in DOMAIN doc /\ doc[p] = w[p].doc /\ w[p].prev = current[p]
        BY <2>1, <2>4, <3>1 DEF Nothing
      <4>2. QED
        BY <4>1 DEF Diff, CF!Diff, Differ, CF!Differ, Event, CF!Event
    <3>2. CASE w[p].doc = Absent /\ w[p].prev # Absent
      <4>1. p \notin DOMAIN doc /\ p \in gone /\ w[p].prev = current[p]
        BY <2>1, <2>2, <2>4, <3>2 DEF Nothing
      <4>2. QED
        BY <3>2, <4>1 DEF Diff, CF!Diff, Differ, CF!Differ, Event, CF!Event
    <3>3. CASE w[p].doc = Absent /\ w[p].prev = Absent
      <4>1. p \notin DOMAIN doc /\ p \notin gone
        BY <2>1, <2>2, <3>3
      <4>2. QED
        BY <3>3, <4>1 DEF Diff
    <3>4. QED
      BY <3>1, <3>2, <3>3
  <2>6. QED
    BY <2>1, <2>2, <2>3, <2>5
<1>5. CF!Publish(doc, gone)
  <2> HIDE DEF doc, gone
  <2>1. /\ current' = [p \in Products |-> current'[p]]
        /\ available' = [p \in Products |-> available'[p]]
        /\ feed' = [p \in Products |-> feed'[p]]
    BY DEF Flush
  <2>2. QED
    BY <1>3, <1>4, <2>1 DEF CF!Publish
<1>6. QED
  <2> HIDE DEF seen, doc, gone
  <2>1. QED
    BY <1>1, <1>2, <1>5 DEF CF!Next
-----------------------------------------------------------------------------
\* The other passes are not under way while r is.
LEMMA OthersIdle ==
    ASSUME SerialInv, NEW r \in Runs, Active(r), NEW s \in Runs \ {r},
           pc'[s] = pc[s], txn'[s] = txn[s]
    PROVE  ~Active(s)' /\ PassOK(s)'
<1>1. ~Active(s) /\ txn[s] = NoWrites
  BY DEF SerialInv, Alone, PassOK, WritesOK
<1>2. ~Active(s)' /\ txn'[s] = NoWrites
  BY <1>1 DEF Active
<1>3. QED
  BY <1>2 DEF PassOK, HoldingOK, WritesOK, KnownOK, Active, Ended, NoWrites, Nothing, Withdraws

\* A step of the pass under way: it is enough to look at that pass.
LEMMA OnePassSteps ==
    ASSUME SerialInv, NEW r \in Runs, Active(r),
           \A s \in Runs \ {r} : pc'[s] = pc[s] /\ txn'[s] = txn[s],
           PassOK(r)'
    PROVE  Alone' /\ \A s \in Runs : PassOK(s)'
<1>1. \A s \in Runs \ {r} : ~Active(s)' /\ PassOK(s)'
  BY OthersIdle
<1>2. QED
  BY <1>1 DEF Alone

\* Without overlap every step keeps the passes in agreement with the tables,
\* and is a step of ChangeFeed.
LEMMA SerialStep ==
    ASSUME ~Overlap, SerialInv, TypeOK', [Next]_vars
    PROVE  /\ Alone' /\ \A r \in Runs : PassOK(r)'
           /\ [CF!Next]_CF!vars
<1> USE DEF tables, counts
<1> DEFINE Goal == Alone' /\ (\A r \in Runs : PassOK(r)') /\ [CF!Next]_CF!vars
           Quiet == UNCHANGED tables
<1>0. TypeOK /\ Alone /\ \A r \in Runs : PassOK(r)
  BY DEF SerialInv
<1>q. Quiet => [CF!Next]_CF!vars
  BY DEF CF!vars
<1>1. CASE UNCHANGED vars
  <2>1. Alone' /\ \A r \in Runs : PassOK(r)'
    BY <1>0, <1>1 DEF vars, Alone, Active, PassOK, HoldingOK, WritesOK, KnownOK, Withdraws
  <2>2. QED
    BY <1>q, <1>1, <2>1 DEF vars
<1>2. ASSUME NEW r \in Runs, Begin(r) PROVE Goal
  <2>1. \A s \in Runs : ~Active(s) /\ txn[s] = NoWrites
    BY <1>0, <1>2 DEF Begin, MayStart, PassOK, WritesOK
  <2>2. \A s \in Runs \ {r} : ~Active(s)' /\ txn'[s] = NoWrites
    BY <1>0, <1>2, <2>1 DEF Begin, Active, TypeOK
  <2>3. \A s \in Runs \ {r} : PassOK(s)'
    BY <2>2 DEF PassOK, HoldingOK, WritesOK, KnownOK, Active, Ended, NoWrites, Nothing, Withdraws
  <2>4. PassOK(r)'
    BY <1>0, <1>2, <2>1
    DEF Begin, TypeOK, PassOK, HoldingOK, WritesOK, KnownOK, Active, Ended, NoWrites,
        Nothing, Withdraws
  <2>5. QED
    BY <1>q, <1>2, <2>2, <2>3, <2>4 DEF Begin, Alone
<1>3. ASSUME NEW r \in Runs, ListProducts(r) PROVE Goal
  <2>1. PassOK(r) /\ Active(r) /\ pc[r] = "listing" /\ pc'[r] = "storing"
    BY <1>0, <1>3 DEF ListProducts, Active, Ended, TypeOK
  <2>2. UNCHANGED <<tables, held, txn, known>>
    BY <1>3 DEF ListProducts
  <2>3. PassOK(r)'
    BY <2>1, <2>2 DEF PassOK, HoldingOK, WritesOK, KnownOK, Active, Ended, Withdraws
  <2>4. \A s \in Runs \ {r} : pc'[s] = pc[s] /\ txn'[s] = txn[s]
    BY <1>0, <1>3 DEF ListProducts, TypeOK
  <2>5. QED
    BY <1>q, <2>1, <2>2, <2>3, <2>4, OnePassSteps
<1>4. ASSUME NEW r \in Runs, ListFails(r) PROVE Goal
  <2>1. PassOK(r) /\ Active(r) /\ pc[r] = "listing" /\ pc'[r] = "recording"
    BY <1>0, <1>4 DEF ListFails, Active, Ended, TypeOK
  <2>2. UNCHANGED <<tables, held, txn, known>>
    BY <1>4 DEF ListFails
  <2>3. PassOK(r)'
    BY <2>1, <2>2 DEF PassOK, HoldingOK, WritesOK, KnownOK, Active, Ended, Withdraws
  <2>4. \A s \in Runs \ {r} : pc'[s] = pc[s] /\ txn'[s] = txn[s]
    BY <1>0, <1>4 DEF ListFails, TypeOK
  <2>5. QED
    BY <1>q, <2>1, <2>2, <2>3, <2>4, OnePassSteps
<1>5. ASSUME NEW r \in Runs, SkipFailed(r) PROVE Goal
  <2>1. PassOK(r) /\ Active(r) /\ pc[r] = "storing"
    BY <1>0, <1>5 DEF SkipFailed, Visiting, Active, Ended
  <2>2. UNCHANGED <<tables, held, txn, known, pc>>
    BY <1>5 DEF SkipFailed
  <2>3. PassOK(r)'
    BY <2>1, <2>2 DEF PassOK, HoldingOK, WritesOK, KnownOK, Active, Ended, Withdraws
  <2>4. QED
    BY <1>q, <2>1, <2>2, <2>3, OnePassSteps
<1>6. ASSUME NEW r \in Runs, Quarantine(r) PROVE Goal
  <2>1. PassOK(r) /\ Active(r) /\ pc[r] = "storing" /\ Flush(r, txn[r])
    BY <1>0, <1>6 DEF Quarantine, Visiting, Active, Ended
  <2>2. UNCHANGED <<pc, known, held>> /\ txn'[r] = NoWrites
    BY <1>0, <1>6 DEF Quarantine, TypeOK
  <2>3. \A p \in known[r] : available'[p]
    BY <1>0, <2>1 DEF PassOK, WritesOK, KnownOK, Withdraws, Flush, TypeOK
  <2>4. PassOK(r)'
    BY <2>1, <2>2, <2>3
    DEF PassOK, HoldingOK, WritesOK, KnownOK, Active, Ended, Withdraws, NoWrites, Nothing
  <2>5. \A s \in Runs \ {r} : pc'[s] = pc[s] /\ txn'[s] = txn[s]
    BY <1>0, <1>6 DEF Quarantine, TypeOK
  <2>6. CF!Next
    BY <1>0, <2>1, FlushPublishes
  <2>7. QED
    BY <2>1, <2>4, <2>5, <2>6, OnePassSteps
<1>7. ASSUME NEW r \in Runs, ReadLatest(r) PROVE Goal
  <2>1. PassOK(r) /\ Active(r) /\ pc[r] = "storing" /\ pc'[r] = "holding" /\ todo[r] # {}
    BY <1>0, <1>7 DEF ReadLatest, Visiting, Active, Ended, TypeOK
  <2>2. UNCHANGED <<tables, txn, known, todo>>
    BY <1>7 DEF ReadLatest
  <2>3. HoldingOK(r)'
    BY <1>0, <1>7, <2>1, <2>2, DocumentAssumption DEF ReadLatest, HoldingOK, TypeOK
  <2>4. WritesOK(r)' /\ KnownOK(r)'
    BY <2>1, <2>2 DEF PassOK, WritesOK, KnownOK, Active, Ended, Withdraws
  <2>5. \A s \in Runs \ {r} : pc'[s] = pc[s] /\ txn'[s] = txn[s]
    BY <1>0, <1>7 DEF ReadLatest, TypeOK
  <2>6. QED
    BY <1>q, <2>1, <2>2, <2>3, <2>4, <2>5, OnePassSteps DEF PassOK
<1>8. ASSUME NEW r \in Runs, Write(r) PROVE Goal
  <2> DEFINE q == Least(todo[r])
  <2>1. PassOK(r) /\ Active(r) /\ pc[r] = "holding" /\ pc'[r] = "storing"
    BY <1>0, <1>8 DEF Write, Active, Ended, TypeOK
  <2>2. UNCHANGED <<tables, known>>
    BY <1>8 DEF Write
  <2>3. \A p \in Products : txn'[r][p] = IF p = q THEN held[r] ELSE txn[r][p]
    BY <1>0, <1>8 DEF Write, TypeOK
  <2>4. WritesOK(r)'
    <3>1. ASSUME NEW p \in Products
          PROVE  /\ txn'[r][p] = Nothing \/ txn'[r][p].prev = current[p]
                 /\ ~(txn'[r][p].doc = Absent /\ txn'[r][p].prev # Absent)
      BY <2>1, <2>3 DEF PassOK, HoldingOK, WritesOK, Withdraws
    <3>2. QED
      BY <2>1, <2>2, <3>1 DEF WritesOK, Withdraws, Active, Ended
  <2>5. HoldingOK(r)' /\ KnownOK(r)'
    BY <2>1, <2>2 DEF PassOK, HoldingOK, KnownOK
  <2>6. \A s \in Runs \ {r} : pc'[s] = pc[s] /\ txn'[s] = txn[s]
    BY <1>0, <1>8 DEF Write, TypeOK
  <2>7. QED
    BY <1>q, <2>1, <2>2, <2>4, <2>5, <2>6, OnePassSteps DEF PassOK
<1>9. ASSUME NEW r \in Runs, Raise(r) PROVE Goal
  <2>1. Active(r) /\ pc'[r] = "recording" /\ txn'[r] = NoWrites
    BY <1>0, <1>9 DEF Raise, Active, Ended, TypeOK
  <2>2. PassOK(r)'
    BY <2>1
    DEF PassOK, HoldingOK, WritesOK, KnownOK, Active, Ended, Withdraws, NoWrites, Nothing
  <2>3. \A s \in Runs \ {r} : pc'[s] = pc[s] /\ txn'[s] = txn[s]
    BY <1>0, <1>9 DEF Raise, TypeOK
  <2>4. QED
    BY <1>q, <1>9, <2>1, <2>2, <2>3, OnePassSteps DEF Raise
<1>10. ASSUME NEW r \in Runs, Conclude(r) PROVE Goal
  <2>1. PassOK(r) /\ Active(r) /\ pc[r] = "storing" /\ pc'[r] = "withdrawing"
    BY <1>0, <1>10 DEF Conclude, Active, Ended, TypeOK
  <2>2. UNCHANGED <<tables, txn, known>> /\ todo'[r] = known[r] \ listed[r]
    BY <1>0, <1>10 DEF Conclude, TypeOK
  <2>3. PassOK(r)'
    BY <2>1, <2>2 DEF PassOK, HoldingOK, WritesOK, KnownOK, Active, Ended, Withdraws
  <2>4. \A s \in Runs \ {r} : pc'[s] = pc[s] /\ txn'[s] = txn[s]
    BY <1>0, <1>10 DEF Conclude, TypeOK
  <2>5. QED
    BY <1>q, <2>1, <2>2, <2>3, <2>4, OnePassSteps
<1>11. ASSUME NEW r \in Runs, RecordWithdrawal(r) PROVE Goal
  <2> DEFINE q == Least(todo[r])
  <2>1. PassOK(r) /\ Active(r) /\ pc[r] = "withdrawing" /\ pc'[r] = "withdrawing"
    BY <1>0, <1>11 DEF RecordWithdrawal, Active, Ended
  <2>2. UNCHANGED <<tables, known>> /\ todo'[r] \subseteq todo[r]
    BY <1>0, <1>11 DEF RecordWithdrawal, Visited, TypeOK
  <2>3. available[q]
    BY <1>0, <1>11, <2>1, LeastIn DEF RecordWithdrawal, TypeOK, PassOK, KnownOK
  <2>4. /\ txn[r] \in [Products -> Writes]
        /\ txn'[r] = [txn[r] EXCEPT ![q] = [prev |-> current[q], doc |-> Absent]]
    BY <1>0, <1>11 DEF RecordWithdrawal, TypeOK
  <2>5. WritesOK(r)'
    <3>1. ASSUME NEW p \in Products
          PROVE  /\ txn'[r][p] = Nothing \/ txn'[r][p].prev = current[p]
                 /\ p \in Withdraws(r)' => available[p]
      <4>1. CASE p = q
        <5> HIDE DEF q
        <5>1. txn'[r][p] = [prev |-> current[p], doc |-> Absent]
          BY <2>4, <4>1
        <5>2. txn'[r][p].prev = current[p]
          BY <5>1
        <5>3. QED
          BY <2>3, <4>1, <5>2
      <4>2. CASE p # q
        <5>1. txn'[r][p] = txn[r][p]
          BY <2>4, <4>2
        <5>2. QED
          BY <2>1, <5>1 DEF PassOK, WritesOK, Withdraws
      <4>3. QED
        BY <4>1, <4>2
    <3>2. QED
      BY <2>1, <2>2, <3>1 DEF WritesOK, Active, Ended
  <2>6. HoldingOK(r)' /\ KnownOK(r)'
    BY <2>1, <2>2 DEF PassOK, HoldingOK, KnownOK
  <2>7. \A s \in Runs \ {r} : pc'[s] = pc[s] /\ txn'[s] = txn[s]
    BY <1>0, <1>11 DEF RecordWithdrawal, TypeOK
  <2>8. QED
    BY <1>q, <2>1, <2>2, <2>5, <2>6, <2>7, OnePassSteps DEF PassOK
<1>12. ASSUME NEW r \in Runs, Commit(r) PROVE Goal
  <2>1. PassOK(r) /\ Active(r) /\ Flush(r, txn[r])
    BY <1>0, <1>12 DEF Commit, Active, Ended
  <2>2. pc'[r] = "recording" /\ txn'[r] = NoWrites
    BY <1>0, <1>12 DEF Commit, TypeOK
  <2>3. PassOK(r)'
    BY <2>2
    DEF PassOK, HoldingOK, WritesOK, KnownOK, Active, Ended, Withdraws, NoWrites, Nothing
  <2>4. \A s \in Runs \ {r} : pc'[s] = pc[s] /\ txn'[s] = txn[s]
    BY <1>0, <1>12 DEF Commit, TypeOK
  <2>5. CF!Next
    BY <1>0, <2>1, FlushPublishes
  <2>6. QED
    BY <2>1, <2>3, <2>4, <2>5, OnePassSteps
<1>13. ASSUME NEW r \in Runs, NEW how \in Ended, Active(r), Leave(r, how), Quiet
       PROVE  Goal
  <2>1. pc'[r] = how /\ txn'[r] = NoWrites
    BY <1>0, <1>13 DEF Leave, TypeOK
  <2>2. PassOK(r)'
    BY <2>1
    DEF PassOK, HoldingOK, WritesOK, KnownOK, Active, Ended, Withdraws, NoWrites, Nothing
  <2>3. \A s \in Runs \ {r} : pc'[s] = pc[s] /\ txn'[s] = txn[s]
    BY <1>0, <1>13 DEF Leave, TypeOK
  <2>4. QED
    BY <1>q, <1>13, <2>2, <2>3, OnePassSteps
<1>14. ASSUME NEW r \in Runs, Record(r) \/ Abort(r) \/ DeadlockVictim(r) PROVE Goal
  <2>1. Active(r)
    BY <1>14 DEF Record, Abort, DeadlockVictim, WaitsFor, Active, Ended
  <2>2. QED
    BY <1>13, <1>14, <2>1 DEF Record, Abort, DeadlockVictim, Ended
<1>15. QED
  BY <1>1, <1>2, <1>3, <1>4, <1>5, <1>6, <1>7, <1>8, <1>9, <1>10, <1>11, <1>12,
     <1>14 DEF Next, Step, Over

\* The collector implements the change feed's specification when its runs do
\* not overlap, whichever pages, details, statements or processes fail.
THEOREM SerialImplements ==
    ASSUME ~Overlap
    PROVE  Spec => ImplementsChangeFeed
<1>1. Init => SerialInv /\ CF!Init
  BY InitSerial DEF Init, CF!Init
<1>2. SerialInv /\ TypeOK' /\ [Next]_vars => SerialInv' /\ [CF!Next]_CF!vars
  BY SerialStep DEF SerialInv
<1>3. QED
  BY <1>1, <1>2, TypeCorrect, PTL DEF Spec, ImplementsChangeFeed, CF!Spec

\* Whoever replays the change rows of a product arrives at the document
\* product_current shows, and at a withdrawal if it is off sale, when runs do
\* not overlap (FeedReplays).
THEOREM FeedReplaysSerially ==
    ASSUME ~Overlap
    PROVE  Spec => []FeedReplays
<1>1. CF!Init <=> CFP!Init
  BY DEF CF!Init, CFP!Init
<1>2. [CF!Next]_CF!vars <=> [CFP!Next]_CFP!vars
  <2>1. \A prev, doc : CF!Diff(prev, doc) = CFP!Diff(prev, doc)
    BY DEF CF!Diff, CFP!Diff, CF!Differ, CFP!Differ, CF!Event, CFP!Event
  <2>2. ASSUME NEW doc, NEW gone
        PROVE  CF!Publish(doc, gone) <=> CFP!Publish(doc, gone)
    BY <2>1, Zenon DEF CF!Publish, CFP!Publish
  <2>3. QED
    BY <2>2 DEF CF!Next, CFP!Next, CF!vars, CFP!vars
<1>3. CFP!FeedReplays <=> FeedReplays
  BY DEF FeedReplays, CF!FeedReplays, CFP!FeedReplays, CF!OpensWithAdded,
         CFP!OpensWithAdded, CF!Links, CFP!Links, CF!ReachesShown, CFP!ReachesShown,
         CF!LastRow, CFP!LastRow, CF!LastDoc, CFP!LastDoc
<1>4. CF!Spec => CFP!Spec
  BY <1>1, <1>2, PTL DEF CF!Spec, CFP!Spec
<1>5. CFP!Spec => []CFP!FeedReplays
  BY CFP!FeedAlwaysReplays, DocumentAssumption DEF CFP!DocumentAssumption
<1>6. QED
  BY <1>3, <1>4, <1>5, SerialImplements, PTL DEF ImplementsChangeFeed
-----------------------------------------------------------------------------
(* What the snapshot table says of product_current.                         *)

\* Serial passes find the agreement of SerialInv at every step.
LEMMA SerialInvariant ==
    ASSUME ~Overlap
    PROVE  Spec => []SerialInv
<1>1. Init => SerialInv
  BY InitSerial
<1>2. SerialInv /\ TypeOK' /\ [Next]_vars => SerialInv'
  BY SerialStep DEF SerialInv
<1>3. QED
  BY <1>1, <1>2, TypeCorrect, PTL DEF Spec

\* No snapshot of p has been seen by run r or a later one.
Unseen(r, p) == \A c \in Contents : lastRun[p][c] < r

\* The snapshots of p, in the order they were last seen, end at the current one.
CacheOK(p) ==
    \A c \in Contents :
        /\ firstRun[p][c] <= lastRun[p][c]
        /\ firstRun[p][c] = 0 <=> lastRun[p][c] = 0
        /\ c = current[p] => 0 < firstRun[p][c]
        /\ c # current[p] /\ lastRun[p][c] # 0 =>
            /\ current[p] # Absent
            /\ lastRun[p][c] < lastRun[p][current[p]]

\* Run ids are handed out in order.
InOrder == \A r, s \in Runs : pc[r] # "waiting" /\ pc[s] = "waiting" => r < s

\* A pass stores a product once, and has not yet seen what it has yet to store.
StoresOnce(r) ==
    /\ Active(r) => \A p \in Products, c \in Contents : lastRun[p][c] <= r
    /\ pc[r] \in {"waiting", "listing"} => \A p \in Products : Unseen(r, p)
    /\ pc[r] \in {"listing", "recording"} => Stores(r) = {}
    /\ pc[r] \in {"storing", "holding"} =>
        /\ \A p \in todo[r] : Unseen(r, p)
        /\ todo[r] \cap Stores(r) = {}
    /\ Active(r) => \A p \in Stores(r) : Unseen(r, p)

CacheInv ==
    /\ \A p \in Products : CacheOK(p)
    /\ InOrder
    /\ \A r \in Runs : StoresOnce(r)

\* A pass once begun is not waiting again.
LEMMA NeverWaits ==
    ASSUME TypeOK, NEW r \in Runs, Moves(r)
    PROVE  /\ pc'[r] # "waiting"
           /\ pc[r] \in Ended \cup {"waiting"} => Begin(r) /\ pc[r] = "waiting"
<1>1. CASE Begin(r)
  BY <1>1 DEF Begin, TypeOK, Ended
<1>2. CASE ListProducts(r) \/ ListFails(r) \/ SkipFailed(r) \/ Quarantine(r) \/ ReadLatest(r)
  BY <1>2 DEF ListProducts, ListFails, SkipFailed, Quarantine, ReadLatest, Visiting,
     TypeOK, Ended
<1>3. CASE \/ Write(r) \/ Conclude(r) \/ RecordWithdrawal(r) \/ Commit(r) \/ Raise(r)
  BY <1>3 DEF Write, Conclude, RecordWithdrawal, Commit, Raise, TypeOK, Ended
<1>4. CASE Record(r) \/ Abort(r) \/ DeadlockVictim(r)
  <2>1. \E how \in Ended : Leave(r, how)
    BY <1>4 DEF Record, Abort, DeadlockVictim, Ended
  <2>2. pc'[r] \in Ended
    BY <2>1 DEF Leave, TypeOK
  <2>3. pc[r] \notin Ended \cup {"waiting"}
    BY <1>4 DEF Record, Abort, DeadlockVictim, WaitsFor, Active, Ended
  <2>4. QED
    BY <2>2, <2>3 DEF Ended
<1>5. QED
  BY <1>1, <1>2, <1>3, <1>4 DEF Moves, Step

\* Passes begin in the order of their ids.
LEMMA OrderKept ==
    ASSUME TypeOK, InOrder, NEW r \in Runs, Moves(r)
    PROVE  InOrder'
<1>1. pc'[r] # "waiting" /\ \A s \in Runs \ {r} : pc'[s] = pc[s]
  BY NeverWaits, OthersUntouched DEF Untouched
<1>2. CASE pc[r] = "waiting"
  <2>1. \A s \in Runs : s < r => pc[s] # "waiting"
    BY <1>2, NeverWaits DEF Begin
  <2>2. \A s \in Runs \ {r} : pc[s] = "waiting" => r < s
    BY <2>1, PassAssumption
  <2>3. QED
    BY <1>1, <2>2 DEF InOrder
<1>3. CASE pc[r] # "waiting"
  BY <1>1, <1>3 DEF InOrder
<1>4. QED
  BY <1>2, <1>3

\* A commit of products not yet seen by the run keeps the order of sightings.
LEMMA FlushCaches ==
    ASSUME TypeOK, NEW r \in Runs, NEW w \in [Products -> Writes], Flush(r, w),
           NEW p \in Products, CacheOK(p), w[p].doc # Absent => Unseen(r, p)
    PROVE  CacheOK(p)'
<1> DEFINE d == w[p].doc
<1>1. /\ d \in Docs /\ current[p] \in Docs /\ r \in Nat \ {0}
      /\ current'[p] = IF d # Absent THEN d ELSE current[p]
  BY PassAssumption DEF Flush, TypeOK, Writes
<1>2. ASSUME NEW c \in Contents
      PROVE  /\ firstRun'[p][c] = IF c = d /\ firstRun[p][c] = 0 THEN r ELSE firstRun[p][c]
             /\ lastRun'[p][c] = IF c = d THEN r ELSE lastRun[p][c]
             /\ firstRun[p][c] \in Nat /\ lastRun[p][c] \in Nat
  <2>1. firstRun[p][c] \in Runs \cup {0} /\ lastRun[p][c] \in Runs \cup {0}
    BY DEF TypeOK
  <2>2. firstRun[p][c] \in Nat /\ lastRun[p][c] \in Nat
    <3>1. Runs \cup {0} \subseteq Nat
      BY PassAssumption
    <3>2. QED
      BY <2>1, <3>1
  <2>3. QED
    BY <2>2 DEF Flush
<1> HIDE DEF d
<1>3. CASE d = Absent
  BY <1>1, <1>2, <1>3, DocumentAssumption DEF CacheOK, Docs
<1>4. CASE d # Absent
  <2>1. d \in Contents /\ current'[p] = d /\ Unseen(r, p)
    BY <1>1, <1>4 DEF Docs, d
  <2>2. QED
    BY <1>1, <1>2, <1>4, <2>1 DEF CacheOK, Unseen
<1>5. QED
  BY <1>3, <1>4

\* The passes that are not under way are no concern of a commit.
LEMMA OthersStoreOnce ==
    ASSUME TypeOK, Alone, InOrder, NEW r \in Runs, Moves(r), NEW s \in Runs \ {r},
           StoresOnce(s)
    PROVE  StoresOnce(s)'
<1>1. pc'[s] = pc[s] /\ todo'[s] = todo[s] /\ txn'[s] = txn[s]
  BY OthersUntouched DEF Untouched
<1>2. Stores(s)' = Stores(s)
  BY <1>1 DEF Stores
<1>3. CASE UNCHANGED tables
  BY <1>1, <1>2, <1>3 DEF StoresOnce, Unseen, Active, tables
<1>4. CASE Flush(r, txn[r]) /\ (Quarantine(r) \/ Commit(r))
  <2>1. Active(r) /\ pc[r] # "waiting"
    BY <1>4 DEF Quarantine, Visiting, Commit, Active, Ended
  <2>2. ~Active(s) /\ ~Active(s)'
    BY <1>1, <2>1 DEF Alone, Active
  <2>3. ASSUME pc[s] = "waiting", NEW p \in Products, NEW c \in Contents
        PROVE  lastRun'[p][c] < s
    <3>1. r < s /\ lastRun[p][c] < s
      BY <2>1, <2>3 DEF InOrder, StoresOnce, Unseen
    <3>2. lastRun'[p][c] \in {r, lastRun[p][c]}
      BY <1>4 DEF Flush
    <3>3. QED
      BY <3>1, <3>2
  <2>4. QED
    BY <1>1, <2>2, <2>3 DEF StoresOnce, Unseen, Active, Ended
<1>5. QED
  BY <1>3, <1>4, TablesMove

\* Every step of the pass under way stores a product once.
LEMMA StepStoresOnce ==
    ASSUME ~Overlap, SerialInv, CacheInv, NEW r \in Runs, Moves(r)
    PROVE  StoresOnce(r)'
<1> USE DEF counts, Active, Ended
<1>0. /\ TypeOK /\ PassOK(r) /\ StoresOnce(r)
      /\ todo[r] \in SUBSET Products
  BY DEF SerialInv, CacheInv, TypeOK
<1>1. CASE Begin(r)
  <2>1. pc[r] = "waiting" /\ pc'[r] = "listing" /\ UNCHANGED <<tables, txn>>
    BY <1>0, <1>1 DEF Begin, TypeOK
  <2>2. txn[r] = NoWrites
    BY <1>0, <2>1 DEF PassOK, WritesOK
  <2>3. Stores(r)' = {}
    BY <2>1, <2>2 DEF Stores, NoWrites, Nothing
  <2>4. ASSUME NEW p \in Products, NEW c \in Contents
        PROVE  lastRun'[p][c] < r /\ lastRun'[p][c] <= r
    <3>1. lastRun'[p][c] < r
      BY <1>0, <2>1 DEF StoresOnce, Unseen, tables
    <3>2. lastRun'[p][c] \in Runs \cup {0}
      BY <1>0, <2>1 DEF TypeOK, tables
    <3>3. QED
      BY <3>1, <3>2, PassAssumption
  <2>5. QED
    BY <2>1, <2>3, <2>4 DEF StoresOnce, Unseen
<1>2. CASE ListProducts(r)
  <2>1. /\ pc[r] = "listing" /\ pc'[r] = "storing" /\ UNCHANGED <<tables, txn>>
        /\ todo'[r] \in SUBSET Products
    BY <1>0, <1>2 DEF ListProducts, TypeOK
  <2>2. Stores(r)' = {}
    BY <1>0, <2>1 DEF StoresOnce, Stores
  <2>3. QED
    BY <1>0, <2>1, <2>2 DEF StoresOnce, Unseen, tables
<1>3. CASE ListFails(r)
  <2>1. pc[r] = "listing" /\ pc'[r] = "recording" /\ UNCHANGED <<tables, txn>>
    BY <1>0, <1>3 DEF ListFails, TypeOK
  <2>2. Stores(r)' = {}
    BY <1>0, <2>1 DEF StoresOnce, Stores
  <2>3. QED
    BY <1>0, <2>1, <2>2 DEF StoresOnce, Unseen, tables
<1>4. CASE SkipFailed(r)
  <2>1. /\ pc[r] = "storing" /\ UNCHANGED <<pc, tables, txn>>
        /\ todo'[r] \in SUBSET todo[r]
    BY <1>0, <1>4 DEF SkipFailed, Visiting, Visited, TypeOK
  <2>2. Stores(r)' = Stores(r)
    BY <2>1 DEF Stores
  <2>3. QED
    BY <1>0, <2>1, <2>2 DEF StoresOnce, Unseen, tables
<1>5. CASE Quarantine(r) \/ Commit(r)
  <2>1. /\ Flush(r, txn[r]) /\ txn'[r] = NoWrites /\ todo'[r] \in SUBSET todo[r]
        /\ \/ pc[r] = "storing" /\ pc'[r] = "storing"
           \/ pc[r] = "withdrawing" /\ pc'[r] = "recording"
    BY <1>0, <1>5 DEF Quarantine, Visiting, Visited, Commit, TypeOK
  <2>2. Stores(r)' = {}
    BY <2>1 DEF Stores, NoWrites, Nothing
  <2>3. ASSUME NEW p \in Products, NEW c \in Contents
        PROVE  /\ lastRun'[p][c] <= r
               /\ p \notin Stores(r) => lastRun'[p][c] = lastRun[p][c]
    <3>1. lastRun'[p][c] = IF c = txn[r][p].doc THEN r ELSE lastRun[p][c]
      BY <2>1 DEF Flush
    <3>2. lastRun[p][c] <= r
      BY <1>0, <2>1 DEF StoresOnce
    <3>3. QED
      BY <3>1, <3>2, PassAssumption, DocumentAssumption DEF Stores
  <2>4. pc[r] = "storing" => \A p \in todo'[r] : Unseen(r, p)'
    BY <1>0, <2>1, <2>3 DEF StoresOnce, Unseen
  <2>5. QED
    BY <2>1, <2>2, <2>3, <2>4 DEF StoresOnce
<1>6. CASE ReadLatest(r)
  <2>1. pc[r] = "storing" /\ pc'[r] = "holding" /\ UNCHANGED <<tables, txn, todo>>
    BY <1>0, <1>6 DEF ReadLatest, Visiting, TypeOK
  <2>2. Stores(r)' = Stores(r)
    BY <2>1 DEF Stores
  <2>3. QED
    BY <1>0, <2>1, <2>2 DEF StoresOnce, Unseen, tables
<1>7. CASE Write(r)
  <2> DEFINE q == Least(todo[r])
  <2>1. /\ pc[r] = "holding" /\ pc'[r] = "storing" /\ UNCHANGED tables
        /\ \A p \in Products : txn'[r][p] = IF p = q THEN held[r] ELSE txn[r][p]
        /\ todo'[r] = todo[r] \ {q}
    BY <1>0, <1>7 DEF Write, Visited, TypeOK
  <2>2. q \in todo[r]
    BY <1>0, <2>1, LeastIn DEF PassOK, HoldingOK
  <2>3. Stores(r)' \in SUBSET (Stores(r) \cup {q})
    BY <2>1 DEF Stores
  <2> HIDE DEF q
  <2>4. \A p \in Stores(r) \cup todo[r] : Unseen(r, p)'
    BY <1>0, <2>1 DEF StoresOnce, Unseen, tables
  <2>5. todo'[r] \cap Stores(r)' = {}
    BY <1>0, <2>1, <2>3 DEF StoresOnce
  <2>6. \A p \in Products, c \in Contents : lastRun'[p][c] <= r
    BY <1>0, <2>1 DEF StoresOnce, tables
  <2>7. QED
    BY <2>1, <2>2, <2>3, <2>4, <2>5, <2>6 DEF StoresOnce
<1>8. CASE Conclude(r)
  <2>1. pc[r] = "storing" /\ pc'[r] = "withdrawing" /\ UNCHANGED <<tables, txn>>
    BY <1>0, <1>8 DEF Conclude, TypeOK
  <2>2. Stores(r)' = Stores(r)
    BY <2>1 DEF Stores
  <2>3. QED
    BY <1>0, <2>1, <2>2 DEF StoresOnce, Unseen, tables
<1>9. CASE RecordWithdrawal(r)
  <2> DEFINE q == Least(todo[r])
             gone == [prev |-> current[q], doc |-> Absent]
  <2>1. /\ pc[r] = "withdrawing" /\ UNCHANGED <<pc, tables>>
        /\ \A p \in Products : txn'[r][p] = IF p = q THEN gone ELSE txn[r][p]
    BY <1>0, <1>9 DEF RecordWithdrawal, TypeOK
  <2>2. gone.doc = Absent
    OBVIOUS
  <2> HIDE DEF q, gone
  <2>3. Stores(r)' \in SUBSET Stores(r)
    BY <2>1, <2>2 DEF Stores
  <2>4. QED
    BY <1>0, <2>1, <2>3 DEF StoresOnce, Unseen, tables
<1>10. CASE Raise(r)
  <2>1. /\ pc[r] \in {"listing", "storing", "holding"} /\ pc'[r] = "recording"
        /\ UNCHANGED tables /\ txn'[r] = NoWrites
    BY <1>0, <1>10 DEF Raise, TypeOK
  <2>2. Stores(r)' = {}
    BY <2>1 DEF Stores, NoWrites, Nothing
  <2>3. QED
    BY <1>0, <2>1, <2>2 DEF StoresOnce, Unseen, tables
<1>11. CASE Record(r) \/ Abort(r) \/ DeadlockVictim(r)
  <2>1. pc'[r] \in Ended
    BY <1>0, <1>11 DEF Record, Abort, DeadlockVictim, Leave, TypeOK
  <2>2. QED
    BY <2>1 DEF StoresOnce
<1>12. QED
  BY <1>1, <1>2, <1>3, <1>4, <1>5, <1>6, <1>7, <1>8, <1>9, <1>10, <1>11
  DEF Moves, Step

\* The sightings are in order throughout.
LEMMA CacheInvariant ==
    ASSUME ~Overlap
    PROVE  Spec => []CacheInv
<1>1. Init => CacheInv
  <2> SUFFICES ASSUME Init PROVE CacheInv
    OBVIOUS
  <2>1. \A p \in Products : CacheOK(p)
    BY DocumentAssumption DEF Init, CacheOK
  <2>2. InOrder
    BY DEF Init, InOrder
  <2>3. \A r \in Runs : StoresOnce(r)
    BY PassAssumption DEF Init, StoresOnce, Unseen, Active, Ended, Stores, NoWrites, Nothing
  <2>4. QED
    BY <2>1, <2>2, <2>3 DEF CacheInv
<1>2. CacheInv /\ SerialInv /\ [Next]_vars => CacheInv'
  <2> SUFFICES ASSUME CacheInv, SerialInv, [Next]_vars PROVE CacheInv'
    OBVIOUS
  <2>0. TypeOK /\ Alone
    BY DEF SerialInv
  <2>1. CASE UNCHANGED vars
    BY <2>1 DEF vars, tables, counts, CacheInv, CacheOK, InOrder, StoresOnce, Unseen,
       Active, Stores
  <2>2. ASSUME NEW r \in Runs, Moves(r) PROVE CacheInv'
    <3>1. ASSUME NEW p \in Products PROVE CacheOK(p)'
      <4>1. CASE UNCHANGED tables
        BY <4>1 DEF CacheInv, CacheOK, tables
      <4>2. CASE Flush(r, txn[r]) /\ (Quarantine(r) \/ Commit(r))
        <5>1. txn[r] \in [Products -> Writes] /\ Active(r)
          BY <2>0, <4>2 DEF TypeOK, Quarantine, Visiting, Commit, Active, Ended
        <5>2. txn[r][p].doc # Absent => Unseen(r, p)
          BY <5>1 DEF CacheInv, StoresOnce, Stores
        <5>3. QED
          BY <2>0, <4>2, <5>1, <5>2, FlushCaches DEF CacheInv
      <4>3. QED
        BY <2>0, <2>2, <4>1, <4>2, TablesMove
    <3>2. InOrder'
      BY <2>0, <2>2, OrderKept DEF CacheInv
    <3>3. StoresOnce(r)'
      BY <2>2, StepStoresOnce
    <3>4. \A s \in Runs \ {r} : StoresOnce(s)'
      BY <2>0, <2>2, OthersStoreOnce DEF CacheInv
    <3>5. QED
      BY <3>1, <3>2, <3>3, <3>4 DEF CacheInv
  <2>3. QED
    BY <2>1, <2>2, WhoMoves
<1>3. QED
  BY <1>1, <1>2, SerialInvariant, PTL DEF Spec

\* CacheRebuildable, when runs do not overlap: product_current can be rebuilt
\* from product_snapshot, because the current document is the one seen last -
\* also when a bank goes back to an earlier document, and after quarantined,
\* raised and abandoned passes.
THEOREM CacheAlwaysRebuildable ==
    ASSUME ~Overlap
    PROVE  Spec => []CacheRebuildable
<1>1. CacheInv => CacheRebuildable
  BY DEF CacheInv, CacheOK, CacheRebuildable
<1>2. QED
  BY <1>1, CacheInvariant, PTL
-----------------------------------------------------------------------------
(* The ledger adds up.                                                      *)

\* Adding a product to a set of products, taking one away, joining two sets.
LEMMA CountAdd ==
    ASSUME NEW S \in SUBSET Products, NEW q \in Products \ S
    PROVE  Cardinality(S \cup {q}) = Cardinality(S) + 1
<1>1. IsFiniteSet(S)
  BY PassAssumption, FS_Subset
<1>2. QED
  BY <1>1, FS_AddElement

LEMMA CountRemove ==
    ASSUME NEW S \in SUBSET Products, NEW q \in S
    PROVE  Cardinality(S \ {q}) = Cardinality(S) - 1
<1>1. IsFiniteSet(S)
  BY PassAssumption, FS_Subset
<1>2. QED
  BY <1>1, FS_RemoveElement

LEMMA CountUnion ==
    ASSUME NEW S \in SUBSET Products, NEW T \in SUBSET Products, S \cap T = {}
    PROVE  Cardinality(S \cup T) = Cardinality(S) + Cardinality(T)
<1>1. IsFiniteSet(S) /\ IsFiniteSet(T)
  BY PassAssumption, FS_Subset
<1>2. /\ Cardinality(S \cup T) = Cardinality(S) + Cardinality(T) - Cardinality(S \cap T)
      /\ Cardinality(S \cap T) = 0
  BY <1>1, FS_Union, FS_EmptySet
<1>3. Cardinality(S) \in Nat /\ Cardinality(T) \in Nat
  BY CountIsNat
<1>4. QED
  BY <1>2, <1>3

\* The products pass r has quarantined, and how many it has settled.
Quar(r) == {p \in Products : <<r, p>> \in quarantine}
Fate(r) == failed[r] + Cardinality(Quar(r)) + Cardinality(StoredBy(r))

\* Every product listed is settled, stored but not committed, or yet to visit.
LedgerMatches(r) ==
    /\ pc[r] \in {"waiting", "listing"} =>
        failed[r] = 0 /\ Quar(r) = {} /\ listed[r] = {} /\ verdict[r] = "ok"
    /\ pc[r] \in {"storing", "holding"} =>
        /\ verdict[r] = "ok"
        /\ todo[r] \cap Quar(r) = {}
        /\ todo[r] \cup Stores(r) \subseteq listed[r]
        /\ Fate(r) + Cardinality(Stores(r)) + Cardinality(todo[r]) = Cardinality(listed[r])
    /\ pc[r] = "withdrawing" =>
        /\ verdict[r] \notin {"raised", "unlisted"}
        /\ todo[r] \cap Stores(r) = {}
        /\ Fate(r) + Cardinality(Stores(r)) = Cardinality(listed[r])
    /\ pc[r] = "recording" =>
        IF verdict[r] \in {"raised", "unlisted"} THEN Fate(r) <= Cardinality(listed[r])
        ELSE Fate(r) = Cardinality(listed[r])

LedgerInv == \A r \in Runs : LedgerMatches(r)

\* The counts are natural numbers.
LEMMA FateTyped ==
    ASSUME TypeOK, NEW r \in Runs
    PROVE  /\ failed[r] \in Nat /\ Fate(r) \in Nat
           /\ Cardinality(Quar(r)) \in Nat /\ Cardinality(StoredBy(r)) \in Nat
           /\ Cardinality(Stores(r)) \in Nat
           /\ Cardinality(listed[r]) \in Nat /\ Cardinality(todo[r]) \in Nat
<1>1. /\ failed[r] \in Nat
      /\ listed[r] \in SUBSET Products /\ todo[r] \in SUBSET Products
      /\ Quar(r) \in SUBSET Products /\ StoredBy(r) \in SUBSET Products
      /\ Stores(r) \in SUBSET Products
  BY DEF TypeOK, Quar, StoredBy, Stores
<1>2. QED
  BY <1>1, CountIsNat DEF Fate

\* What a commit by r stores comes on top of what it had stored.
LEMMA FlushStores ==
    ASSUME TypeOK, NEW r \in Runs, Flush(r, txn[r]), \A p \in Stores(r) : Unseen(r, p)
    PROVE  Cardinality(StoredBy(r))' = Cardinality(StoredBy(r)) + Cardinality(Stores(r))
<1>1. \A p \in Products, c \in Contents :
        lastRun'[p][c] = IF c = txn[r][p].doc THEN r ELSE lastRun[p][c]
  BY DEF Flush
<1>2. \A p \in Products : txn[r][p].doc \in Docs
  BY DEF TypeOK, Writes
<1>3. StoredBy(r)' = StoredBy(r) \cup Stores(r)
  BY <1>1, <1>2, DocumentAssumption DEF StoredBy, Stores, Docs
<1>4. StoredBy(r) \cap Stores(r) = {}
  <2> SUFFICES ASSUME NEW p \in Stores(r), NEW c \in Contents, lastRun[p][c] = r
               PROVE  FALSE
    BY DEF StoredBy
  <2>1. lastRun[p][c] < r
    BY DEF Unseen
  <2>2. QED
    BY <2>1, PassAssumption
<1>5. QED
  BY <1>3, <1>4, CountUnion DEF StoredBy, Stores

\* A step of another pass disturbs no count of a pass that is under way.
LEMMA OthersLedger ==
    ASSUME TypeOK, Alone, NEW r \in Runs, Moves(r), NEW s \in Runs \ {r}, LedgerMatches(s)
    PROVE  LedgerMatches(s)'
<1>1. /\ pc'[s] = pc[s] /\ todo'[s] = todo[s] /\ txn'[s] = txn[s]
      /\ failed'[s] = failed[s] /\ listed'[s] = listed[s] /\ verdict'[s] = verdict[s]
      /\ Quar(s)' = Quar(s)
  BY OthersUntouched DEF Untouched, Quar
<1>2. Stores(s)' = Stores(s)
  BY <1>1 DEF Stores
<1>3. CASE UNCHANGED tables
  <2>1. StoredBy(s)' = StoredBy(s)
    BY <1>3 DEF StoredBy, tables
  <2>2. QED
    BY <1>1, <1>2, <2>1 DEF LedgerMatches, Fate
<1>4. CASE Quarantine(r) \/ Commit(r)
  <2>1. ~Active(s)
    BY <1>4 DEF Alone, Active, Ended, Quarantine, Visiting, Commit
  <2>2. QED
    BY <1>1, <2>1 DEF LedgerMatches, Active, Ended
<1>5. QED
  BY <1>3, <1>4, TablesMove

\* Every step of a pass keeps its counts.
LEMMA StepKeepsLedger ==
    ASSUME ~Overlap, SerialInv, CacheInv, NEW r \in Runs, Moves(r), LedgerMatches(r)
    PROVE  LedgerMatches(r)'
<1> USE DEF counts
<1>0. /\ TypeOK /\ PassOK(r) /\ StoresOnce(r)
      /\ todo[r] \in SUBSET Products /\ listed[r] \in SUBSET Products
      /\ Quar(r) \in SUBSET Products /\ Stores(r) \in SUBSET Products
      /\ StoredBy(r) \in SUBSET Products
      /\ Cardinality({}) = 0
  BY FS_EmptySet DEF SerialInv, CacheInv, TypeOK, Quar, Stores, StoredBy
<1>t. /\ failed[r] \in Nat /\ Fate(r) \in Nat
      /\ Cardinality(Quar(r)) \in Nat /\ Cardinality(StoredBy(r)) \in Nat
      /\ Cardinality(Stores(r)) \in Nat
      /\ Cardinality(listed[r]) \in Nat /\ Cardinality(todo[r]) \in Nat
  BY <1>0, FateTyped
<1>s. UNCHANGED tables => StoredBy(r)' = StoredBy(r)
  BY DEF StoredBy, tables
<1>q. UNCHANGED quarantine => Quar(r)' = Quar(r)
  BY DEF Quar
<1>w. UNCHANGED txn => Stores(r)' = Stores(r)
  BY DEF Stores
<1>u. pc[r] = "listing" => StoredBy(r) = {}
  <2> SUFFICES ASSUME pc[r] = "listing", NEW p \in Products, NEW c \in Contents,
                      lastRun[p][c] = r
               PROVE  FALSE
    BY DEF StoredBy
  <2>1. lastRun[p][c] < r
    BY <1>0 DEF StoresOnce, Unseen
  <2>2. QED
    BY <2>1, PassAssumption
<1>1. CASE Begin(r)
  <2>1. /\ pc[r] = "waiting" /\ pc'[r] = "listing"
        /\ UNCHANGED <<listed, failed, verdict, quarantine>>
    BY <1>0, <1>1 DEF Begin, TypeOK
  <2>2. QED
    BY <2>1, <1>q DEF LedgerMatches
<1>2. CASE ListProducts(r)
  <2>1. /\ pc[r] = "listing" /\ pc'[r] = "storing" /\ UNCHANGED <<tables, txn>>
        /\ UNCHANGED failed /\ UNCHANGED verdict /\ UNCHANGED quarantine
        /\ todo'[r] = listed'[r] /\ listed'[r] \in SUBSET Products
    BY <1>0, <1>2 DEF ListProducts, TypeOK
  <2>2. Stores(r)' = {} /\ StoredBy(r)' = {} /\ Quar(r)' = {} /\ failed'[r] = 0
    BY <1>0, <1>s, <1>q, <1>w, <1>u, <2>1 DEF StoresOnce, LedgerMatches
  <2>3. Cardinality(listed'[r]) \in Nat
    BY <2>1, CountIsNat
  <2>4. Fate(r)' = 0
    BY <1>0, <2>2 DEF Fate
  <2>5. QED
    BY <1>0, <2>1, <2>2, <2>3, <2>4 DEF LedgerMatches
<1>3. CASE ListFails(r)
  <2>1. /\ pc[r] = "listing" /\ pc'[r] = "recording" /\ UNCHANGED tables
        /\ UNCHANGED failed /\ UNCHANGED listed /\ UNCHANGED quarantine
        /\ verdict'[r] = "unlisted"
    BY <1>0, <1>3 DEF ListFails, TypeOK
  <2>2. Fate(r)' = 0
    BY <1>0, <1>s, <1>q, <1>u, <2>1 DEF Fate, LedgerMatches
  <2>3. QED
    BY <1>0, <1>t, <2>1, <2>2 DEF LedgerMatches
<1>4. CASE SkipFailed(r)
  <2> DEFINE q == Least(todo[r])
  <2>1. /\ pc[r] = "storing" /\ pc'[r] = "storing" /\ todo[r] # {}
        /\ UNCHANGED tables /\ UNCHANGED txn /\ UNCHANGED listed
        /\ UNCHANGED verdict /\ UNCHANGED quarantine
        /\ failed'[r] = failed[r] + 1 /\ todo'[r] = todo[r] \ {q}
    BY <1>0, <1>4 DEF SkipFailed, Visiting, Visited, TypeOK
  <2>2. q \in todo[r]
    BY <1>0, <2>1, LeastIn
  <2> HIDE DEF q
  <2>3. Cardinality(todo'[r]) = Cardinality(todo[r]) - 1
    BY <1>0, <2>1, <2>2, CountRemove
  <2>4. Fate(r)' = Fate(r) + 1
    BY <1>s, <1>q, <1>t, <2>1 DEF Fate
  <2>5. QED
    BY <1>0, <1>t, <1>q, <1>w, <2>1, <2>3, <2>4 DEF LedgerMatches
<1>5. CASE Quarantine(r)
  <2> DEFINE q == Least(todo[r])
  <2>1. /\ pc[r] = "storing" /\ pc'[r] = "storing" /\ todo[r] # {}
        /\ Flush(r, txn[r]) /\ txn'[r] = NoWrites
        /\ UNCHANGED listed /\ UNCHANGED verdict /\ UNCHANGED failed
        /\ quarantine' = quarantine \cup {<<r, q>>} /\ todo'[r] = todo[r] \ {q}
    BY <1>0, <1>5 DEF Quarantine, Visiting, Visited, TypeOK
  <2>2. q \in todo[r] /\ q \in Products
    BY <1>0, <2>1, LeastIn
  <2> HIDE DEF q
  <2>3. Cardinality(todo'[r]) = Cardinality(todo[r]) - 1
    BY <1>0, <2>1, <2>2, CountRemove
  <2>4. Quar(r)' = Quar(r) \cup {q}
    BY <2>1, <2>2 DEF Quar
  <2>5. Cardinality(Quar(r)') = Cardinality(Quar(r)) + 1
    BY <1>0, <2>1, <2>2, <2>4, CountAdd DEF LedgerMatches
  <2>6. Cardinality(StoredBy(r))' = Cardinality(StoredBy(r)) + Cardinality(Stores(r))
    BY <1>0, <2>1, FlushStores DEF StoresOnce, Active, Ended
  <2>7. Stores(r)' = {}
    BY <2>1 DEF Stores, NoWrites, Nothing
  <2>8. Fate(r)' = Fate(r) + 1 + Cardinality(Stores(r))
    BY <1>t, <2>1, <2>5, <2>6 DEF Fate
  <2>9. todo'[r] \cap Quar(r)' = {} /\ todo'[r] \cup Stores(r)' \subseteq listed'[r]
    BY <2>1, <2>4, <2>7 DEF LedgerMatches
  <2>10. Fate(r)' + Cardinality(Stores(r)') + Cardinality(todo'[r]) = Cardinality(listed'[r])
    BY <1>0, <1>t, <2>1, <2>3, <2>7, <2>8 DEF LedgerMatches
  <2>11. QED
    BY <2>1, <2>9, <2>10 DEF LedgerMatches
<1>6. CASE ReadLatest(r)
  <2>1. /\ pc[r] = "storing" /\ pc'[r] = "holding"
        /\ UNCHANGED tables /\ UNCHANGED txn /\ UNCHANGED todo /\ UNCHANGED listed
        /\ UNCHANGED verdict /\ UNCHANGED quarantine /\ UNCHANGED failed
    BY <1>0, <1>6 DEF ReadLatest, Visiting, TypeOK
  <2>2. Fate(r)' = Fate(r)
    BY <1>s, <1>q, <2>1 DEF Fate
  <2>3. QED
    BY <1>q, <1>w, <2>1, <2>2 DEF LedgerMatches
<1>7. CASE Write(r)
  <2> DEFINE q == Least(todo[r])
  <2>1. /\ pc[r] = "holding" /\ pc'[r] = "storing"
        /\ UNCHANGED tables /\ UNCHANGED listed /\ UNCHANGED failed
        /\ UNCHANGED verdict /\ UNCHANGED quarantine
        /\ \A p \in Products : txn'[r][p] = IF p = q THEN held[r] ELSE txn[r][p]
        /\ todo'[r] = todo[r] \ {q}
    BY <1>0, <1>7 DEF Write, Visited, TypeOK
  <2>2. q \in todo[r] /\ q \in Products /\ held[r].doc # Absent
    BY <1>0, <2>1, LeastIn DEF PassOK, HoldingOK
  <2> HIDE DEF q
  <2>3. Cardinality(todo'[r]) = Cardinality(todo[r]) - 1
    BY <1>0, <2>1, <2>2, CountRemove
  <2>4. Stores(r)' = Stores(r) \cup {q}
    BY <2>1, <2>2 DEF Stores
  <2>5. q \notin Stores(r)
    BY <1>0, <2>1, <2>2 DEF StoresOnce
  <2>6. Cardinality(Stores(r)') = Cardinality(Stores(r)) + 1
    BY <1>0, <2>2, <2>4, <2>5, CountAdd
  <2>7. Fate(r)' = Fate(r)
    BY <1>s, <1>q, <2>1 DEF Fate
  <2>8. todo'[r] \cap Quar(r)' = {} /\ todo'[r] \cup Stores(r)' \subseteq listed'[r]
    BY <1>q, <2>1, <2>2, <2>4 DEF LedgerMatches
  <2>9. Fate(r)' + Cardinality(Stores(r)') + Cardinality(todo'[r]) = Cardinality(listed'[r])
    BY <1>t, <2>1, <2>3, <2>6, <2>7 DEF LedgerMatches
  <2>10. QED
    BY <2>1, <2>8, <2>9 DEF LedgerMatches
<1>8. CASE Conclude(r)
  <2>1. /\ pc[r] = "storing" /\ pc'[r] = "withdrawing" /\ todo[r] = {}
        /\ UNCHANGED tables /\ UNCHANGED txn /\ UNCHANGED listed
        /\ UNCHANGED quarantine /\ UNCHANGED failed
        /\ todo'[r] = known[r] \ listed[r]
        /\ verdict'[r] \in {"ok", "failed", "partial"}
    BY <1>0, <1>8 DEF Conclude, TypeOK
  <2>2. Fate(r)' = Fate(r) /\ Stores(r)' = Stores(r)
    BY <1>s, <1>q, <1>w, <2>1 DEF Fate
  <2>3. todo'[r] \cap Stores(r)' = {}
    BY <2>1, <2>2 DEF LedgerMatches
  <2>4. Fate(r)' + Cardinality(Stores(r)') = Cardinality(listed'[r])
    BY <1>0, <1>t, <2>1, <2>2 DEF LedgerMatches
  <2>5. QED
    BY <2>1, <2>3, <2>4 DEF LedgerMatches
<1>9. CASE RecordWithdrawal(r)
  <2> DEFINE q == Least(todo[r])
             gone == [prev |-> current[q], doc |-> Absent]
  <2>1. /\ pc[r] = "withdrawing" /\ pc'[r] = "withdrawing" /\ todo[r] # {}
        /\ UNCHANGED tables /\ UNCHANGED listed /\ UNCHANGED failed
        /\ UNCHANGED verdict /\ UNCHANGED quarantine
        /\ \A p \in Products : txn'[r][p] = IF p = q THEN gone ELSE txn[r][p]
        /\ todo'[r] = todo[r] \ {q}
    BY <1>0, <1>9 DEF RecordWithdrawal, Visited, TypeOK
  <2>2. q \in todo[r] /\ gone.doc = Absent
    BY <1>0, <2>1, LeastIn
  <2> HIDE DEF q, gone
  <2>3. Stores(r)' = Stores(r)
    BY <2>1, <2>2 DEF Stores, LedgerMatches
  <2>4. Fate(r)' = Fate(r)
    BY <1>s, <1>q, <2>1 DEF Fate
  <2>5. QED
    BY <2>1, <2>3, <2>4 DEF LedgerMatches
<1>10. CASE Commit(r)
  <2>1. /\ pc[r] = "withdrawing" /\ pc'[r] = "recording"
        /\ Flush(r, txn[r]) /\ UNCHANGED quarantine
        /\ UNCHANGED listed /\ UNCHANGED verdict /\ UNCHANGED failed
    BY <1>0, <1>10 DEF Commit, TypeOK
  <2>2. Cardinality(StoredBy(r))' = Cardinality(StoredBy(r)) + Cardinality(Stores(r))
    BY <1>0, <2>1, FlushStores DEF StoresOnce, Active, Ended
  <2>3. Fate(r)' = Fate(r) + Cardinality(Stores(r))
    BY <1>t, <1>q, <2>1, <2>2 DEF Fate
  <2>4. QED
    BY <2>1, <2>3 DEF LedgerMatches
<1>11. CASE Raise(r)
  <2>1. /\ pc[r] \in {"listing", "storing", "holding"} /\ pc'[r] = "recording"
        /\ UNCHANGED tables /\ UNCHANGED listed /\ UNCHANGED quarantine
        /\ UNCHANGED failed /\ verdict'[r] = "raised"
    BY <1>0, <1>11 DEF Raise, TypeOK
  <2>2. Fate(r)' = Fate(r)
    BY <1>s, <1>q, <2>1 DEF Fate
  <2>3. pc[r] = "listing" => Fate(r) = 0
    BY <1>0, <1>u DEF Fate, LedgerMatches
  <2>4. Fate(r) <= Cardinality(listed[r])
    BY <1>t, <2>1, <2>3 DEF LedgerMatches
  <2>5. QED
    BY <2>1, <2>2, <2>4 DEF LedgerMatches
<1>12. CASE Record(r) \/ Abort(r) \/ DeadlockVictim(r)
  <2>1. pc'[r] \in Ended
    BY <1>0, <1>12 DEF Record, Abort, DeadlockVictim, Leave, Ended, TypeOK
  <2>2. QED
    BY <2>1 DEF LedgerMatches, Ended
<1>13. QED
  BY <1>1, <1>2, <1>3, <1>4, <1>5, <1>6, <1>7, <1>8, <1>9, <1>10, <1>11, <1>12
  DEF Moves, Step

\* LedgerAccounts, when runs do not overlap: the row a brand's pass leaves in
\* collection_run_brand accounts for every product it listed, for every way
\* the pass may have gone.
THEOREM LedgerAddsUp ==
    ASSUME ~Overlap
    PROVE  Spec => LedgerAccounts
<1> DEFINE Justified == \A r \in Runs : ledger'[r] # ledger[r] => Accounted(r, ledger'[r])
<1>1. Init => LedgerInv
  <2> SUFFICES ASSUME Init, NEW r \in Runs PROVE LedgerMatches(r)
    BY DEF LedgerInv
  <2>1. Quar(r) = {}
    BY DEF Init, Quar
  <2>2. QED
    BY <2>1 DEF Init, LedgerMatches
<1>2. LedgerInv /\ CacheInv /\ SerialInv /\ [Next]_vars => LedgerInv' /\ [Justified]_vars
  <2> SUFFICES ASSUME LedgerInv, CacheInv, SerialInv, [Next]_vars
               PROVE  LedgerInv' /\ [Justified]_vars
    OBVIOUS
  <2>0. TypeOK /\ Alone
    BY DEF SerialInv
  <2>1. CASE UNCHANGED vars
    <3>1. /\ UNCHANGED <<pc, listed, todo, failed, verdict>>
          /\ \A r \in Runs : /\ Quar(r)' = Quar(r) /\ Stores(r)' = Stores(r)
                             /\ StoredBy(r)' = StoredBy(r)
      BY <2>1 DEF vars, tables, counts, Quar, StoredBy, Stores
    <3>2. QED
      BY <2>1, <3>1 DEF LedgerInv, LedgerMatches, Fate
  <2>2. ASSUME NEW r \in Runs, Moves(r) PROVE LedgerInv' /\ Justified
    <3>1. LedgerMatches(r)'
      BY <2>2, StepKeepsLedger DEF LedgerInv
    <3>2. \A s \in Runs \ {r} : LedgerMatches(s)'
      BY <2>0, <2>2, OthersLedger DEF LedgerInv
    <3>3. \A s \in Runs \ {r} : ledger'[s] = ledger[s]
      BY <2>0, <2>2, OthersUntouched DEF Untouched
    <3>4. ASSUME ledger'[r] # ledger[r] PROVE Accounted(r, ledger'[r])
      <4>1. Record(r)
        BY <2>2, <3>4 DEF Moves, Step, Begin, ListProducts, ListFails, SkipFailed, Quarantine,
           ReadLatest, Write, Conclude, RecordWithdrawal, Commit, Raise, Abort, DeadlockVictim
      <4> DEFINE row == ledger'[r]
      <4>2. /\ pc[r] = "recording"
            /\ row.failed = failed[r] /\ row.seen = Cardinality(listed[r])
            /\ row.quarantined = Cardinality(Quar(r))
        BY <2>0, <4>1 DEF Record, TypeOK, Quarantined, Quar
      <4> HIDE DEF row
      <4>3. row.failed + row.quarantined + Cardinality(StoredBy(r)) = Fate(r)
        BY <4>2 DEF Fate
      <4>4. Accounted(r, row)
        BY <4>2, <4>3 DEF Accounted, LedgerInv, LedgerMatches
      <4>5. QED
        BY <4>4 DEF row
    <3>5. QED
      BY <3>1, <3>2, <3>3, <3>4 DEF LedgerInv
  <2>3. QED
    BY <2>1, <2>2, WhoMoves
<1>3. Spec => [][Justified]_vars
  BY <1>1, <1>2, CacheInvariant, SerialInvariant, PTL DEF Spec
<1>4. QED
  BY <1>3 DEF LedgerAccounts
=============================================================================
