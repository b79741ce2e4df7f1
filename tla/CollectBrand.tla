---------------------------- MODULE CollectBrand ----------------------------
(***************************************************************************)
(* collector._collect_brand for one brand, over successive (or, when the   *)
(* scheduler fires twice, overlapping) collection runs, on the Postgres    *)
(* tables it writes.                                                       *)
(*                                                                         *)
(* A pass is one call of _collect_brand.  It has one connection, hence one *)
(* transaction at a time under READ COMMITTED: it reads committed rows, a  *)
(* row it has upserted stays locked until its transaction ends, and its    *)
(* writes become visible together at commit.  The places where the code    *)
(* commits are the actions that change the tables: Quarantine, Commit and  *)
(* Record.                                                                 *)
(***************************************************************************)
EXTENDS ProductDiff, Naturals, FiniteSets

CONSTANTS
    Runs,       \* run ids of the runs that reach the brand
    Products,   \* product ids of the brand, in the order sorted() gives them
    Faults,     \* which faults occur: see FaultKinds
    Overlap,    \* two runs may be under way at once (double-fired schedule)
    Garbled     \* a listing page may be readable JSON and yet miss products

\* "fetch"        the client gives up on a call (FetchError)
\* "unparseable"  canonicalise rejects a payload (NormalisationError)
\* "raise"        any other exception while listing, fetching or storing
\* "abort"        the process dies, or a statement fails (psycopg.Error)
FaultKinds == {"fetch", "unparseable", "raise", "abort"}

ASSUME PassAssumption ==
    /\ Runs \subseteq Nat \ {0}
    /\ Products \subseteq Nat
    /\ IsFiniteSet(Products)
    /\ Faults \subseteq FaultKinds
    /\ Overlap \in BOOLEAN
    /\ Garbled \in BOOLEAN

VARIABLES
    \* The tables, as committed.
    current,    \* product_current.snapshot_id, as the document, or Absent
    available,  \* product_current.is_available
    feed,       \* product_change, one element per diff, in insertion order
    firstRun,   \* product_snapshot.first_run_id, 0 while there is no row
    lastRun,    \* the run whose transaction set product_snapshot.last_seen_at
    quarantine, \* quarantine: <<run, product>> of each row
    ledger,     \* collection_run_brand rows of this brand, NoRow if none
    \* Each pass.
    pc,         \* where the pass is
    known,      \* known_before
    listed,     \* seen_ids
    todo,       \* products the current loop has yet to visit
    held,       \* previous and canonical of the product being stored
    txn,        \* per product, what the open transaction has written
    failed,     \* products_failed
    new,        \* snapshots_new
    verdict,    \* status, and the path that led to it
    \* The world.
    offered     \* the products the bank offered when the pass listed them

tables == <<current, available, feed, firstRun, lastRun>>
counts == <<failed, new>>
vars == <<current, available, feed, firstRun, lastRun, quarantine, ledger, pc,
          known, listed, todo, held, txn, failed, new, verdict, offered>>
-----------------------------------------------------------------------------
\* What a transaction may have written for a product: a snapshot and current
\* row when doc is a document, a withdrawal when only prev is.
Writes == [prev : Docs, doc : Docs]
Nothing == [prev |-> Absent, doc |-> Absent]
NoWrites == [p \in Products |-> Nothing]

Stores(r) == {p \in Products : txn[r][p].doc # Absent}
Withdraws(r) == {p \in Products : txn[r][p].doc = Absent /\ txn[r][p].prev # Absent}

NoRow == [status |-> "none", seen |-> 0, failed |-> 0, quarantined |-> 0, new |-> 0]
Statuses == {"none", "ok", "partial", "failed"}

\* Mutant: the path that led to a failure is recorded as the status.
RawStatus(v) == v

\* The verdicts "unlisted" (FetchError while listing) and "raised" (any other
\* exception) are both recorded as failed; nothing of them was committed by
\* the pass's own commit.
Status(v) == IF v \in {"unlisted", "raised"} THEN "failed" ELSE v

Ended == {"done", "dead"}
Active(r) == pc[r] \notin Ended \cup {"waiting"}

Least(S) == CHOOSE p \in S : \A q \in S : p <= q

\* totals["quarantined"] - quarantined_before: what this pass put there.
Quarantined(r) == Cardinality({p \in Products : <<r, p>> \in quarantine})
-----------------------------------------------------------------------------
Init ==
    /\ current = [p \in Products |-> Absent]
    /\ available = [p \in Products |-> FALSE]
    /\ feed = [p \in Products |-> << >>]
    /\ firstRun = [p \in Products |-> [c \in Contents |-> 0]]
    /\ lastRun = [p \in Products |-> [c \in Contents |-> 0]]
    /\ quarantine = {}
    /\ ledger = [r \in Runs |-> NoRow]
    /\ pc = [r \in Runs |-> "waiting"]
    /\ known = [r \in Runs |-> {}]
    /\ listed = [r \in Runs |-> {}]
    /\ todo = [r \in Runs |-> {}]
    /\ held = [r \in Runs |-> Nothing]
    /\ txn = [r \in Runs |-> NoWrites]
    /\ failed = [r \in Runs |-> 0]
    /\ new = [r \in Runs |-> 0]
    /\ verdict = [r \in Runs |-> "ok"]
    /\ offered = [r \in Runs |-> {}]

\* No other pass is under way, or just one when the schedule may fire twice.
MayStart ==
    \/ \A s \in Runs : ~Active(s)
    \/ Overlap /\ \E s \in Runs : \A t \in Runs \ {s} : ~Active(t)

\* The pass reads known_before and ends its read transaction.  Run ids are
\* numbered by the order in which the runs reach the brand.
Begin(r) ==
    /\ pc[r] = "waiting"
    /\ \A s \in Runs : s < r => pc[s] # "waiting"
    /\ MayStart
    /\ known' = [known EXCEPT ![r] = {p \in Products : available[p]}]
    /\ pc' = [pc EXCEPT ![r] = "listing"]
    /\ UNCHANGED <<tables, quarantine, ledger, listed, todo, held, txn, counts,
                   verdict, offered>>

\* Every category is listed to its last page.  A page without a readable
\* products list counts as an empty one, so a garbled listing is short.
ListProducts(r) ==
    /\ pc[r] = "listing"
    /\ \E truth \in SUBSET Products : \E ids \in SUBSET truth :
        /\ Garbled \/ ids = truth
        /\ offered' = [offered EXCEPT ![r] = truth]
        /\ listed' = [listed EXCEPT ![r] = ids]
        /\ todo' = [todo EXCEPT ![r] = ids]
    /\ pc' = [pc EXCEPT ![r] = "storing"]
    /\ UNCHANGED <<tables, quarantine, ledger, known, held, txn, counts, verdict>>

\* A page could not be fetched: the FetchError leaves the try block before
\* seen_ids is assigned.
ListFails(r) ==
    /\ "fetch" \in Faults
    /\ pc[r] = "listing"
    /\ verdict' = [verdict EXCEPT ![r] = "unlisted"]
    /\ pc' = [pc EXCEPT ![r] = "recording"]
    /\ UNCHANGED <<tables, quarantine, ledger, known, listed, todo, held, txn,
                   counts, offered>>
-----------------------------------------------------------------------------
\* The store loop takes the products in sorted order; every detail has been
\* fetched before it starts.
Visiting(r) == pc[r] = "storing" /\ todo[r] # {}
Visited(r) == todo' = [todo EXCEPT ![r] = @ \ {Least(@)}]

\* Mutant: a product whose detail failed is not counted.
SkipUncounted(r) ==
    /\ "fetch" \in Faults
    /\ Visiting(r)
    /\ Visited(r)
    /\ UNCHANGED <<tables, quarantine, ledger, pc, known, listed, held, txn, counts,
                   verdict, offered>>

\* The product's detail ended in a FetchError.
SkipFailed(r) ==
    /\ "fetch" \in Faults
    /\ Visiting(r)
    /\ failed' = [failed EXCEPT ![r] = @ + 1]
    /\ Visited(r)
    /\ UNCHANGED <<tables, quarantine, ledger, pc, known, listed, held, txn, new,
                   verdict, offered>>

\* Mutant: ON CONFLICT DO NOTHING, so an old snapshot is not seen again.
FlushDoesNothing(r, w) ==
    /\ current' = [p \in Products |-> IF w[p].doc # Absent THEN w[p].doc ELSE current[p]]
    /\ available' = [p \in Products |-> w[p].doc # Absent \/ (available[p] /\ w[p].prev = Absent)]
    /\ feed' = [p \in Products |-> feed[p] \o Diff(w[p].prev, w[p].doc)]
    /\ firstRun' = [p \in Products |-> [c \in Contents |->
                        IF c = w[p].doc /\ firstRun[p][c] = 0 THEN r ELSE firstRun[p][c]]]
    /\ lastRun' = [p \in Products |-> [c \in Contents |->
                        IF c = w[p].doc /\ firstRun[p][c] = 0 THEN r ELSE lastRun[p][c]]]

\* Mutant: upsert_current does not put a product that is back on sale again.
FlushStaysOffSale(r, w) ==
    /\ current' = [p \in Products |-> IF w[p].doc # Absent THEN w[p].doc ELSE current[p]]
    /\ available' = [p \in Products |->
                        IF current[p] = Absent THEN w[p].doc # Absent
                        ELSE available[p] /\ (w[p].prev = Absent \/ w[p].doc # Absent)]
    /\ feed' = [p \in Products |-> feed[p] \o Diff(w[p].prev, w[p].doc)]
    /\ firstRun' = [p \in Products |-> [c \in Contents |->
                        IF c = w[p].doc /\ firstRun[p][c] = 0 THEN r ELSE firstRun[p][c]]]
    /\ lastRun' = [p \in Products |-> [c \in Contents |->
                        IF c = w[p].doc THEN r ELSE lastRun[p][c]]]

\* Mutant: no change row for a product seen for the first time.
FlushSilently(r, w) ==
    /\ current' = [p \in Products |-> IF w[p].doc # Absent THEN w[p].doc ELSE current[p]]
    /\ available' = [p \in Products |-> w[p].doc # Absent \/ (available[p] /\ w[p].prev = Absent)]
    /\ feed' = [p \in Products |->
                    IF w[p].prev = Absent THEN feed[p] ELSE feed[p] \o Diff(w[p].prev, w[p].doc)]
    /\ firstRun' = [p \in Products |-> [c \in Contents |->
                        IF c = w[p].doc /\ firstRun[p][c] = 0 THEN r ELSE firstRun[p][c]]]
    /\ lastRun' = [p \in Products |-> [c \in Contents |->
                        IF c = w[p].doc THEN r ELSE lastRun[p][c]]]

\* What a commit of the writes w by run r does to the tables: snapshot rows
\* are inserted or touched, current rows upserted as available, withdrawn
\* rows marked, and the change rows of both become visible.
Flush(r, w) ==
    /\ current' = [p \in Products |-> IF w[p].doc # Absent THEN w[p].doc ELSE current[p]]
    /\ available' = [p \in Products |-> w[p].doc # Absent \/ (available[p] /\ w[p].prev = Absent)]
    /\ feed' = [p \in Products |-> feed[p] \o Diff(w[p].prev, w[p].doc)]
    /\ firstRun' = [p \in Products |-> [c \in Contents |->
                        IF c = w[p].doc /\ firstRun[p][c] = 0 THEN r ELSE firstRun[p][c]]]
    /\ lastRun' = [p \in Products |-> [c \in Contents |->
                        IF c = w[p].doc THEN r ELSE lastRun[p][c]]]

\* canonicalise rejects the payload.  db.quarantine commits, and with its own
\* row everything the pass has stored so far.
Quarantine(r) ==
    /\ "unparseable" \in Faults
    /\ Visiting(r)
    /\ quarantine' = quarantine \cup {<<r, Least(todo[r])>>}
    /\ Flush(r, txn[r])
    /\ txn' = [txn EXCEPT ![r] = NoWrites]
    /\ Visited(r)
    /\ UNCHANGED <<ledger, pc, known, listed, held, counts, verdict, offered>>

\* Mutant: the previous document of a withdrawn product is not looked up.
ReadLatestOnSale(r) ==
    /\ Visiting(r)
    /\ \E c \in Contents :
        LET p == Least(todo[r]) IN
        held' = [held EXCEPT ![r] =
                    [prev |-> IF available[p] THEN current[p] ELSE Absent, doc |-> c]]
    /\ pc' = [pc EXCEPT ![r] = "holding"]
    /\ UNCHANGED <<tables, quarantine, ledger, known, listed, todo, txn, counts,
                   verdict, offered>>

\* The payload is canonical; latest_snapshot reads the committed row.
ReadLatest(r) ==
    /\ Visiting(r)
    /\ \E c \in Contents :
        held' = [held EXCEPT ![r] = [prev |-> current[Least(todo[r])], doc |-> c]]
    /\ pc' = [pc EXCEPT ![r] = "holding"]
    /\ UNCHANGED <<tables, quarantine, ledger, known, listed, todo, txn, counts,
                   verdict, offered>>

\* The row of p is locked by another pass's open transaction.
Locked(r, p) == \E s \in Runs \ {r} : p \in Stores(s)

\* insert_snapshot, insert_changes and upsert_current, inside the pass's
\* transaction.  snapshots_new counts what differs from the previous document.
Write(r) ==
    LET p == Least(todo[r]) IN
    /\ pc[r] = "holding"
    /\ ~Locked(r, p)
    /\ txn' = [txn EXCEPT ![r][p] = held[r]]
    /\ new' = [new EXCEPT ![r] = IF held[r].prev = held[r].doc THEN @ ELSE @ + 1]
    /\ held' = [held EXCEPT ![r] = Nothing]
    /\ Visited(r)
    /\ pc' = [pc EXCEPT ![r] = "storing"]
    /\ UNCHANGED <<tables, quarantine, ledger, known, listed, failed, verdict, offered>>

\* Mutant: the counters are rolled back too, what quarantine committed is not.
RaiseForgets(r) ==
    /\ "raise" \in Faults
    /\ pc[r] \in {"listing", "storing", "holding"}
    /\ txn' = [txn EXCEPT ![r] = NoWrites]
    /\ held' = [held EXCEPT ![r] = Nothing]
    /\ new' = [new EXCEPT ![r] = 0]
    /\ verdict' = [verdict EXCEPT ![r] = "raised"]
    /\ pc' = [pc EXCEPT ![r] = "recording"]
    /\ UNCHANGED <<tables, quarantine, ledger, known, listed, todo, failed, offered>>

\* An exception other than FetchError and psycopg.Error, while listing, in the
\* gathered detail calls or while storing: the transaction is rolled back, the
\* counters are not.
Raise(r) ==
    /\ "raise" \in Faults
    /\ pc[r] \in {"listing", "storing", "holding"}
    /\ txn' = [txn EXCEPT ![r] = NoWrites]
    /\ held' = [held EXCEPT ![r] = Nothing]
    /\ verdict' = [verdict EXCEPT ![r] = "raised"]
    /\ pc' = [pc EXCEPT ![r] = "recording"]
    /\ UNCHANGED <<tables, quarantine, ledger, known, listed, todo, counts, offered>>

\* Mutant: what was not stored is withdrawn, not what was not listed.
ConcludeByStored(r) ==
    /\ pc[r] = "storing"
    /\ todo[r] = {}
    /\ verdict' = [verdict EXCEPT ![r] =
                        IF failed[r] = 0 THEN "ok"
                        ELSE IF failed[r] = Cardinality(listed[r]) THEN "failed"
                        ELSE "partial"]
    /\ todo' = [todo EXCEPT ![r] = known[r] \ Stores(r)]
    /\ pc' = [pc EXCEPT ![r] = "withdrawing"]
    /\ UNCHANGED <<tables, quarantine, ledger, known, listed, held, txn, counts, offered>>

\* The store loop is over: the status is settled and the products that were
\* available before and are in no category now are to be withdrawn.
Conclude(r) ==
    /\ pc[r] = "storing"
    /\ todo[r] = {}
    /\ verdict' = [verdict EXCEPT ![r] =
                        IF failed[r] = 0 THEN "ok"
                        ELSE IF failed[r] = Cardinality(listed[r]) THEN "failed"
                        ELSE "partial"]
    /\ todo' = [todo EXCEPT ![r] = known[r] \ listed[r]]
    /\ pc' = [pc EXCEPT ![r] = "withdrawing"]
    /\ UNCHANGED <<tables, quarantine, ledger, known, listed, held, txn, counts, offered>>

\* One round of _record_withdrawals: the change row, not yet the mark.
RecordWithdrawal(r) ==
    LET p == Least(todo[r]) IN
    /\ pc[r] = "withdrawing"
    /\ todo[r] # {}
    /\ txn' = [txn EXCEPT ![r][p] = [prev |-> current[p], doc |-> Absent]]
    /\ Visited(r)
    /\ UNCHANGED <<tables, quarantine, ledger, pc, known, listed, held, counts,
                   verdict, offered>>

\* mark_withdrawn waits for the rows it would update.
MarkBlocked(r) == \E p \in Withdraws(r) : available[p] /\ Locked(r, p)

\* mark_withdrawn and the brand's commit.
Commit(r) ==
    /\ pc[r] = "withdrawing"
    /\ todo[r] = {}
    /\ ~MarkBlocked(r)
    /\ Flush(r, txn[r])
    /\ txn' = [txn EXCEPT ![r] = NoWrites]
    /\ pc' = [pc EXCEPT ![r] = "recording"]
    /\ UNCHANGED <<quarantine, ledger, known, listed, todo, held, counts, verdict, offered>>
-----------------------------------------------------------------------------
\* Mutant: a pass that fails for the database starts the brand over, as often
\* as it takes.
LeaveOrRetry(r, how) ==
    /\ pc' = [pc EXCEPT ![r] = IF how = "dead" THEN "listing" ELSE how]
    /\ known' = [known EXCEPT ![r] = {}]
    /\ listed' = [listed EXCEPT ![r] = {}]
    /\ todo' = [todo EXCEPT ![r] = {}]
    /\ held' = [held EXCEPT ![r] = Nothing]
    /\ txn' = [txn EXCEPT ![r] = NoWrites]
    /\ failed' = [failed EXCEPT ![r] = 0]
    /\ new' = [new EXCEPT ![r] = 0]
    /\ verdict' = [verdict EXCEPT ![r] = "ok"]
    /\ offered' = [offered EXCEPT ![r] = {}]

\* The local state of a pass goes away with its call.
Leave(r, how) ==
    /\ pc' = [pc EXCEPT ![r] = how]
    /\ known' = [known EXCEPT ![r] = {}]
    /\ listed' = [listed EXCEPT ![r] = {}]
    /\ todo' = [todo EXCEPT ![r] = {}]
    /\ held' = [held EXCEPT ![r] = Nothing]
    /\ txn' = [txn EXCEPT ![r] = NoWrites]
    /\ failed' = [failed EXCEPT ![r] = 0]
    /\ new' = [new EXCEPT ![r] = 0]
    /\ verdict' = [verdict EXCEPT ![r] = "ok"]
    /\ offered' = [offered EXCEPT ![r] = {}]

\* record_run_brand, in a transaction of its own.
Record(r) ==
    /\ pc[r] = "recording"
    /\ ledger' = [ledger EXCEPT ![r] =
                    [status |-> Status(verdict[r]), seen |-> Cardinality(listed[r]),
                     failed |-> failed[r], quarantined |-> Quarantined(r),
                     new |-> new[r]]]
    /\ Leave(r, "done")
    /\ UNCHANGED <<tables, quarantine>>

\* The process dies or a statement fails: the open transaction is lost and
\* no ledger row is written for the brand.
Abort(r) ==
    /\ "abort" \in Faults
    /\ Active(r)
    /\ Leave(r, "dead")
    /\ UNCHANGED <<tables, quarantine, ledger>>

\* r waits for a row that s has locked.
WaitsFor(r, s) ==
    /\ r # s
    /\ \/ pc[r] = "holding" /\ Least(todo[r]) \in Stores(s)
       \/ /\ pc[r] = "withdrawing" /\ todo[r] = {}
          /\ \E p \in Withdraws(r) : available[p] /\ p \in Stores(s)

\* Postgres breaks a cycle of waiting transactions by failing one of them,
\* and a psycopg.Error is not handled by the pass.
DeadlockVictim(r) ==
    /\ \E cycle \in SUBSET Runs :
        /\ r \in cycle
        /\ \A s \in cycle : \E t \in cycle : WaitsFor(s, t)
    /\ Leave(r, "dead")
    /\ UNCHANGED <<tables, quarantine, ledger>>

\* The code's own steps.
Step(r) ==
    \/ Begin(r) \/ ListProducts(r) \/ ListFails(r)
    \/ SkipFailed(r) \/ Quarantine(r) \/ ReadLatest(r) \/ Write(r)
    \/ Conclude(r) \/ RecordWithdrawal(r) \/ Commit(r) \/ Raise(r)
    \/ Record(r)

\* Every run of the model is over.
Over ==
    /\ \A r \in Runs : pc[r] \in Ended
    /\ UNCHANGED vars

Next == Over \/ \E r \in Runs : Step(r) \/ Abort(r) \/ DeadlockVictim(r)

Spec == Init /\ [][Next]_vars

\* A pass under way keeps executing, and Postgres' deadlock detector runs.
FairSpec ==
    Spec /\ \A r \in Runs : WF_vars(Step(r)) /\ WF_vars(DeadlockVictim(r))
-----------------------------------------------------------------------------
TypeOK ==
    /\ current \in [Products -> Docs]
    /\ available \in [Products -> BOOLEAN]
    /\ feed \in [Products -> Seq(Events)]
    /\ firstRun \in [Products -> [Contents -> Runs \cup {0}]]
    /\ lastRun \in [Products -> [Contents -> Runs \cup {0}]]
    /\ quarantine \in SUBSET (Runs \X Products)
    /\ ledger \in [Runs -> [status : Statuses, seen : Nat, failed : Nat,
                            quarantined : Nat, new : Nat]]
    /\ pc \in [Runs -> {"waiting", "listing", "storing", "holding", "withdrawing",
                        "recording", "done", "dead"}]
    /\ known \in [Runs -> SUBSET Products]
    /\ listed \in [Runs -> SUBSET Products]
    /\ todo \in [Runs -> SUBSET Products]
    /\ held \in [Runs -> Writes]
    /\ txn \in [Runs -> [Products -> Writes]]
    /\ failed \in [Runs -> Nat]
    /\ new \in [Runs -> Nat]
    /\ verdict \in [Runs -> {"ok", "partial", "failed", "unlisted", "raised"}]
    /\ offered \in [Runs -> SUBSET Products]

\* Every commit of a pass is one step of the change feed's specification: the
\* collector publishes a document, its availability and its change rows
\* together, and computes the change from the document it replaces.
CF == INSTANCE ChangeFeed WITH shown <- current, onSale <- available
ImplementsChangeFeed == CF!Spec

\* Replaying a product's rows yields the document that product_current shows,
\* through withdrawals, returns, quarantined and abandoned passes.  Of its
\* availability the rows tell half: one off sale has a withdrawal last, but so
\* has one that is back unchanged, without a row (collector.py:219-235).
FeedReplays == CF!FeedReplays

\* product_current can be rebuilt from product_snapshot (docs/data-model.md):
\* the current document is the one whose snapshot was seen last, even when a
\* bank goes back to an earlier document.  is_available is not in the snapshots.
CacheRebuildable ==
    \A p \in Products, c \in Contents :
        /\ c = current[p] => 0 < firstRun[p][c] /\ firstRun[p][c] <= lastRun[p][c]
        /\ c # current[p] /\ lastRun[p][c] # 0 =>
            /\ current[p] # Absent
            /\ lastRun[p][c] < lastRun[p][current[p]]

\* A brand's ledger row accounts for every product listed: it failed, was
\* quarantined or its snapshot was committed by this run - all of them when
\* the pass got through its loop, at most as many when it did not.
StoredBy(r) == {p \in Products : \E c \in Contents : lastRun[p][c] = r}
Accounted(r, row) ==
    LET fates == row.failed + row.quarantined + Cardinality(StoredBy(r)) IN
    IF verdict[r] \in {"raised", "unlisted"} THEN fates <= row.seen ELSE fates = row.seen
LedgerAccounts ==
    [][\A r \in Runs : ledger'[r] # ledger[r] => Accounted(r, ledger'[r])]_vars

\* No snapshot row is committed behind the ledger's back: snapshots_new is
\* never less than the rows the run inserted, whichever way the pass ended.
InsertedBy(r) == {s \in Products \X Contents : firstRun[s[1]][s[2]] = r}
NewSnapshotsReported ==
    \A r \in Runs :
        ledger[r] # NoRow => Cardinality(InsertedBy(r)) <= ledger[r].new

\* A product goes off sale only in the commit of a pass whose bank did not
\* offer it, never because its detail failed, was unreadable or was not
\* reached (docs/architecture.md: bad data is not no data).
OnlyUnofferedWithdrawn ==
    [][\A p \in Products : available[p] /\ ~available'[p] =>
            \E r \in Runs : /\ pc[r] = "withdrawing" /\ pc'[r] = "recording"
                            /\ p \in known[r] \ offered[r]]_vars

\* Whatever is shown was announced, and whatever is off sale was withdrawn, in
\* the feed - even when two runs overlap and write from stale reads.
Announced(p, d) ==
    \E i \in DOMAIN feed[p] :
        /\ feed[p][i].to # Absent
        /\ Reading[feed[p][i].to] = Reading[d]
FeedExplainsState ==
    \A p \in Products : current[p] # Absent =>
        /\ Announced(p, current[p])
        /\ ~available[p] => \E i \in DOMAIN feed[p] : feed[p][i].type = "WITHDRAWN"

\* Every pass comes to an end, also when two passes want each other's rows.
PassesEnd == \A r \in Runs : Active(r) ~> pc[r] \in Ended

-----------------------------------------------------------------------------
(* What the documents say and the code does not do.                        *)

\* "PRODUCT_REAPPEARED | Absent, then present again" (docs/data-model.md): a
\* product is on sale exactly when its last change row is not a withdrawal.
FeedTellsAvailability ==
    \A p \in Products :
        available[p] <=>
            feed[p] # << >> /\ feed[p][Len(feed[p])].type # "WITHDRAWN"

\* "a mid-brand failure rolls the whole brand back rather than half of it"
\* (collector.py): a brand that raised leaves no snapshot of its run.
RaisedLeavesNothing ==
    \A r \in Runs :
        pc[r] = "recording" /\ verdict[r] = "raised" => StoredBy(r) = {}

\* "a re-run must never duplicate a snapshot or emit a phantom change"
\* (db.py): a change is not reported twice in a row.
NoRepeatedChange ==
    \A p \in Products : \A i \in 1 .. Len(feed[p]) - 1 :
        feed[p][i].type # "WITHDRAWN" => feed[p][i + 1] # feed[p][i]
=============================================================================
