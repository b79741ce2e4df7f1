------------------------- MODULE ObservationWindow -------------------------
(***************************************************************************)
(* The window (observed_after, observed_before] of a change row, for one   *)
(* product of one brand, over successive collection passes, against what   *)
(* the bank published at each instant.                                     *)
(*                                                                         *)
(* Three clocks are read: the bank's answers are of the instant of the     *)
(* fetch, now() in a statement is the instant the transaction began, and   *)
(* datetime.now() that of the call.  The brand's other products matter in  *)
(* that their statements may open the transaction, take time, and, when    *)
(* one is quarantined, commit it half way (collector._collect_brand).      *)
(***************************************************************************)
EXTENDS Naturals, Sequences

CONSTANTS
    Contents,   \* canonical documents of the product
    Absent,     \* no document: not offered, not known
    MaxTime     \* bound on the clock

ASSUME WindowAssumption ==
    /\ Absent \notin Contents
    /\ MaxTime \in Nat \ {0}

VARIABLES
    clock,
    bank,       \* bank[t]: what the bank published at instant t
    db,         \* the tables, as committed
    mine,       \* the tables, as the open transaction sees them
    began,      \* when that transaction began, 0 while none is open
    pc,         \* where the pass is
    listed,     \* the product is in seen_ids
    got         \* outcome of its detail, Absent for a FetchError

vars == <<clock, bank, db, mine, began, pc, listed, got>>
pass == <<pc, listed, got>>

NoDetail == [doc |-> Absent, at |-> 0]

Docs == Contents \cup {Absent}

\* current and available are product_current's columns, lastSeen the
\* snapshots' last_seen_at (0: no row), feed product_change.  sighted is when
\* the current document was last fetched, for the properties: the code does
\* not keep it.
NoTables == [current |-> Absent, available |-> FALSE,
             lastSeen |-> [c \in Contents |-> 0], feed |-> << >>, sighted |-> 0]
-----------------------------------------------------------------------------
Init ==
    /\ clock = 1
    /\ bank \in [{1} -> Docs]
    /\ db = NoTables /\ mine = NoTables
    /\ began = 0
    /\ pc = "idle" /\ listed = FALSE /\ got = NoDetail

\* Time passes, during which the bank may change what it publishes.
Tick ==
    /\ clock < MaxTime
    /\ clock' = clock + 1
    /\ \E d \in Docs : bank' = Append(bank, d)
    /\ UNCHANGED <<db, mine, began, pass>>

\* A pass begins and lists the bank's products.
List ==
    /\ pc = "idle"
    /\ listed' = (bank[clock] # Absent)
    /\ pc' = "listed"
    /\ UNCHANGED <<clock, bank, db, mine, began, got>>

\* get_product_detail, for a product that is listed; a FetchError when the
\* bank no longer has it or does not answer.
Fetch ==
    /\ pc = "listed"
    /\ \E d \in IF listed THEN {bank[clock], Absent} ELSE {Absent} :
        got' = [doc |-> d, at |-> clock]
    /\ pc' = "storing"
    /\ UNCHANGED <<clock, bank, db, mine, began, listed>>

\* The first statement after a commit, this product's or another's, opens the
\* transaction and sets its now().
BeginTxn ==
    /\ pc \in {"storing", "stored"}
    /\ began = 0
    /\ began' = clock
    /\ UNCHANGED <<clock, bank, db, mine, pass>>

\* db.quarantine, for another product of the brand.
QuarantineOther ==
    /\ pc \in {"storing", "stored"}
    /\ began > 0
    /\ db' = mine
    /\ began' = 0
    /\ UNCHANGED <<clock, bank, mine, pass>>

ChangeRow(from, to, after) ==
    [from |-> from, to |-> to, after |-> after, before |-> clock,
     sighted |-> mine.sighted]

\* Mutant: insert_snapshot leaves a row that is there alone.
SeenOnce(doc) ==
    [mine.lastSeen EXCEPT ![doc] = IF @ = 0 THEN began ELSE @]

\* insert_snapshot: first_seen_at and last_seen_at are now().
Seen(doc) == [mine.lastSeen EXCEPT ![doc] = began]

\* Mutant: the window begins at the call.
ObservedAfterNow == clock

\* The last_seen_at of the snapshot the current row shows.
ObservedAfter == IF mine.current = Absent THEN clock ELSE mine.lastSeen[mine.current]

\* _store_product.
Store ==
    /\ pc = "storing" /\ began > 0 /\ got.doc # Absent
    /\ mine' = [current |-> got.doc, available |-> TRUE, lastSeen |-> Seen(got.doc),
                feed |-> IF got.doc = mine.current THEN mine.feed
                         ELSE Append(mine.feed, ChangeRow(mine.current, got.doc, ObservedAfter)),
                sighted |-> got.at]
    /\ pc' = "stored"
    /\ UNCHANGED <<clock, bank, db, began, listed, got>>

\* No detail: the loop goes on to the next product.
Skip ==
    /\ pc = "storing" /\ got.doc = Absent
    /\ pc' = "stored"
    /\ UNCHANGED <<clock, bank, db, mine, began, listed, got>>

Missing == mine.available /\ ~listed

\* _record_withdrawals.
Withdraw ==
    /\ pc = "stored" /\ began > 0
    /\ Missing
    /\ mine' = [mine EXCEPT !.available = FALSE,
                            !.feed = Append(@, ChangeRow(mine.current, Absent, ObservedAfter))]
    /\ pc' = "withdrawn"
    /\ UNCHANGED <<clock, bank, db, began, listed, got>>

EndPass == pc' = "idle" /\ listed' = FALSE /\ got' = NoDetail

\* The brand's commit.
Commit ==
    /\ pc = "withdrawn" \/ (pc = "stored" /\ ~Missing)
    /\ db' = mine
    /\ began' = 0
    /\ EndPass
    /\ UNCHANGED <<clock, bank, mine>>

\* Mutant: the connection goes on in the aborted transaction.
AbortOpen ==
    /\ pc # "idle"
    /\ EndPass
    /\ mine' = db
    /\ UNCHANGED <<clock, bank, db, began>>

\* An exception or a killed process: the transaction is rolled back.
Abort ==
    /\ pc # "idle"
    /\ EndPass
    /\ mine' = db
    /\ began' = 0
    /\ UNCHANGED <<clock, bank, db>>

Next ==
    \/ Tick \/ List \/ Fetch \/ BeginTxn \/ QuarantineOther
    \/ Store \/ Skip \/ Withdraw \/ Commit \/ Abort

Spec == Init /\ [][Next]_vars
-----------------------------------------------------------------------------
Rows(tables) == {tables.feed[n] : n \in DOMAIN tables.feed}
Times == 0 .. MaxTime
RowType == [from : Docs, to : Docs, after : Times, before : Times, sighted : Times]
Tables == [current : Docs, available : BOOLEAN, lastSeen : [Contents -> Times],
           feed : Seq(RowType), sighted : Times]

TypeOK ==
    /\ clock \in 1 .. MaxTime
    /\ bank \in [1 .. clock -> Docs]
    /\ db \in Tables /\ mine \in Tables
    /\ began \in 0 .. clock
    /\ pc \in {"idle", "listed", "storing", "stored", "withdrawn"}
    /\ pc \in {"idle", "listed"} => began = 0
    /\ listed \in BOOLEAN
    /\ got \in [doc : Docs, at : 0 .. clock]

\* The change the row reports had happened when the window closed and not
\* before it opened for good: the bank published the new document, or no longer
\* the product, at some instant of the window.  Rows of new products have no
\* earlier observation.
NewWithinWindow ==
    \A row \in Rows(db) : row.from # Absent =>
        \E t \in row.after .. row.before : bank[t] = row.to

\* observed_after is "previous successful observation" (001_initial_schema.sql),
\* also of a document that was seen, replaced and is back: the window does
\* not reach back beyond the fetch that last saw the old document.
PreviousSighting ==
    \A row \in Rows(db) : row.from # Absent =>
        /\ row.sighted <= row.after /\ row.after <= row.before
        /\ bank[row.sighted] = row.from
-----------------------------------------------------------------------------
(* What the documents say and the code does not do.                        *)

\* "We can never claim to know exactly when a rate changed - only that it changed
\* somewhere in the (observed_after, observed_before] window"
\* (docs/data-model.md).
ChangedWithinWindow ==
    \A row \in Rows(db) : row.from # Absent =>
        \E t \in row.after .. row.before : bank[t] = row.from
=============================================================================
