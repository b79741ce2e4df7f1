--------------------------- MODULE RunCollection ---------------------------
(***************************************************************************)
(* collector.run_collection: the run, its row in collection_run, the rows  *)
(* its brands get in collection_run_brand, and the circuit breaker each    *)
(* outcome feeds.  What _collect_brand does with a brand's products is     *)
(* CollectBrand's subject; here a brand is one outcome.                    *)
(*                                                                         *)
(* The collector has one connection and commits after each ledger          *)
(* statement, so a run is a sequence of small transactions, and it can     *)
(* stop between any two of them.                                           *)
(***************************************************************************)
EXTENDS Naturals, FiniteSets

CONSTANTS
    Brands,     \* enabled brands still on the register, in brand_id order
    Runs,       \* run ids
    Threshold,  \* circuit_failure_threshold
    Cooldown,   \* circuit_cooldown_hours, in ticks
    Interval,   \* ticks from one scheduled run to the next
    Poison,     \* brands that publish what Postgres refuses to store
    Manual,     \* what is collected by hand, at any time: see ByHand
    Overlap,    \* two runs may be under way at once (double-fired schedule)
    Faults,     \* which faults occur: see FaultKinds
    MaxTime     \* bound on the clock

\* "database"   a statement inside a brand's try block fails, and is rolled back
\* "statement"  a statement outside it fails: nothing rolls back
\* "crash"      the process dies or reaches the Lambda timeout
FaultKinds == {"database", "statement", "crash"}

\* "all"  rateradar collect;  "brand"  rateradar collect --brand
ByHand == {"all", "brand"}

ASSUME RunAssumption ==
    /\ Brands \subseteq Nat /\ IsFiniteSet(Brands)
    /\ Runs \subseteq Nat \ {0}
    /\ {Threshold, Cooldown, Interval} \subseteq Nat \ {0}
    /\ Poison \subseteq Brands
    /\ Manual \subseteq ByHand
    /\ Overlap \in BOOLEAN
    /\ Faults \subseteq FaultKinds
    /\ MaxTime \in Nat

VARIABLES
    now,        \* the clock; a run is short compared with a tick
    \* The tables.
    failures,   \* brand.consecutive_failures
    openUntil,  \* brand.circuit_open_until, Closed for null
    runRow,     \* collection_run: status, brands_total, brands_ok, brands_failed
    brandRow,   \* collection_run_brand.status, "none" while there is no row
    \* Each run.
    pc,         \* where the run is
    left,       \* brands the loop has yet to finish
    outcome,    \* status of the brand being recorded
    totals,     \* brands_total, brands_ok, brands_failed
    raced       \* two runs were under way at once: only for the properties

tables == <<failures, openUntil, runRow, brandRow>>
vars == <<now, failures, openUntil, runRow, brandRow, pc, left, outcome, totals, raced>>

Closed == MaxTime + Cooldown + 1
Ended == {"done", "dead"}
Active(r) == pc[r] \notin Ended \cup {"waiting"}
Least(S) == CHOOSE b \in S : \A c \in S : b <= c
NoTotals == [total |-> 0, ok |-> 0, failed |-> 0]
NoRun == [status |-> "none", counts |-> NoTotals]
-----------------------------------------------------------------------------
Init ==
    /\ now = 0
    /\ failures = [b \in Brands |-> 0]
    /\ openUntil = [b \in Brands |-> Closed]
    /\ runRow = [r \in Runs |-> NoRun]
    /\ brandRow = [r \in Runs |-> [b \in Brands |-> "none"]]
    /\ pc = [r \in Runs |-> "waiting"]
    /\ left = [r \in Runs |-> {}]
    /\ outcome = [r \in Runs |-> "ok"]
    /\ totals = [r \in Runs |-> NoTotals]
    /\ raced = FALSE

\* Time passes between runs: cooldowns are hours and runs are minutes.
Tick ==
    /\ now < MaxTime
    /\ \A r \in Runs : ~Active(r)
    /\ now' = now + 1
    /\ UNCHANGED <<tables, pc, left, outcome, totals, raced>>

MayStart ==
    \/ \A s \in Runs : ~Active(s)
    \/ Overlap /\ \E s \in Runs : \A t \in Runs \ {s} : ~Active(t)

\* enabled_brands, then --brand.
Enabled == {b \in Brands : openUntil[b] = Closed \/ openUntil[b] < now}
Selections ==
    LET full == IF now % Interval = 0 \/ "all" \in Manual THEN {Enabled} ELSE {}
        one == IF "brand" \in Manual THEN {Enabled \cap {b} : b \in Brands} ELSE {}
    IN  full \cup one

\* start_run.  Run ids are handed out in the order of the starts.
Start(r) ==
    /\ pc[r] = "waiting"
    /\ \A s \in Runs : s < r => pc[s] # "waiting"
    /\ MayStart
    /\ \E chosen \in Selections :
        /\ left' = [left EXCEPT ![r] = chosen]
        /\ totals' = [totals EXCEPT ![r].total = Cardinality(chosen)]
    /\ runRow' = [runRow EXCEPT ![r].status = "running"]
    /\ pc' = [pc EXCEPT ![r] = "collecting"]
    /\ raced' = (raced \/ \E s \in Runs : Active(s))
    /\ UNCHANGED <<now, failures, openUntil, brandRow, outcome>>

\* The try block of _collect_brand ends in a status.
Collect(r) ==
    /\ pc[r] = "collecting" /\ left[r] # {}
    /\ \E status \in {"ok", "partial", "failed"} : outcome' = [outcome EXCEPT ![r] = status]
    /\ pc' = [pc EXCEPT ![r] = "recording"]
    /\ UNCHANGED <<now, tables, left, totals, raced>>

\* ... or in a psycopg.Error: rolled back and raised through the run.
Refused(r) ==
    /\ pc[r] = "collecting" /\ left[r] # {}
    /\ Least(left[r]) \in Poison \/ "database" \in Faults
    /\ pc' = [pc EXCEPT ![r] = "failing"]
    /\ UNCHANGED <<now, tables, left, outcome, totals, raced>>

\* record_run_brand commits the brand's row.
RecordBrand(r) ==
    /\ pc[r] = "recording"
    /\ brandRow' = [brandRow EXCEPT ![r][Least(left[r])] = outcome[r]]
    /\ pc' = [pc EXCEPT ![r] = "rating"]
    /\ UNCHANGED <<now, failures, openUntil, runRow, left, outcome, totals, raced>>

\* Mutant: a partial brand is counted neither way.
CountedWhole(counts, status) ==
    IF status = "ok" THEN [counts EXCEPT !.ok = @ + 1]
    ELSE IF status = "failed" THEN [counts EXCEPT !.failed = @ + 1] ELSE counts

\* One more brand in the totals.
Counted(counts, status) ==
    IF status # "failed" THEN [counts EXCEPT !.ok = @ + 1]
                         ELSE [counts EXCEPT !.failed = @ + 1]

\* Mutant: a partial brand counts against the breaker.
RatePartialAsFailure(r) ==
    LET b == Least(left[r]) IN
    /\ pc[r] = "rating"
    /\ IF outcome[r] = "ok"
       THEN /\ failures' = [failures EXCEPT ![b] = 0]
            /\ openUntil' = [openUntil EXCEPT ![b] = Closed]
       ELSE /\ failures' = [failures EXCEPT ![b] = @ + 1]
            /\ openUntil' = [openUntil EXCEPT
                    ![b] = IF failures[b] + 1 >= Threshold THEN now + Cooldown ELSE @]
    /\ totals' = [totals EXCEPT ![r] = Counted(@, outcome[r])]
    /\ left' = [left EXCEPT ![r] = @ \ {b}]
    /\ outcome' = [outcome EXCEPT ![r] = "ok"]
    /\ pc' = [pc EXCEPT ![r] = "collecting"]
    /\ UNCHANGED <<now, runRow, brandRow, raced>>

\* Mutant: a success resets the counter and leaves the circuit open.
RateWithoutClosing(r) ==
    LET b == Least(left[r]) IN
    /\ pc[r] = "rating"
    /\ IF outcome[r] # "failed"
       THEN /\ failures' = [failures EXCEPT ![b] = 0]
            /\ UNCHANGED openUntil
       ELSE /\ failures' = [failures EXCEPT ![b] = @ + 1]
            /\ openUntil' = [openUntil EXCEPT
                    ![b] = IF failures[b] + 1 >= Threshold THEN now + Cooldown ELSE @]
    /\ totals' = [totals EXCEPT ![r] = Counted(@, outcome[r])]
    /\ left' = [left EXCEPT ![r] = @ \ {b}]
    /\ outcome' = [outcome EXCEPT ![r] = "ok"]
    /\ pc' = [pc EXCEPT ![r] = "collecting"]
    /\ UNCHANGED <<now, runRow, brandRow, raced>>

\* record_brand_health commits the breaker; the totals follow and the loop
\* turns to the next brand.
RecordHealth(r) ==
    LET b == Least(left[r]) IN
    /\ pc[r] = "rating"
    /\ IF outcome[r] # "failed"
       THEN /\ failures' = [failures EXCEPT ![b] = 0]
            /\ openUntil' = [openUntil EXCEPT ![b] = Closed]
       ELSE /\ failures' = [failures EXCEPT ![b] = @ + 1]
            /\ openUntil' = [openUntil EXCEPT
                    ![b] = IF failures[b] + 1 >= Threshold THEN now + Cooldown ELSE @]
    /\ totals' = [totals EXCEPT ![r] = Counted(@, outcome[r])]
    /\ left' = [left EXCEPT ![r] = @ \ {b}]
    /\ outcome' = [outcome EXCEPT ![r] = "ok"]
    /\ pc' = [pc EXCEPT ![r] = "collecting"]
    /\ UNCHANGED <<now, runRow, brandRow, raced>>

\* finish_run(status), and what the call held goes away.
Leave(r, how) ==
    /\ pc' = [pc EXCEPT ![r] = how]
    /\ left' = [left EXCEPT ![r] = {}]
    /\ outcome' = [outcome EXCEPT ![r] = "ok"]
    /\ totals' = [totals EXCEPT ![r] = NoTotals]

FinishRun(r, status) ==
    /\ runRow' = [runRow EXCEPT ![r] = [status |-> status, counts |-> totals[r]]]
    /\ Leave(r, "done")
    /\ UNCHANGED <<now, failures, openUntil, brandRow, raced>>

Finish(r) ==
    /\ pc[r] = "collecting" /\ left[r] = {}
    /\ FinishRun(r, "completed")

\* Mutant: a status of its own for a run that raised.
FailAsError(r) == pc[r] = "failing" /\ FinishRun(r, "error")

\* The handler of psycopg.Error: the run is failed and the error raised on.
Fail(r) == pc[r] = "failing" /\ FinishRun(r, "failed")

\* A statement with no rollback of its own fails: known_before's read, one of
\* the two ledger statements, or finish_run.  The transaction stays aborted,
\* finish_run fails in it as well, and the run row is left as it is.
StatementFails(r) ==
    /\ "statement" \in Faults
    /\ Active(r)
    /\ Leave(r, "dead")
    /\ UNCHANGED <<now, tables, raced>>

\* The process dies.
Crash(r) ==
    /\ "crash" \in Faults
    /\ Active(r)
    /\ Leave(r, "dead")
    /\ UNCHANGED <<now, tables, raced>>

\* The clock is at its bound and no run is under way.
Over ==
    /\ now = MaxTime
    /\ \A r \in Runs : ~Active(r)
    /\ UNCHANGED vars

Next ==
    \/ Tick
    \/ Over
    \/ \E r \in Runs :
        \/ Start(r) \/ Collect(r) \/ Refused(r) \/ RecordBrand(r) \/ RecordHealth(r)
        \/ Finish(r) \/ Fail(r) \/ StatementFails(r) \/ Crash(r)

Spec == Init /\ [][Next]_vars
-----------------------------------------------------------------------------
Counts == [total : Nat, ok : Nat, failed : Nat]
Rows == {"none", "ok", "partial", "failed"}

TypeOK ==
    /\ now \in 0 .. MaxTime
    /\ failures \in [Brands -> Nat]
    /\ openUntil \in [Brands -> Nat]
    /\ runRow \in [Runs -> [status : {"none", "running", "completed", "failed"},
                            counts : Counts]]
    /\ brandRow \in [Runs -> [Brands -> Rows]]
    /\ pc \in [Runs -> {"waiting", "collecting", "recording", "rating", "failing"} \cup Ended]
    /\ left \in [Runs -> SUBSET Brands]
    /\ outcome \in [Runs -> Rows \ {"none"}]
    /\ totals \in [Runs -> Counts]
    /\ raced \in BOOLEAN

With(r, statuses) == Cardinality({b \in Brands : brandRow[r][b] \in statuses})

\* A run's row and its brands' rows agree: what the row counts as ok or failed
\* are the brands that have such a row - also when the run failed half-way -
\* and a completed run has a row for every brand it set out to collect.
LedgersAgree ==
    \A r \in Runs : runRow[r].status \in {"completed", "failed"} =>
        LET counts == runRow[r].counts IN
        /\ counts.ok = With(r, {"ok", "partial"})
        /\ counts.failed = With(r, {"failed"})
        /\ runRow[r].status = "completed" => counts.total = counts.ok + counts.failed

\* While no two runs overlap, the breaker counts consecutive failures: as many
\* as the ledger has after the last run that recorded a success and lived to
\* tell the breaker.  A run that died in between may make it count fewer,
\* never more.
Forgiven(r, b) == brandRow[r][b] \in {"ok", "partial"} /\ pc[r] # "dead"
Streak(b) == {r \in Runs : brandRow[r][b] = "failed" /\ \A s \in Runs : s > r => ~Forgiven(s, b)}
InFlight(r) == pc[r] = "rating" /\ outcome[r] # "failed"
BreakerCountsStreak ==
    ~raced => \A b \in Brands :
        (\A r \in Runs : ~InFlight(r)) => failures[b] <= Cardinality(Streak(b))

\* A circuit is open only on evidence that the ledger shows, also when two
\* runs rate one brand at the same time.
Failed(b) == {r \in Runs : brandRow[r][b] = "failed"}
OpenOnEvidence ==
    \A b \in Brands :
        /\ failures[b] <= Cardinality(Failed(b))
        /\ openUntil[b] # Closed => failures[b] >= Threshold
-----------------------------------------------------------------------------
(* What the documents say and the code does not do.                        *)

\* "One broken bank must never fail a run." (docs/architecture.md): without
\* infrastructure faults no run fails.
BrokenBankContained ==
    Faults = {} => \A r \in Runs : runRow[r].status # "failed"
=============================================================================
