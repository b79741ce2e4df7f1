# RateRadar, specified

TLA+ modules, TLC configurations and TLAPS proofs for RateRadar, the collector
that polls Australian banks' Product Reference Data, stores every version of
every product and publishes a feed of changes. The modules are written from the
Python sources (paths below are relative to the repository's root).

## 1. The system

| Component | State it keeps | Operations | Interacts with |
| --- | --- | --- | --- |
| Brand pass (`collector._collect_brand`, `_store_product`, `_record_withdrawals`) | locals of one call: `known_before`, `seen_ids`, counters, status; one open transaction | list, gather details, store or quarantine each product, withdraw, commit, record | CDR client (awaits), Postgres (one connection), differ, normaliser |
| Change feed (`product_snapshot`, `product_current`, `product_change`) | immutable versions, the cache of current ones, append-only rows | `insert_snapshot`, `upsert_current`, `mark_withdrawn`, `insert_changes` | written by passes, read by dashboards and users |
| Observation window (columns `observed_after`, `observed_before`, `last_seen_at`) | instants on three clocks: of the fetch, of the transaction's start, of the call | stamped by the statements of the pass | the bank's own history |
| Run loop and breaker (`collector.run_collection`, `record_brand_health`) | `collection_run`, `collection_run_brand`, `brand.consecutive_failures`, `circuit_open_until` | select brands, start, collect each, record, rate, finish or fail | scheduler, brand pass |
| CDR client (`client.CDRClient`) | `_endpoint_version`, `_endpoint_dead`, semaphores; per call: version, tried, attempt | `get_json`, `list_products`, `get_product_detail` | banks; one event loop |
| Normaliser (`normalise.py`) | none | `canonicalise`, `content_hash`, `headline_rate` | brand pass |
| Differ (`differ.py`) | none | `diff_products`, `_walk`, `_classify` | brand pass |
| Register and allowlist (`register.py`) | `brand.is_enabled`, `is_active_in_cdr`, `left_register_at` | discover (with fallback), resolve, `upsert_brands`, `enable_brands` | run loop, through the brand table |
| Health (`db.health_snapshot`, `cli.health`) | none | read and judge | run ledger, feed |
| Migrations (`db.migrate`) | `schema_migration` | apply unapplied files | starts every Lambda collection |
| Backup (`handler._backup`) | objects in S3, a manifest | counts, one COPY per table | reads while a run may write |
| Lambda handler, CLI, configuration, logs, dashboards, Terraform | none that the system reads back | dispatch | all of the above |

A run is one process with one connection. It takes the brands one at a time;
within a brand the HTTP calls run concurrently on one event loop and the database
work runs afterwards, sequentially. The scheduler (EventBridge, 06:17 and 18:17)
retries and gives no guarantee against firing twice; the documents say that a
double fire is harmless. Nothing in the program prevents two runs at once, or a
discovery, a migration or a backup beside a run.

What is hard here:

* `db.quarantine` commits in the middle of the brand's transaction;
* withdrawals are computed from a read made minutes before, in a transaction of
  its own;
* the data, the brand's ledger row and the breaker are three commits, and the
  process (a Lambda with a timeout) can stop between them; so are the two halves
  of a discovery, and the statements of a migration or a backup;
* with two runs, reads go stale and transactions can deadlock, because
  `mark_withdrawn` locks its rows after all the stores;
* a product can go away and come back, with the same, an earlier or a new document;
* a change is dated by clocks read at different moments of a slow pass;
* a payload says the same in many ways: order, spelling, empty fields;
* what an allowlist entry stands for depends on every other brand listed that day,
  and the fallback list knows the same banks by other ids;
* a bank can name a version and refuse it, serve another than was asked or claim to,
  or answer slowly, wrongly or not at all, while other calls to it are under way.

What makes each component correct: a *pass* publishes, in each commit, documents
together with the change rows that explain them, and reports what became of every
product it listed; the *feed* replays to the document shown, and each row's window holds
the change; *normaliser and differ* report movement and nothing but movement;
the *run loop* keeps the two ledgers in agreement, and its breaker opens on evidence
only; the *client* asks a bank no more than negotiation and retries need, gives up on
versions only for a reason, and always comes to an end; *discovery* never guesses
and stops collecting a brand for a dated departure or a selection only; *migrations* take effect once, and a *backup*
that has a manifest keeps the past. `PROJECT.json` lists the hazards line by line.

## 2. The modules

| Module | Models | EXTENDS / uses |
| --- | --- | --- |
| `ProductDiff` | which kind of change a pair of documents gives rise to | |
| `ChangeFeed` | abstract specification: one step is one commit | `ProductDiff` |
| `CollectBrand` | the brand pass on the tables, over several runs | `ProductDiff`; `CF == INSTANCE ChangeFeed` |
| `ObservationWindow` | the instants of a change row, for one product over successive passes | |
| `CanonicalDiff` | a payload through normaliser and differ, edit after edit | |
| `FetchClient` | `get_json` for the calls of a run to one endpoint of one host | |
| `RunCollection` | the run loop, the ledgers and the breaker | |
| `Discovery` | discovery, allowlist, the brand table, freshness | |
| `Operations` | Lambda invocations side by side: migrate, collect, back up | |
| `MCCollectBrand`, `MCCanonicalDiff`, `MCFetchClient`, `MCDiscovery`, `MCOperations` | values for TLC | the module they are named for |
| `ChangeFeedProofs`, `CollectBrandProofs`, `ObservationWindowProofs`, `CanonicalDiffProofs`, `FetchClientProofs`, `RunCollectionProofs`, `DiscoveryProofs`, `OperationsProofs` | proofs | the modules they are named for |

The modules cut the system along its tables. `CollectBrand` has documents as atoms;
`CanonicalDiff` looks inside them, `ObservationWindow` at the clock, and
`RunCollection` takes a whole pass for one outcome. `Discovery` decides which brands
`RunCollection` finds enabled, and `Operations` sees only the commits of a run.

### Documents and differences (`ProductDiff`)

A canonical document is a model value, identified with its content hash. The
differ compares Python values where the hash is taken over JSON text, so it may
find nothing to report between documents that hash apart (`1` and `1.0`, a
trailing `null` in a list). `Reading` maps a document to a representative of those it calls
equal, and everything is checked and proved for any `Reading`. All rows of one
diff are one event, `ADDED`, `CHANGED` or `WITHDRAWN`; the paths and
the 200-row cap are `CanonicalDiff`'s.

### The brand pass (`CollectBrand`)

| Code | Action |
| --- | --- |
| `known_before`, `conn.rollback()` | `Begin` |
| listing, to the last page / `FetchError` while listing | `ListProducts` / `ListFails` |
| detail ended in a `FetchError` | `SkipFailed` |
| `NormalisationError`: `db.quarantine` with its commit | `Quarantine` |
| `latest_snapshot`; then `insert_snapshot`, `insert_changes`, `upsert_current` | `ReadLatest`; `Write` |
| status, `withdrawn = known_before - seen_ids` | `Conclude` |
| one round of `_record_withdrawals` | `RecordWithdrawal` |
| `mark_withdrawn`, `conn.commit()` | `Commit` |
| `except Exception` with rollback | `Raise` |
| `record_run_brand` | `Record` |
| process death, any `psycopg.Error` | `Abort` |
| Postgres' deadlock detector (external) | `DeadlockVictim` |

`txn` holds what a transaction has written: it becomes visible in `Flush`, all at
once, and locks the current rows it has upserted until then. `Write` and
`Commit` wait for rows that another pass has locked. The ledger row, the counters
and the statuses are modelled as the code computes them.

`verdict` remembers which path produced a failed status, `offered` what the bank
really offered when it was listed: the second exists only so that properties can
speak about it. `lastRun` stands for `last_seen_at`, by the run that set it.

### The window (`ObservationWindow`)

| Code | Action |
| --- | --- |
| listing; `get_product_detail` or its `FetchError` | `List`; `Fetch` |
| the first statement after a commit: `now()` is set | `BeginTxn` |
| another product is quarantined: commit half way | `QuarantineOther` |
| `_store_product`; no detail | `Store`; `Skip` |
| `_record_withdrawals`, `mark_withdrawn` | `Withdraw` |
| `conn.commit()`; exception or death | `Commit`; `Abort` |

`bank` is the whole history of what the bank published, instant by instant, and
`Tick` may come between any two steps. `observed_after` is read from the open
transaction (`mine`), as `latest_snapshot` does. Of the brand's other products only
their delays and commits remain. `sighted` (when the current document was last
fetched) is not in the code; properties need it.

### Payloads (`CanonicalDiff`)

| Code | Definition |
| --- | --- |
| `_canonicalise`, `_decimal_str`, `_sort_key` with `ARRAY_SORT_KEYS` | `Canonical`, `Trimmed`, `Folded`, `Sorted` with `Rank` |
| `headline_rate` | `Headline` |
| `_walk`: positional, absent array compared as a whole, cap | `Walk`, `ArrayRows`, `EntryRows`, `Row` |
| `diff_products`, its truncated row; `_classify` | `Diff`, `Truncated`; `Classify` |
| `_store_product` | `Collect` |

A payload has arrays of entries (a natural key and a decimal) and one nested object, which is
absent, `{}` ("empty"), of null, empty and volatile fields only ("hollow"), or says something.
The bank edits it by `Reprice`, `AddEntry`, `DropEntry`, `Reorder`, `Reinform`. Decimals are
numbered so that the order of the numbers is both that of the strings, by which the code
sorts, and of the values, by which it takes the headline: true of rates with one
leading zero, the form in which banks publish them. `Meaning` is the reference definition:
which entries, how often.

### The client (`FetchClient`)

`kind` is the endpoint. The brands of a host are collected one after the other with one
client, whose caches are per host, so they share them (`Brand`). The detail calls of a brand are
gathered: asyncio runs the first step of each task before it looks for replies, so each has read
the caches before the first answer arrives (`Start` before any `Replied`). List pages
follow one another (`MyTurn`), and a `FetchError` leaves the listing and the brand: the pages after
it are never asked for (`Abandoned`). `line` is the two semaphores in one: holders first, then
waiters, in order; since only one brand is collected at a time the smaller limit
decides. The bank is arbitrary: the set of versions it serves, the set its 406
names, (the same for all brands of the host, as the caches' key assumes), whether it honours `x-min-v`, and whether the `x-v` of its answers is right,
missing (the client then takes the version it asked for) or wrong (`Claimed`); every
reply may also be an error of any kind. Retry waits have no length.

### The run loop (`RunCollection`)

| Code | Action |
| --- | --- |
| `enabled_brands`, `--brand`, `start_run` | `Start` |
| `_collect_brand`'s try block: a status / a `psycopg.Error` | `Collect` / `Refused` |
| `record_run_brand` | `RecordBrand` |
| `record_brand_health`, totals | `RecordHealth` |
| `finish_run("completed")` / `finish_run("failed")` | `Finish` / `Fail` |
| a statement fails where nothing rolls back | `StatementFails` |
| process death, Lambda timeout | `Crash` |

`StatementFails` covers the statements outside `_collect_brand`'s try block (and
`finish_run`): the transaction stays aborted, so the handler's own `finish_run` fails too.
A tick is six hours, the cooldown; scheduled runs are two ticks apart, and a run
fits in a tick. `Poison` are brands that publish what Postgres refuses to store.
`raced` remembers that two runs were under way at once; only properties read it.

### Discovery (`Discovery`)

| Code | Action or definition |
| --- | --- |
| `fetch_register_brands` / the fallback list | `AskRegister` / `AskFallback` |
| `DiscoveryError`, no `--apply`, death | `GiveUp` |
| `resolve_allowlist`: id, exact name, words; generic; several | `Candidates`, `Matched`, `Unmatched`, `Ambiguous` |
| `upsert_brands`: its statements / its commit | `Write` / `Upsert` |
| `enable_brands`, with its commit | `Enable` |
| a completed run; `cli.health`, FAIL level | `Collect`; `HealthFails` |

A name is a sequence of words, and substring matching is on words; the
instance's names are such that nothing else differs. An upsert is two steps, because a
statement decides what has left by what is committed when it runs. `namedBy`,
`covered` and `crossed` are there for the properties.

### Operations (`Operations`)

| Code | Action |
| --- | --- |
| `migrate`: the read, each file, the commit | `ReadRecorded`, `ApplyFile`, `CommitMigrations` |
| a run's commits | `StartRun`, `StoreBrand`, `RecordBrand` |
| `row_counts`; `COPY` and `put_object`; the manifest | `CountRows`; `CopyTable`; `PutManifest` |
| exception, Lambda timeout | `Fail`, `Killed` |

Rows are who wrote them. Every statement sees what is committed when it begins. A backup
keeps read locks to its end, a migration an exclusive lock on the tables it alters
(`Reading`, `Altered`), and a file that another process has recorded meanwhile fails on
`schema_migration`'s key; on an empty database `CREATE TABLE schema_migration` behaves
as the first file does.

## 3. What TLC checks

Every property of a passing run has a mutant: a definition as a plausible bug would
have it, written beside the original under a comment that opens with "Mutant", which
breaks the property under the same configuration.

| Run | Instance | Shows |
| --- | --- | --- |
| `CollectSerial` | 3 runs one after the other, 2 products, 3 documents of which 2 read alike, every fault | the pass implements the feed (`ImplementsChangeFeed`) and its rows replay to the document shown, a withdrawal last if the product is off sale (`FeedReplays`); the cache of current versions follows from the snapshots (`CacheRebuildable`); a new snapshot has a row unless it reads alike (`NewSnapshotsReported`); the ledger's counters account for every product (`LedgerAccounts`); nothing still offered is withdrawn (`OnlyUnofferedWithdrawn`) |
| `CollectOverlap` | 3 runs, 2 at a time, 2 products, 2 documents, deadlocks, fairness | what is shown was announced in the feed (`FeedExplainsState`); every pass ends (`PassesEnd`) |
| `ObservationWindow` | 5 instants, 2 documents, any number of passes | a row's new document was published within its window (`NewWithinWindow`), which starts no earlier than the last sighting of the old one (`PreviousSighting`) |
| `CanonicalDiff` | 2 arrays, 2 keys, 3 spellings of 2 decimals, up to 3 entries, 2 edits between collections, cap 3 | canonicalising keeps the meaning, and doing it twice changes no array, nor anything else but a `{}` (`CanonicalStable`); edits without meaning give no row, unless a hollow object comes or goes (`NoiseUnreported`), others do (`MeaningReported`); the rows are the difference, up to the cap (`RowsRebuild`); a new headline has a row that explains it, unless the rows were cut off (`HeadlineExplained`); rows compare entries of one position and part (`LikeWithLike`) |
| `FetchClient` | 2 pages or 2 gathered details of a brand and 1 of another on the host; versions 3..5 asked blind, cap 6; banks serving any of {3, 6}, naming any of {2, 6, 8}, claiming 9; 1 slot, 1 retry; fairness | no refused version is asked again (`RefusedNotReasked`); a call's requests are bounded (`RequestsBounded`); it fails over versions for a reason (`VersionFailuresHonest`); calls made after one that found the endpoint dead, or was served, do not negotiate again (`HostRemembered`); all end (`CallsEnd`) |
| `RunsLedger` | 3 runs, scheduled or of one brand by hand, overlapping or not, 2 brands, threshold 2, every fault | `LedgersAgree`; a circuit that is open has its failures in the ledger (`OpenOnEvidence`); without overlap the breaker counts no more than the streak (`BreakerCountsStreak`) |
| `Discovery` | 3 discoveries over 3 days, from 4 listings and 2 fallback lists, with 3 allowlists | an entry enables a brand only if no other fits it as well (`NeverGuessed`); a brand stops being collected because a listing lacks it, with a date, or because its entries are gone, select another or are reported (`LossesExplained`); a departure is dated when it happens (`LeftDated`); one source is active at a time, unless two crossed (`OneSourceAtATime`); an emptied registry fails the health check in time (`EmptyRegistryNoticed`) |
| `Operations` | 3 invocations at once out of collect, migrate and backup, in 4 mixes, the 2 migration files, from any state of the schema | each file takes effect once, in order (`MigratedOnce`); runs write to the newest schema (`RunsOnNewestSchema`); a backup with a manifest keeps every row there was (`BackupKeepsPast`); all invocations end (`InvocationsEnd`) |

Each passing run but `CollectOverlap` also has the module's `TypeOK`.

**Bounds.** Three runs are the fewest in which a product appears, goes and comes back,
or a document is left and returned to; two products the fewest with a transaction that
quarantines after storing, or a cycle of locks; three documents the fewest with a change,
a return and a pair that reads alike. `CollectOverlap` has no fault but Postgres'
own victims, which keeps liveness within reach; safety with every fault and overlap
is proved instead (`FeedExplains`). Five instants hold two fetches, a late transaction
and an edit between any of them; contents beyond two add nothing, because a window
is about one change. Three entries in two arrays are the fewest with a duplicate key in
one array while another changes; the cap of 3 is reached and passed. Three calls are the
fewest with two gathered ones or two pages and a brand after them; they share only the caches and
the line. The versions named include one below the blind range, one above it within the cap, and
one beyond the cap; one retry is enough to have it before, between and after refusals. With threshold 2 three runs
open a circuit and try the brand again. Three discoveries are the fewest in which a source
is left, replaced and returned to, or two cross after a first. Three invocations are the fewest
with a migration and a run beside a backup. `MaxTime` bounds the clocks and `MaxEdits`
the edits between two collections; `MaxEntries` and the guards that use it bound a
payload. Nothing else is cut off: runs end because the sets of runs, calls, discoveries
and invocations are finite.

**Fairness.** `CollectBrand!FairSpec`: weak fairness of each pass's own steps and of the deadlock
detector, since a process that is not killed keeps executing and Postgres runs its
detector. `FetchClient!FairSpec`: weak fairness of each call, since the event loop runs ready
tasks, timers fire and httpx's timeouts end every request. `Operations!FairSpec`: weak fairness
of each invocation's steps, locks included. Faults that kill are never fair and need not
happen. `CHECK_DEADLOCK FALSE` stands only in `FetchClient.cfg`: the client stops when its calls
have ended, and that they all do, or are never made, is `CallsEnd`.

**One exclusion.** `CollectSerial` sets `Garbled` to `FALSE`: with listing pages that are
JSON but have no product list, `OnlyUnofferedWithdrawn` fails (below).

### Where the code and its words part

Each is a run that TLC must find violated; the finding in `PROJECT.json` quotes the text.

| Run | Text | Behaviour |
| --- | --- | --- |
| `MidBrandRollback` | collector: a failure rolls back the whole brand | what was stored before a quarantined product stays |
| `DoubleFire` | db: a re-run emits no phantom change | two overlapping runs insert the same rows |
| `ReorderIsNoise` | data-model: reordering an array is no change | entries whose natural keys are equal keep the bank's order |
| `BackupTorn` | db: the counts are what a restore is checked against | rows committed between count and copy are in the file only |

The following were met while modelling and have no run in the list. The first six can
be seen with the modules as they are, by changing the constants or writing down the
sentence:

* `PRODUCT_REAPPEARED` is documented and never emitted; a product that comes back
  unchanged leaves no row (`CollectBrand`).
* With `Garbled = TRUE`, a page without a product list withdraws what it hides (`CollectBrand`).
* A dead endpoint is walked by each gathered call: all have passed the check before the first
  is refused (`FetchClient`, `Kinds = {"detail"}`).
* An object whose fields are all null is stored as `{}`, although empty values are dropped
  elsewhere: it gives a row when it comes or goes, and normalising the stored document once more
  drops it (`normalise.py:98-107`), so history rebuilt from stored documents instead of the raw
  ones (`docs/data-model.md:66-69`) would show a change nobody made (`CanonicalDiff`).
* A payload that `jsonb` refuses raises `psycopg.DataError`, which ends the run for all
  banks (`RunCollection`, `Poison` not empty).
* A window need not hold the instant at which the old document was replaced: an edit
  between the fetch and the transaction's start lies before the next `observed_after`
  (`docs/data-model.md:104-105`); the window of `PRODUCT_ADDED` is empty (`ObservationWindow`).
* Runs and breaker: a ledger statement that fails leaves the run `running`; brands with
  an open circuit get no row although the schema has `skipped_circuit_open`; a 6-hour
  cooldown never outlasts the 12 hours between scheduled runs (`docs/architecture.md:127`);
  `snapshots_new` counts a return to an earlier document, for which no row is inserted.
* Client: a 429's `Retry-After` holds back only the call that got it (`docs/data-use.md:57`).
* Register: the source diff of `register.py:3-5` is never computed; the fallback list
  disables or splits coverage, because its ids are host names; a missing allowlist
  file disables everything silently; an entry with an unusable URI is recorded as having left;
  a unique partial match gives way silently to a newly listed exact name; two crossing upserts
  from different sources leave both active; `enable_brands` reports the rows it touched, not
  those it enabled.
* Normaliser and differ: `balanceRate` is rounded to two places; `"-0"` stays; a trailing
  `null` hashes apart and gives no row; an insertion shifts every later position of an array;
  exactly 200 changes count as truncated.
* Operations: concurrent Lambda runs on an unmigrated schema fail all but one; the restore of
  `docs/operations.md` does not reset sequences and meets rows in `schema_migration`; two
  backups of one second share a prefix.

## 4. What is proved

Every safety invariant and every action property of the passing runs is a theorem, for
every value of the constants that satisfies the named assumption of the module
(`DocumentAssumption`, `PassAssumption`, `WindowAssumption`, `DocumentsAssumption`,
`ClientAssumption`, `RunAssumption`, `DiscoveryAssumption`, `OperationsAssumption`, each evaluated
by TLC too). Each of the eight proof modules has `TypeCorrect`, that is `Spec => []TypeOK`; the rest:

| Theorem | States |
| --- | --- |
| `ChangeFeedProofs!FeedAlwaysReplays` | replaying a product's rows gives the document shown |
| `CollectBrandProofs!FeedExplains` | `Spec => []FeedExplainsState`, overlapping runs included |
| `CollectBrandProofs!SnapshotsReported` | `Spec => []NewSnapshotsReported`, overlapping runs included |
| `CollectBrandProofs!WithdrawnUnoffered` | `~Garbled` implies `Spec => OnlyUnofferedWithdrawn`, overlapping runs included |
| `CollectBrandProofs!SerialImplements`, `!FeedReplaysSerially`, `!CacheAlwaysRebuildable`, `!LedgerAddsUp` | `~Overlap` implies `Spec => ImplementsChangeFeed`, `[]FeedReplays`, `[]CacheRebuildable`, `LedgerAccounts` |
| `ObservationWindowProofs!NewAlwaysWithin`, `!PreviousAlwaysSighted` | `[]NewWithinWindow`, `[]PreviousSighting` |
| `CanonicalDiffProofs!CanonicalAlwaysStable`, `!MeaningAlwaysReported`, `!HeadlineAlwaysExplained`, `!LikeAlwaysWithLike`, `!RowsAlwaysRebuild` | `[]CanonicalStable`, `MeaningReported`, `HeadlineExplained`, `LikeWithLike`, `RowsRebuild` |
| `CanonicalDiffProofs!NoiseNeverReported` | `NoiseUnreported` |
| `FetchClientProofs!NeverReasked`, `!VersionFailuresAlwaysHonest`, `!RequestsAlwaysBounded`, `!HostAlwaysRemembered` | `[]RefusedNotReasked`, `[]VersionFailuresHonest`, `[]RequestsBounded`, `[]HostRemembered` |
| `RunCollectionProofs!LedgersAlwaysAgree`, `!AlwaysOpenOnEvidence`, `!BreakerAlwaysCountsStreak` | `[]LedgersAgree`, `[]OpenOnEvidence`, `[]BreakerCountsStreak` |
| `DiscoveryProofs!EmptyRegistryAlwaysNoticed`, `!AlwaysOneSource` | `[]EmptyRegistryNoticed`, `[]OneSourceAtATime` |
| `DiscoveryProofs!LeavingAlwaysDated`, `!NeverEnabledByGuess`, `!LossesAlwaysExplained` | `LeftDated`, `NeverGuessed`, `LossesExplained` |
| `OperationsProofs!AlwaysMigratedOnce`, `!AlwaysOnNewestSchema`, `!BackupAlwaysKeepsPast` | `[]MigratedOnce`, `[]RunsOnNewestSchema`, `[]BackupKeepsPast` |

**The hypotheses.** Both conditions are needed: with `Overlap = TRUE` or `Garbled = TRUE`
TLC finds each of the properties violated. With `Overlap`, two runs insert
the same rows (`DoubleFire`), the later commit may put an older document in the place of a newer one,
and a run's products are last seen by the other before its ledger row is written. With `Garbled`, a
page without a product list withdraws what it hides.

The arguments, component by component:

* **Feed.** A diff is empty or one event that starts at the document shown and ends
  at the next (`DiffShape`). `AppendKeepsReplay` follows a product's rows through one
  commit; `FeedReplays` is inductive together with the types.
* **Explanation under overlap.** `FeedExplainsState` is not inductive: a commit may
  write a change computed from a document that is no longer current. `ExplainInv`
  adds `ReadsAnnounced`: whatever a pass has read and holds, or has written into its open
  transaction, was announced in the feed when it was read, and rows are
  never removed. Then a commit either announces the new document itself or its
  diff was empty, and the new document reads like one already announced.
* **Refinement.** `SerialInv`: at most one pass is under way, and what it holds, has
  written and takes to be known still agrees with the tables. Then `FlushPublishes` shows
  that a commit is one `Publish`; all other steps stutter. With overlap neither holds,
  as `DoubleFire` shows.
* **Replay of the collector** follows: `ChangeFeedProofs` is instantiated with the
  collector's tables, and its theorem carries over through the refinement.
* **What a pass reports.** `ReportInv`, overlap or not: the snapshots a run has committed
  together with those of its open transaction are no more than it has counted, and the row it
  leaves is no less; a rollback only takes away. It needs that what a pass has read is a snapshot
  (`ReadsStored`), because the count is decided on what was read, the insertion on what is there.
* **Withdrawals.** `WithdrawInv`: what a pass takes off sale was known before and is not in its
  listing. A failed or quarantined detail leaves the listing as it is, which is the point.
* **The cache.** `CacheInv`: for each product the current document is the one seen last, by a
  run that no other run follows, and a run writes a product at most once (`StoresOnce`), to a
  time later than all that are committed. Returning to an earlier document moves its snapshot's
  last sighting, so the latest one stays unique.
* **The pass's ledger.** `LedgerInv` counts, at each program counter, what became of the products
  listed: the failed, the quarantined, the stored, those in the open transaction and those
  still to do. A raise loses the open transaction, so there it is an inequality.
* **Windows.** `WindowInv` says, of the committed tables and of the open transaction's
  view alike, that the current document was sighted, that it was sighted no later than its
  `last_seen_at`, and that neither lies ahead of the clock (`TablesSound`); that a
  detail in hand was published when it was fetched (`DetailSound`); and that a product
  not listed was not published at the listing (`AbsenceSound`). Fetch, transaction start and
  call are then three ordered instants, whatever ran between them.
* **Payloads.** `Sorted` is defined by places: an entry's place is one more than the number of
  entries that go before it. `SortPermutes` counts them: the places are distinct and
  within the length, hence every place is taken (`FS_Injection`), and no induction over
  sequences is needed. It follows that sorting is a stable permutation (`SortOrders`,
  `SortKeeps`), that normalising keeps meaning and is idempotent but for a `{}` (`MeaningKept`,
  `CanonicalKept`), and that entries with distinct keys have one order only (`KeyPosition`,
  `SameEntries`), which gives `NoiseNeverReported` and `LikeAlwaysWithLike`. `WalkComplete` says that
  documents without rows are equal; `WalkRebuilds` patches the old document part by part,
  entry by entry (`ArrayPatched`), and arrives at the new one. The invariant is `DocInv`: payload
  and snapshot are documents within the bounds, and the snapshot is canonical.
* **Client.** `ClientInv`: what a call was refused, the bank does not serve, and it lies in the
  walk (`WalkSet`); what it is about to ask is in the walk or known to be served, and was
  not refused; a dead mark means that nothing in the walk is served; requests are retries plus
  refusals plus the one that is out. The refused versions and the one being asked are distinct
  members of the walk, which bounds their number. `LineInv`: the line has each call that waits or
  asks in one place, and no other, so no call keeps a slot after it has ended or while it sleeps.
  `HostInv`: a call that has begun was made after those of the earlier brands were over and is not
  one that its brand has given up, so while a call is under way those after it have not begun, and
  when they begin they see what it left in the caches.
* **Ledgers.** `LedgerInv` relates the totals of a run to the rows of the brands that it has
  dealt with, at each of its program counters. For the breaker, `EvidenceInv` says that a brand's
  failure count never exceeds the number of runs that wrote a failed row and have told the
  breaker: two runs that rate the brand at once, or one that dies between the row and the rating,
  only make the count fall behind. `StreakInv`: without overlap runs start in order and the
  one under way is the latest, so a success it has rated is later than every failure that the
  breaker still counts.
* **Discovery.** `BaseInv` relates the brand table to the clock, to what each call holds and to
  what each open transaction has marked; two open transactions never mark the same brand, since
  the second waits for the row (`Apart`). `SourceInv`: until two upserts cross, the one under way
  has marked all that is active and not in its listing, so it replaces one source by the other.
  `NeverGuessed` and the half of `LossesExplained` about selections are about
  `resolve_allowlist`: they follow from its three grades of fit and from the finiteness of a
  listing, in which one candidate means one brand. The half about departures needs that marks are
  made by a listing with brands and are of active ones (`Holds`).
* **Migrations and backups.** `MigrateInv`: the recorded files are a prefix of the list; what a
  process has read is recorded, what it has run is not, and no two processes have run the
  same file; a run has read nothing but complete schemas. `BackupInv`: rows
  are only added, so what was there at the beginning is in every copy taken later, and
  no count exceeds its copy.

That every non-empty set of naturals has a least member, which `sorted` and the greatest version
rely on, is derived from the well-foundedness of `<` (`LeastNatural`, `Lowest`), not assumed. Three
operators have the form the prover can follow: `Usable` keeps the usable entries at their places
instead of closing up the list, whose order nothing reads; `Without` removes a call from the line by
its place; `Size` is the cardinality of the set of all places.

**Only model-checked**: the liveness properties `PassesEnd`, `CallsEnd` and `InvocationsEnd`. They are
beyond the prover, which does no liveness under fairness and no `ENABLED`. What the four runs
that must fail show is a counterexample and has nothing to prove.

## 5. What is not modelled, and why

* **Calls that outlive their brand.** When `gather` raises, the other detail calls go on using
  slots while the next brand is collected; in `FetchClient` a brand's calls are over when the
  next brand's are made. Brands of one host that are not served alike, whose shared caches would
  mislead each other, are left out too. How many pages a listing has is not decided in
  `FetchClient` (a listing that ends early is one of fewer calls); in `CollectBrand` the listing is
  one step, `ListProducts`.
* **Payload detail.** The lists of field names, arrays within arrays and `delta_bps` are left out of
  `CanonicalDiff`, and SHA-256 is taken as injective. What `normalise_product` rejects is an outcome of
  `CollectBrand`.
* **Abstracted throughout**: names, rates, wording, HTTP and JSON syntax, how a 406 body is parsed,
  the length of waits, the content of `error_detail`, and clock skew between the process and
  Postgres (which could make a window negative).
* **Read-only code**: `list_brands`, the warnings of the health query, the reports and `probe` of the
  command line. They count tables and change nothing.
* **Outside the program**: configuration and logging (settings are the constants), Terraform, Docker
  and dashboards; the schedule's interval is taken from them. A restore is a manual procedure.

What would come next: in the client, the calls that a raising `gather` leaves behind, and
brands of one host that serve different versions.

## 6. Running it

    tlc -config CollectSerial.cfg MCCollectBrand.tla      # and the other runs of PROJECT.json
    tlapm CollectBrandProofs.tla                          # and the other proof modules

`CollectOverlap`, `RunsLedger`, `CanonicalDiff`, `FetchClient` and `Discovery` take a minute or two with two workers, the other runs
less; the proofs take about eight minutes together.
