----------------------------- MODULE Operations -----------------------------
(***************************************************************************)
(* handler.handler: Lambda invocations that collect, migrate and back up   *)
(* one database, some of them at the same time - a schedule that fires     *)
(* twice, a retry, an operator - and any of them killed at any statement.  *)
(*                                                                         *)
(* Of a collection only the commits are modelled, with one brand; the rest *)
(* of it is RunCollection and CollectBrand.  A transaction sees what is    *)
(* committed when each of its statements begins, and keeps its table locks *)
(* until it ends.                                                          *)
(***************************************************************************)
EXTENDS Naturals, Sequences, FiniteSets

CONSTANTS
    Invocations,    \* invocations of the function
    Requests,       \* what they may be asked for: see Commands
    Files,          \* the migration files, in the order of their names
    Alters          \* the tables each of them alters

\* VALID_COMMANDS; discover is Discovery's.
Commands == {"collect", "migrate", "backup"}

\* BACKUP_TABLES, without those that add no case; in its order.
Tables == <<"schema_migration", "collection_run", "collection_run_brand",
            "product_change">>
TableNames == {Tables[n] : n \in DOMAIN Tables}
FileNames == {Files[n] : n \in DOMAIN Files}

ASSUME OperationsAssumption ==
    /\ IsFiniteSet(Invocations)
    /\ Requests \subseteq [Invocations -> Commands]
    /\ Files \in Seq(FileNames) /\ Files # << >>
    /\ \A m, n \in DOMAIN Files : Files[m] = Files[n] => m = n
    /\ FileNames \cap Invocations = {}
    /\ Alters \in [FileNames -> SUBSET TableNames]

VARIABLES
    rows,       \* the committed rows of each table: a file, or who wrote it
    executed,   \* how often each file's statements have been committed
    command,    \* what each invocation is asked for
    pc,         \* where it is
    done,       \* the files its migrate found recorded
    ran,        \* the files its open transaction has executed
    at,         \* index of the table its backup is at
    counts,     \* counts of its row_counts
    files,      \* the rows in the file it has put for each table
    manifest,   \* it has put its manifest
    past        \* the rows there were when its backup began

vars == <<rows, executed, command, pc, done, ran, at, counts, files, manifest, past>>
backup == <<at, counts, files, manifest, past>>

Recorded == rows["schema_migration"]
Ended == {"finished", "failed"}
-----------------------------------------------------------------------------
\* A database at some version of the schema.
Init ==
    /\ \E n \in 0 .. Len(Files) :
        LET old == {Files[m] : m \in 1 .. n} IN
        /\ rows = [t \in TableNames |-> IF t = "schema_migration" THEN old ELSE {}]
        /\ executed = [f \in FileNames |-> IF f \in old THEN 1 ELSE 0]
    /\ command \in Requests
    /\ pc = [i \in Invocations |-> "invoked"]
    /\ done = [i \in Invocations |-> {}]
    /\ ran = [i \in Invocations |-> {}]
    /\ at = [i \in Invocations |-> 1]
    /\ counts = [i \in Invocations |-> << >>]
    /\ files = [i \in Invocations |-> << >>]
    /\ manifest = [i \in Invocations |-> FALSE]
    /\ past = [i \in Invocations |-> << >>]

\* Mutant: the connection of an invocation that failed stays open.
FailOpen(i) ==
    /\ pc' = [pc EXCEPT ![i] = "failed"]
    /\ UNCHANGED <<rows, executed, command, done, ran, backup>>

\* The invocation raises or is killed: its open transaction is rolled back.
Fail(i) ==
    /\ pc' = [pc EXCEPT ![i] = "failed"]
    /\ ran' = [ran EXCEPT ![i] = {}]
    /\ done' = [done EXCEPT ![i] = {}]
    /\ UNCHANGED <<rows, executed, command, backup>>

Killed(i) == pc[i] \notin Ended /\ Fail(i)
-----------------------------------------------------------------------------
(* db.migrate, for the commands collect and migrate.                       *)

\* Which files are recorded; the rest of migrate is one transaction.
ReadRecorded(i) ==
    /\ pc[i] = "invoked" /\ command[i] # "backup"
    /\ done' = [done EXCEPT ![i] = Recorded]
    /\ pc' = [pc EXCEPT ![i] = "migrating"]
    /\ UNCHANGED <<rows, executed, command, ran, backup>>

\* The next file not yet recorded, in the order of names.
Unapplied(i) == {n \in DOMAIN Files : Files[n] \notin done[i] \cup ran[i]}
NextFile(i) == Files[CHOOSE n \in Unapplied(i) : \A m \in Unapplied(i) : n <= m]

\* A backup that has read a table keeps it from being altered.
Reading(t) ==
    \E i \in Invocations :
        \/ pc[i] = "copying"
        \/ pc[i] = "counting" /\ t \in {Tables[n] : n \in 1 .. at[i] - 1}

\* Mutant: a file another process has recorded in the meantime is no error.
ApplyFileAgain(i) ==
    /\ pc[i] = "migrating" /\ Unapplied(i) # {}
    /\ \A j \in Invocations : NextFile(i) \notin ran[j]
    /\ \A t \in Alters[NextFile(i)] : ~Reading(t)
    /\ ran' = [ran EXCEPT ![i] = @ \cup {NextFile(i)}]
    /\ UNCHANGED <<rows, executed, command, pc, done, backup>>

\* The statements of the file and its schema_migration row.  They wait for a
\* transaction that is at the same file, and fail on its row when it commits.
\* (CREATE TABLE schema_migration itself, on an empty database, does the same.)
ApplyFile(i) ==
    /\ pc[i] = "migrating" /\ Unapplied(i) # {}
    /\ \A j \in Invocations : NextFile(i) \notin ran[j]
    /\ \A t \in Alters[NextFile(i)] : ~Reading(t)
    /\ IF NextFile(i) \in Recorded THEN Fail(i)
       ELSE /\ ran' = [ran EXCEPT ![i] = @ \cup {NextFile(i)}]
            /\ UNCHANGED <<rows, executed, command, pc, done, backup>>

\* Mutant: migrate leaves the commit to its caller.
CommitMigrationsLater(i) ==
    /\ pc[i] = "migrating" /\ Unapplied(i) = {}
    /\ pc' = [pc EXCEPT ![i] = IF command[i] = "collect" THEN "migrated" ELSE "finished"]
    /\ UNCHANGED <<rows, executed, command, done, ran, backup>>

\* migrate's commit.
CommitMigrations(i) ==
    /\ pc[i] = "migrating" /\ Unapplied(i) = {}
    /\ rows' = [rows EXCEPT !["schema_migration"] = @ \cup ran[i]]
    /\ executed' = [f \in FileNames |-> executed[f] + IF f \in ran[i] THEN 1 ELSE 0]
    /\ ran' = [ran EXCEPT ![i] = {}]
    /\ pc' = [pc EXCEPT ![i] = IF command[i] = "collect" THEN "migrated" ELSE "finished"]
    /\ done' = [done EXCEPT ![i] = {}]
    /\ UNCHANGED <<command, backup>>
-----------------------------------------------------------------------------
(* run_collection, commit by commit.                                       *)

\* A table an open transaction has altered is not to be had.
Altered(t) == \E i \in Invocations : \E f \in ran[i] : t \in Alters[f]

Insert(i, tables, from, to) ==
    /\ pc[i] = from
    /\ \A t \in tables : ~Altered(t)
    /\ rows' = [t \in TableNames |-> IF t \in tables THEN rows[t] \cup {i} ELSE rows[t]]
    /\ pc' = [pc EXCEPT ![i] = to]
    /\ UNCHANGED <<executed, command, done, ran, backup>>

\* Mutant: the schema is taken to be up to date.
StartRunAtOnce(i) ==
    /\ command[i] = "collect"
    /\ Insert(i, {"collection_run"}, "invoked", "running")

\* db.start_run.
StartRun(i) == Insert(i, {"collection_run"}, "migrated", "running")

\* The brand's commit, then record_run_brand's.
StoreBrand(i) == Insert(i, {"product_change"}, "running", "stored")
RecordBrand(i) == Insert(i, {"collection_run_brand"}, "stored", "finished")
-----------------------------------------------------------------------------
(* _backup: row_counts, then a copy of each table, on one connection.      *)

BeginBackup(i) ==
    /\ pc[i] = "invoked" /\ command[i] = "backup"
    /\ past' = [past EXCEPT ![i] = rows]
    /\ pc' = [pc EXCEPT ![i] = "counting"]
    /\ UNCHANGED <<rows, executed, command, done, ran, at, counts, files, manifest>>

Proceed(i, next) ==
    /\ at' = [at EXCEPT ![i] = IF @ = Len(Tables) THEN 1 ELSE @ + 1]
    /\ pc' = [pc EXCEPT ![i] = IF at[i] = Len(Tables) THEN next ELSE @]

\* SELECT count(*); without the first file there are no tables.
CountRows(i) ==
    /\ pc[i] = "counting"
    /\ ~Altered(Tables[at[i]])
    /\ IF Files[1] \notin Recorded THEN Fail(i)
       ELSE /\ counts' = [counts EXCEPT ![i] = Append(@, Cardinality(rows[Tables[at[i]]]))]
            /\ Proceed(i, "copying")
            /\ UNCHANGED <<rows, executed, command, done, ran, files, manifest, past>>

\* Mutant: the manifest is put with the first file.
CopyTableManifest(i) ==
    /\ pc[i] = "copying"
    /\ files' = [files EXCEPT ![i] = Append(@, rows[Tables[at[i]]])]
    /\ manifest' = [manifest EXCEPT ![i] = TRUE]
    /\ Proceed(i, "copied")
    /\ UNCHANGED <<rows, executed, command, done, ran, counts, past>>

\* COPY ... TO STDOUT, and put_object of the file.
CopyTable(i) ==
    /\ pc[i] = "copying"
    /\ files' = [files EXCEPT ![i] = Append(@, rows[Tables[at[i]]])]
    /\ Proceed(i, "copied")
    /\ UNCHANGED <<rows, executed, command, done, ran, counts, manifest, past>>

\* put_object of the manifest, after the connection is closed.
PutManifest(i) ==
    /\ pc[i] = "copied"
    /\ manifest' = [manifest EXCEPT ![i] = TRUE]
    /\ pc' = [pc EXCEPT ![i] = "finished"]
    /\ UNCHANGED <<rows, executed, command, done, ran, at, counts, files, past>>
-----------------------------------------------------------------------------
Step(i) ==
    \/ ReadRecorded(i) \/ ApplyFile(i) \/ CommitMigrations(i)
    \/ StartRun(i) \/ StoreBrand(i) \/ RecordBrand(i)
    \/ BeginBackup(i) \/ CountRows(i) \/ CopyTable(i) \/ PutManifest(i)

AllEnded == \A i \in Invocations : pc[i] \in Ended
Idle == AllEnded /\ UNCHANGED vars

Next == Idle \/ \E i \in Invocations : Step(i) \/ Killed(i)
Spec == Init /\ [][Next]_vars

\* A process runs on, and Postgres lets a waiting transaction through.
FairSpec == Spec /\ \A i \in Invocations : WF_vars(Step(i))
-----------------------------------------------------------------------------
Ids == FileNames \cup Invocations
TypeOK ==
    /\ rows \in [TableNames -> SUBSET Ids]
    /\ executed \in [FileNames -> Nat]
    /\ command \in Requests
    /\ pc \in [Invocations -> Ended \cup {"invoked", "migrating", "migrated", "running",
                                          "stored", "counting", "copying", "copied"}]
    /\ done \in [Invocations -> SUBSET FileNames]
    /\ ran \in [Invocations -> SUBSET FileNames]
    /\ \A i \in Invocations : ran[i] # {} => pc[i] = "migrating"
    /\ at \in [Invocations -> DOMAIN Tables]
    /\ \A i \in Invocations :
        /\ counts[i] \in Seq(Nat) /\ Len(counts[i]) <= Len(Tables)
        /\ files[i] \in Seq(SUBSET Ids) /\ Len(files[i]) <= Len(Tables)
    /\ manifest \in [Invocations -> BOOLEAN]

\* However many processes migrate at once, each file takes effect once and is on
\* record exactly when it has, and no file before its predecessors.
MigratedOnce ==
    /\ \A f \in FileNames : executed[f] = IF f \in Recorded THEN 1 ELSE 0
    /\ \A m, n \in DOMAIN Files : m < n /\ Files[n] \in Recorded => Files[m] \in Recorded

\* A run of the Lambda writes to the newest schema only, also when its migrate
\* raced another one, failed, or was killed half way.
RunsOnNewestSchema ==
    \A i \in Invocations :
        (\E t \in TableNames : i \in rows[t]) => FileNames \subseteq Recorded

\* A backup with a manifest is complete, and loses nothing that was there when it
\* began, nor less than the manifest counts, whatever runs meanwhile.
BackupKeepsPast ==
    \A i \in Invocations : manifest[i] =>
        /\ Len(files[i]) = Len(Tables)
        /\ \A n \in DOMAIN Tables :
            /\ past[i][Tables[n]] \subseteq files[i][n]
            /\ counts[i][n] <= Cardinality(files[i][n])

\* No wait for a lock is for ever: every invocation ends.
InvocationsEnd == <>AllEnded
-----------------------------------------------------------------------------
(* What the documents say and the code does not do.                        *)

\* "these counts are what a restore is checked against" (db.row_counts): the
\* files of a backup have the rows its manifest says.
RestoreVerifies ==
    \A i \in Invocations : manifest[i] =>
        \A n \in DOMAIN Tables : Cardinality(files[i][n]) = counts[i][n]
=============================================================================
