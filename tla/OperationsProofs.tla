-------------------------- MODULE OperationsProofs --------------------------
(***************************************************************************)
(* Proofs about Operations, for any number of invocations, any migration   *)
(* files and any tables these alter.  MigratedOnce rests on what a migrate  *)
(* under way knows: the files it found recorded still are, its own are not, *)
(* and nobody else is at them.                                              *)
(***************************************************************************)
EXTENDS Operations, FiniteSetTheorems, WellFoundedInduction, TLAPS

\* The parts of TypeOK that concern migrations and runs, and more precisely.
MigrateTypes ==
    /\ rows \in [TableNames -> SUBSET Ids]
    /\ Recorded \subseteq FileNames
    /\ executed \in [FileNames -> Nat]
    /\ pc \in [Invocations -> Ended \cup {"invoked", "migrating", "migrated", "running",
                                          "stored", "counting", "copying", "copied"}]
    /\ done \in [Invocations -> SUBSET FileNames]
    /\ ran \in [Invocations -> SUBSET FileNames]
    /\ \A i \in Invocations : ran[i] # {} => pc[i] = "migrating"

\* The files of a set come in order, none left out.
Prefix(set) == \A m, n \in DOMAIN Files : m < n /\ Files[n] \in set => Files[m] \in set

MigrateKnows ==
    /\ \A i \in Invocations : pc[i] = "migrating" =>
        /\ done[i] \subseteq Recorded
        /\ Prefix(done[i] \cup ran[i])
        /\ ran[i] \cap Recorded = {}
    /\ \A i, j \in Invocations : i # j => ran[i] \cap ran[j] = {}

\* A run is past its migrate.
RunKnows ==
    \A i \in Invocations :
        pc[i] \in {"migrated", "running", "stored"} \/ (\E t \in TableNames : i \in rows[t]) =>
            FileNames \subseteq Recorded

MigrateInv == MigrateTypes /\ MigratedOnce /\ MigrateKnows /\ RunKnows
-----------------------------------------------------------------------------
LEMMA TableNamesShape == "schema_migration" \in TableNames
  <1>1. 1 \in DOMAIN Tables /\ Tables[1] = "schema_migration"
    BY SMT DEF Tables
  <1> QED
    BY <1>1, Zenon DEF TableNames

LEMMA LeastNatural ==
    ASSUME NEW S \in SUBSET Nat, S # {}
    PROVE  \E n \in S : \A m \in S : n <= m
  <1>1. PICK n \in S : \A m \in S : ~(<<m, n>> \in OpToRel(<, Nat))
    BY NatLessThanWellFounded, WFMin, Zenon
  <1>2. \A m \in S : ~(m < n)
    <2> SUFFICES ASSUME NEW m \in S, m < n PROVE FALSE
      OBVIOUS
    <2>1. <<m, n>> \in Nat \X Nat /\ <<m, n>>[1] = m /\ <<m, n>>[2] = n
      OBVIOUS
    <2> DEFINE pair == <<m, n>>
    <2>2. pair \in Nat \X Nat /\ pair[1] < pair[2]
      BY <2>1
    <2> HIDE DEF pair
    <2>3. pair \in OpToRel(<, Nat)
      BY <2>2, Zenon DEF OpToRel
    <2> QED
      BY <1>1, <2>3 DEF pair
  <1> QED
    BY <1>2, SMT

\* The file a migrate is at next is the first that is missing.
LEMMA NextFileShape ==
    ASSUME NEW i \in Invocations, Unapplied(i) # {}
    PROVE  \E n \in DOMAIN Files :
             /\ NextFile(i) = Files[n]
             /\ Files[n] \notin done[i] \cup ran[i]
             /\ \A m \in DOMAIN Files : m < n => Files[m] \in done[i] \cup ran[i]
  <1>1. Unapplied(i) \subseteq Nat
    BY OperationsAssumption, SMT DEF Unapplied
  <1>2. \E n \in Unapplied(i) : \A m \in Unapplied(i) : n <= m
    BY <1>1, LeastNatural
  <1> QED
    BY <1>1, <1>2, SMT DEF NextFile, Unapplied

LEMMA InitInv == Init => MigrateInv
  <1> SUFFICES ASSUME Init PROVE MigrateInv
    OBVIOUS
  <1>1. PICK n \in 0 .. Len(Files) :
           /\ rows = [t \in TableNames |-> IF t = "schema_migration"
                                           THEN {Files[m] : m \in 1 .. n} ELSE {}]
           /\ executed = [f \in FileNames |-> IF f \in {Files[m] : m \in 1 .. n} THEN 1 ELSE 0]
    BY DEF Init
  <1> DEFINE old == {Files[m] : m \in 1 .. n}
  <1>2. Recorded = old
    BY <1>1, TableNamesShape, Zenon DEF Recorded
  <1>3. \A m \in 1 .. n : m \in DOMAIN Files
    BY OperationsAssumption, SMT
  <1>4. old \subseteq FileNames
    BY <1>3, Zenon DEF FileNames
  <1>5. \A m \in DOMAIN Files : Files[m] \in old => m <= n
    BY <1>3, OperationsAssumption, SMT
  <1>6. Prefix(old)
    BY <1>5, OperationsAssumption, SMT DEF Prefix
  <1> HIDE DEF old
  <1>7. MigrateTypes
    <2>1. executed \in [FileNames -> Nat]
      BY <1>1, SMT DEF old
    <2>2. rows \in [TableNames -> SUBSET Ids]
      BY <1>1, <1>4, SMT DEF Ids, old
    <2> QED
      BY <1>2, <1>4, <2>1, <2>2, SMT DEF Init, MigrateTypes
  <1>8. MigratedOnce
    BY <1>1, <1>2, <1>6, SMT DEF MigratedOnce, Prefix, old
  <1>9. MigrateKnows
    BY SMT DEF Init, MigrateKnows
  <1>10. RunKnows
    <2>1. \A i \in Invocations, t \in TableNames : i \notin rows[t]
      BY <1>1, <1>4, OperationsAssumption, Zenon DEF old
    <2> QED
      BY <2>1, SMT DEF Init, RunKnows
  <1> QED
    BY <1>7, <1>8, <1>9, <1>10 DEF MigrateInv

\* A step that leaves the tables, the files and the migrates alone.
LEMMA OutsideInv ==
    ASSUME MigrateInv, NEW i \in Invocations, NEW to,
           UNCHANGED <<rows, executed, done, ran>>,
           pc' = [pc EXCEPT ![i] = to], pc[i] # "migrating",
           to \in Ended \cup {"counting", "copying", "copied"} \/ to = pc[i]
    PROVE  MigrateInv'
  <1>1. MigrateTypes'
    BY SMT DEF MigrateInv, MigrateTypes, Recorded, Ended
  <1>2. MigratedOnce'
    BY DEF MigrateInv, MigratedOnce, Recorded
  <1>3. MigrateKnows'
    BY SMT DEF MigrateInv, MigrateTypes, MigrateKnows, Recorded, Prefix, Ended
  <1>4. RunKnows'
    BY SMT DEF MigrateInv, MigrateTypes, RunKnows, Recorded, Ended
  <1> QED
    BY <1>1, <1>2, <1>3, <1>4 DEF MigrateInv

LEMMA FailInv ==
    ASSUME MigrateInv, NEW i \in Invocations, Fail(i)
    PROVE  MigrateInv'
  <1>1. MigrateTypes'
    BY SMT DEF MigrateInv, MigrateTypes, Fail, Recorded, Ended
  <1>2. MigratedOnce'
    BY DEF MigrateInv, MigratedOnce, Fail, Recorded
  <1>3. MigrateKnows'
    BY SMT DEF MigrateInv, MigrateTypes, MigrateKnows, Fail, Recorded, Prefix
  <1>4. RunKnows'
    BY SMT DEF MigrateInv, MigrateTypes, RunKnows, Fail, Recorded
  <1> QED
    BY <1>1, <1>2, <1>3, <1>4 DEF MigrateInv

LEMMA ReadRecordedInv ==
    ASSUME MigrateInv, NEW i \in Invocations, ReadRecorded(i)
    PROVE  MigrateInv'
  <1>1. ran[i] = {}
    BY SMT DEF MigrateInv, MigrateTypes, ReadRecorded
  <1>2. Prefix(Recorded)
    BY DEF MigrateInv, MigratedOnce, Prefix
  <1>3. MigrateTypes'
    BY SMT DEF MigrateInv, MigrateTypes, ReadRecorded, Recorded, Ended
  <1>4. MigratedOnce'
    BY DEF MigrateInv, MigratedOnce, ReadRecorded, Recorded
  <1>5. MigrateKnows'
    BY <1>1, <1>2, SMT DEF MigrateInv, MigrateTypes, MigrateKnows, ReadRecorded, Recorded, Prefix
  <1>6. RunKnows'
    BY SMT DEF MigrateInv, MigrateTypes, RunKnows, ReadRecorded, Recorded
  <1> QED
    BY <1>3, <1>4, <1>5, <1>6 DEF MigrateInv

\* A file is executed only by the transaction that is at it, when it is not on
\* record: which is what the primary key of schema_migration is for.
LEMMA ApplyFileInv ==
    ASSUME MigrateInv, NEW i \in Invocations, ApplyFile(i)
    PROVE  MigrateInv'
  <1> DEFINE next == NextFile(i)
  <1>1. pc[i] = "migrating" /\ Unapplied(i) # {} /\ \A j \in Invocations : next \notin ran[j]
    BY DEF ApplyFile
  <1>2. CASE next \in Recorded
    BY <1>2, FailInv DEF ApplyFile
  <1>3. CASE next \notin Recorded
    <2>1. /\ ran' = [ran EXCEPT ![i] = @ \cup {next}]
          /\ UNCHANGED <<rows, executed, pc, done>>
      BY <1>3 DEF ApplyFile
    <2>2. PICK n \in DOMAIN Files :
             /\ next = Files[n]
             /\ \A m \in DOMAIN Files : m < n => Files[m] \in done[i] \cup ran[i]
      BY <1>1, NextFileShape
    <2>3. next \in FileNames
      BY <2>2, Zenon DEF FileNames
    <2> HIDE DEF next
    <2>4. MigrateTypes'
      BY <1>1, <2>1, <2>3, SMT DEF MigrateInv, MigrateTypes, Recorded
    <2>5. MigratedOnce'
      BY <2>1 DEF MigrateInv, MigratedOnce, Recorded
    <2>6. Prefix(done[i] \cup ran[i])
      BY <1>1 DEF MigrateInv, MigrateKnows
    <2>7. Prefix(done[i] \cup ran[i] \cup {next})
      BY <2>2, <2>6, OperationsAssumption, SMT DEF Prefix
    <2>8. MigrateKnows'
      <3>1. ran' = [j \in Invocations |-> IF j = i THEN ran[i] \cup {next} ELSE ran[j]]
        <4>1. ran \in [Invocations -> SUBSET FileNames]
          BY DEF MigrateInv, MigrateTypes
        <4> QED
          BY <2>1, <4>1, Zenon
      <3>2. ASSUME NEW j \in Invocations, pc'[j] = "migrating"
            PROVE  /\ done'[j] \subseteq Recorded' /\ Prefix(done'[j] \cup ran'[j])
                   /\ ran'[j] \cap Recorded' = {}
        <4>1. CASE j = i
          <5>1. done'[j] \cup ran'[j] = done[i] \cup ran[i] \cup {next}
            BY <2>1, <3>1, <4>1, SMT
          <5>2. Prefix(done'[j] \cup ran'[j])
            BY <2>7, <5>1
          <5>3. done[i] \subseteq Recorded /\ ran[i] \cap Recorded = {}
            BY <1>1 DEF MigrateInv, MigrateKnows
          <5>4. Recorded' = Recorded /\ next \notin Recorded
            BY <1>3, <2>1 DEF Recorded, next
          <5>5. ran'[j] \cap Recorded' = {}
            BY <3>1, <4>1, <5>3, <5>4, SMT
          <5>6. done'[j] \subseteq Recorded'
            BY <2>1, <4>1, <5>3, <5>4
          <5> QED
            BY <5>2, <5>5, <5>6
        <4>2. CASE j # i
          <5>1. done'[j] = done[j] /\ ran'[j] = ran[j] /\ pc[j] = "migrating"
            BY <2>1, <3>1, <3>2, <4>2, SMT
          <5> QED
            BY <2>1, <5>1 DEF MigrateInv, MigrateKnows, Recorded
        <4> QED
          BY <4>1, <4>2
      <3>3. \A j, k \in Invocations : j # k => ran'[j] \cap ran'[k] = {}
        BY <1>1, <3>1, SMT DEF MigrateInv, MigrateKnows, next
      <3> QED
        BY <3>2, <3>3 DEF MigrateKnows, Prefix
    <2>9. RunKnows'
      BY <2>1 DEF MigrateInv, RunKnows, Recorded
    <2> QED
      BY <2>4, <2>5, <2>8, <2>9 DEF MigrateInv
  <1> QED
    BY <1>2, <1>3

LEMMA CommitMigrationsInv ==
    ASSUME MigrateInv, NEW i \in Invocations, CommitMigrations(i)
    PROVE  MigrateInv'
  <1>1. /\ MigrateTypes /\ MigratedOnce /\ MigrateKnows /\ RunKnows
        /\ pc[i] = "migrating" /\ Unapplied(i) = {}
    BY DEF MigrateInv, CommitMigrations
  <1>2. /\ Recorded' = Recorded \cup ran[i]
        /\ \A t \in TableNames : t # "schema_migration" => rows'[t] = rows[t]
        /\ rows' \in [TableNames -> SUBSET Ids]
    <2>1. Recorded \subseteq Ids /\ ran[i] \subseteq Ids
      BY <1>1, SMT DEF MigrateTypes, Ids
    <2> QED
      BY <1>1, <2>1, TableNamesShape, SMT DEF CommitMigrations, MigrateTypes, Recorded
  <1>3. PICK to \in {"migrated", "finished"} : pc' = [pc EXCEPT ![i] = to]
    BY DEF CommitMigrations
  <1>4. /\ ran' = [ran EXCEPT ![i] = {}] /\ done' = [done EXCEPT ![i] = {}]
        /\ executed' = [f \in FileNames |-> executed[f] + IF f \in ran[i] THEN 1 ELSE 0]
    BY DEF CommitMigrations
  <1>5. FileNames \subseteq Recorded'
    <2>1. \A n \in DOMAIN Files : Files[n] \in done[i] \cup ran[i]
      BY <1>1 DEF Unapplied
    <2>2. FileNames \subseteq done[i] \cup ran[i]
      BY <2>1, Zenon DEF FileNames
    <2> QED
      BY <1>1, <1>2, <2>2, Zenon DEF MigrateKnows
  <1>6. MigrateTypes'
    <2>1. Recorded' \subseteq FileNames
      BY <1>1, <1>2, SMT DEF MigrateTypes
    <2>2. executed' \in [FileNames -> Nat]
      BY <1>1, <1>4, SMT DEF MigrateTypes
    <2>3. /\ ran' \in [Invocations -> SUBSET FileNames]
          /\ done' \in [Invocations -> SUBSET FileNames]
      BY <1>1, <1>4, SMT DEF MigrateTypes
    <2>4. \A j \in Invocations : ran'[j] # {} => pc'[j] = "migrating"
      BY <1>1, <1>3, <1>4, SMT DEF MigrateTypes
    <2>5. pc' \in [Invocations -> Ended \cup {"invoked", "migrating", "migrated", "running",
                                              "stored", "counting", "copying", "copied"}]
      BY <1>1, <1>3, SMT DEF MigrateTypes, Ended
    <2> QED
      BY <1>2, <2>1, <2>2, <2>3, <2>4, <2>5, Zenon DEF MigrateTypes
  <1>7. MigratedOnce'
    <2>1. \A f \in FileNames : executed'[f] = IF f \in Recorded' THEN 1 ELSE 0
      <3> SUFFICES ASSUME NEW f \in FileNames
                   PROVE  executed'[f] = IF f \in Recorded' THEN 1 ELSE 0
        OBVIOUS
      <3>1. executed[f] = IF f \in Recorded THEN 1 ELSE 0
        BY <1>1 DEF MigratedOnce
      <3>2. f \in ran[i] => f \notin Recorded
        BY <1>1, Zenon DEF MigrateKnows
      <3>3. executed'[f] = executed[f] + IF f \in ran[i] THEN 1 ELSE 0
        BY <1>4
      <3>4. f \in Recorded' <=> f \in Recorded \/ f \in ran[i]
        BY <1>2
      <3> QED
        BY <3>1, <3>2, <3>3, <3>4, SMT
    <2>2. \A n \in DOMAIN Files : Files[n] \in Recorded'
      BY <1>5, Zenon DEF FileNames
    <2> QED
      BY <2>1, <2>2 DEF MigratedOnce
  <1>8. MigrateKnows'
    <2>1. ASSUME NEW j \in Invocations, pc'[j] = "migrating"
          PROVE  /\ j # i /\ pc[j] = "migrating" /\ done'[j] = done[j] /\ ran'[j] = ran[j]
      BY <1>1, <1>3, <1>4, <2>1, SMT DEF MigrateTypes
    <2>2. ASSUME NEW j \in Invocations, pc'[j] = "migrating"
          PROVE  /\ done'[j] \subseteq Recorded' /\ Prefix(done'[j] \cup ran'[j])
                 /\ ran'[j] \cap Recorded' = {}
      <3>1. /\ done[j] \subseteq Recorded /\ Prefix(done[j] \cup ran[j])
            /\ ran[j] \cap Recorded = {} /\ ran[i] \cap ran[j] = {}
        BY <1>1, <2>1, <2>2 DEF MigrateKnows
      <3>2. done'[j] = done[j] /\ ran'[j] = ran[j]
        BY <2>1, <2>2
      <3>3. ran'[j] \cap Recorded' = {} /\ done'[j] \subseteq Recorded'
        BY <1>2, <3>1, <3>2, SMT
      <3> QED
        BY <3>1, <3>2, <3>3
    <2>3. \A j, k \in Invocations : j # k => ran'[j] \cap ran'[k] = {}
      BY <1>1, <1>4, SMT DEF MigrateTypes, MigrateKnows
    <2> QED
      BY <2>2, <2>3 DEF MigrateKnows, Prefix
  <1>9. RunKnows'
    BY <1>5 DEF RunKnows
  <1> QED
    BY <1>6, <1>7, <1>8, <1>9 DEF MigrateInv

LEMMA InsertInv ==
    ASSUME MigrateInv, NEW i \in Invocations, NEW tables, NEW from, NEW to,
           Insert(i, tables, from, to), "schema_migration" \notin tables,
           from \in {"migrated", "running", "stored"},
           to \in {"running", "stored", "finished"}
    PROVE  MigrateInv'
  <1>1. /\ MigrateTypes /\ MigratedOnce /\ MigrateKnows /\ RunKnows
        /\ pc[i] = from /\ pc' = [pc EXCEPT ![i] = to]
        /\ rows' = [t \in TableNames |-> IF t \in tables THEN rows[t] \cup {i} ELSE rows[t]]
        /\ UNCHANGED <<executed, done, ran>>
    BY DEF MigrateInv, Insert
  <1>2. Recorded' = Recorded
    BY <1>1, TableNamesShape DEF Recorded
  <1>3. FileNames \subseteq Recorded
    BY <1>1, SMT DEF RunKnows
  <1>4. MigrateTypes'
    <2>1. rows' \in [TableNames -> SUBSET Ids]
      BY <1>1, SMT DEF MigrateTypes, Ids
    <2> QED
      BY <1>1, <1>2, <2>1, SMT DEF MigrateTypes, Ended
  <1>5. MigratedOnce'
    BY <1>1, <1>2 DEF MigratedOnce
  <1>6. MigrateKnows'
    BY <1>1, <1>2, SMT DEF MigrateTypes, MigrateKnows, Prefix
  <1>7. RunKnows'
    BY <1>2, <1>3 DEF RunKnows
  <1> QED
    BY <1>4, <1>5, <1>6, <1>7 DEF MigrateInv

\* What a backup does beside the others leaves migrations and runs alone.
LEMMA BackupStepInv ==
    ASSUME MigrateInv, NEW i \in Invocations,
           BeginBackup(i) \/ CountRows(i) \/ CopyTable(i) \/ PutManifest(i)
    PROVE  MigrateInv'
  <1> DEFINE Moves(to) ==
        /\ UNCHANGED <<rows, executed, done, ran>>
        /\ pc' = [pc EXCEPT ![i] = to] /\ pc[i] # "migrating"
        /\ to \in Ended \cup {"counting", "copying", "copied"} \/ to = pc[i]
  <1>1. ASSUME NEW to, Moves(to) PROVE MigrateInv'
    BY <1>1, OutsideInv
  <1>2. CASE BeginBackup(i)
    <2>1. Moves("counting")
      BY <1>2, SMT DEF BeginBackup
    <2> QED
      BY <1>1, <2>1
  <1>3. CASE CountRows(i)
    <2>1. CASE Files[1] \notin Recorded
      BY <1>3, <2>1, FailInv DEF CountRows
    <2>2. CASE Files[1] \in Recorded
      <3>1. Moves("copying") \/ Moves(pc[i])
        <4>1. /\ UNCHANGED <<rows, executed, done, ran>> /\ pc[i] = "counting"
              /\ \/ pc' = [pc EXCEPT ![i] = "copying"]
                 \/ pc' = [pc EXCEPT ![i] = pc[i]]
          BY <1>3, <2>2, Zenon DEF CountRows, Proceed
        <4> QED
          BY <4>1, SMT
      <3> QED
        BY <1>1, <3>1
    <2> QED
      BY <2>1, <2>2
  <1>4. CASE CopyTable(i)
    <2>1. Moves("copied") \/ Moves(pc[i])
      <3>1. /\ UNCHANGED <<rows, executed, done, ran>> /\ pc[i] = "copying"
            /\ \/ pc' = [pc EXCEPT ![i] = "copied"]
               \/ pc' = [pc EXCEPT ![i] = pc[i]]
        BY <1>4, Zenon DEF CopyTable, Proceed
      <3> QED
        BY <3>1, SMT
    <2> QED
      BY <1>1, <2>1
  <1>5. CASE PutManifest(i)
    <2>1. Moves("finished")
      BY <1>5, SMT DEF PutManifest, Ended
    <2> QED
      BY <1>1, <2>1
  <1> QED
    BY <1>2, <1>3, <1>4, <1>5

LEMMA MigrateStep == MigrateInv /\ [Next]_vars => MigrateInv'
  <1> SUFFICES ASSUME MigrateInv, [Next]_vars PROVE MigrateInv'
    OBVIOUS
  <1>1. ASSUME NEW i \in Invocations, Step(i) PROVE MigrateInv'
    <2>1. CASE ReadRecorded(i)
      BY <2>1, ReadRecordedInv
    <2>2. CASE ApplyFile(i)
      BY <2>2, ApplyFileInv
    <2>3. CASE CommitMigrations(i)
      BY <2>3, CommitMigrationsInv
    <2>4. CASE StartRun(i)
      BY <2>4, InsertInv, SMT DEF StartRun
    <2>5. CASE StoreBrand(i)
      BY <2>5, InsertInv, SMT DEF StoreBrand
    <2>6. CASE RecordBrand(i)
      BY <2>6, InsertInv, SMT DEF RecordBrand
    <2>7. CASE BeginBackup(i) \/ CountRows(i) \/ CopyTable(i) \/ PutManifest(i)
      BY <2>7, BackupStepInv
    <2> QED
      BY <1>1, <2>1, <2>2, <2>3, <2>4, <2>5, <2>6, <2>7 DEF Step
  <1>2. ASSUME NEW i \in Invocations, Killed(i) PROVE MigrateInv'
    BY <1>2, FailInv DEF Killed
  <1>3. CASE UNCHANGED vars
    BY <1>3 DEF vars, MigrateInv, MigrateTypes, MigratedOnce, MigrateKnows, RunKnows,
                Recorded, Prefix
  <1> QED
    BY <1>1, <1>2, <1>3 DEF Next, Idle

\* Each migration file takes effect once and is recorded exactly when it has
\* (MigratedOnce), for any number of invocations that migrate at once or die.
THEOREM AlwaysMigratedOnce == Spec => []MigratedOnce
  <1>1. MigrateInv => MigratedOnce
    BY DEF MigrateInv
  <1> QED
    BY InitInv, MigrateStep, <1>1, PTL DEF Spec

\* What a run has written was written to the newest schema (RunsOnNewestSchema).
THEOREM AlwaysOnNewestSchema == Spec => []RunsOnNewestSchema
  <1>1. MigrateInv => RunsOnNewestSchema
    BY Zenon DEF MigrateInv, RunKnows, RunsOnNewestSchema
  <1> QED
    BY InitInv, MigrateStep, <1>1, PTL DEF Spec
-----------------------------------------------------------------------------
(* Backups                                                                  *)

LEMMA IdsFinite == IsFiniteSet(Ids)
  <1>1. /\ Files \in Seq(FileNames) /\ IsFiniteSet(Invocations)
        /\ Len(Files) \in Nat /\ DOMAIN Files = 1 .. Len(Files)
    BY OperationsAssumption, SMT
  <1>2. Files \in Surjection(1 .. Len(Files), FileNames)
    <2>1. Files \in [1 .. Len(Files) -> FileNames]
      BY <1>1, SMT
    <2> QED
      BY <1>1, <2>1, Zenon DEF Surjection, FileNames
  <1>3. IsFiniteSet(1 .. Len(Files))
    BY <1>1, FS_Interval, SMT
  <1>4. IsFiniteSet(FileNames)
    BY <1>2, <1>3, FS_Surjection
  <1> QED
    BY <1>1, <1>4, FS_Union DEF Ids

\* Nothing is ever deleted.
LEMMA RowsGrow ==
    ASSUME MigrateInv, [Next]_vars
    PROVE  \A t \in TableNames : rows[t] \subseteq rows'[t]
  <1>1. rows \in [TableNames -> SUBSET Ids]
    BY DEF MigrateInv, MigrateTypes
  <1>2. CASE UNCHANGED rows
    BY <1>2
  <1>3. ASSUME NEW i \in Invocations, CommitMigrations(i)
        PROVE  \A t \in TableNames : rows[t] \subseteq rows'[t]
    BY <1>1, <1>3, TableNamesShape, SMT DEF CommitMigrations
  <1>4. ASSUME NEW i \in Invocations, NEW tables, NEW from, NEW to, Insert(i, tables, from, to)
        PROVE  \A t \in TableNames : rows[t] \subseteq rows'[t]
    BY <1>1, <1>4, Zenon DEF Insert
  <1> QED
    BY <1>2, <1>3, <1>4, Zenon
       DEF Next, Idle, vars, Step, Killed, Fail, ReadRecorded, ApplyFile, StartRun, StoreBrand,
           RecordBrand, BeginBackup, CountRows, CopyTable, PutManifest

BackupTypes ==
    /\ at \in [Invocations -> 1 .. 4]
    /\ counts \in [Invocations -> Seq(Nat)]
    /\ files \in [Invocations -> Seq(SUBSET Ids)]
    /\ manifest \in [Invocations -> BOOLEAN]
    /\ past \in [Invocations -> {<< >>} \cup [TableNames -> SUBSET Ids]]

\* How far the backup of an invocation is.
BackupPlace(i) ==
    /\ Len(counts[i]) <= 4 /\ Len(files[i]) <= 4
    /\ pc[i] = "invoked" => at[i] = 1 /\ Len(counts[i]) = 0 /\ Len(files[i]) = 0
    /\ pc[i] = "counting" => Len(counts[i]) = at[i] - 1 /\ Len(files[i]) = 0
    /\ pc[i] = "copying" => Len(counts[i]) = 4 /\ Len(files[i]) = at[i] - 1
    /\ pc[i] = "copied" => Len(counts[i]) = 4 /\ Len(files[i]) = 4
    /\ manifest[i] => pc[i] \in Ended /\ Len(counts[i]) = 4 /\ Len(files[i]) = 4

\* The tables still hold what the backup has counted, and what there was before it.
TablesKeep(i) ==
    /\ \A t \in TableNames : past[i][t] \subseteq rows[t]
    /\ \A n \in 1 .. Len(counts[i]) : counts[i][n] <= Cardinality(rows[Tables[n]])

\* So do its files.
FilesKeep(i) ==
    \A n \in 1 .. Len(files[i]) :
        /\ past[i][Tables[n]] \subseteq files[i][n]
        /\ counts[i][n] <= Cardinality(files[i][n])

BackupSound(i) ==
    /\ BackupPlace(i)
    /\ pc[i] \in {"counting", "copying"} => TablesKeep(i)
    /\ FilesKeep(i)

BackupInv == BackupTypes /\ \A i \in Invocations : BackupSound(i)

LEMMA TablesShape ==
    /\ Len(Tables) = 4 /\ DOMAIN Tables = 1 .. 4
    /\ \A n \in 1 .. 4 : Tables[n] \in TableNames
  <1>1. Len(Tables) = 4 /\ DOMAIN Tables = 1 .. 4
    BY SMT DEF Tables
  <1> QED
    BY <1>1, Zenon DEF TableNames

LEMMA CountsGrow ==
    ASSUME MigrateInv, [Next]_vars, NEW t \in TableNames
    PROVE  /\ rows[t] \subseteq rows'[t]
           /\ Cardinality(rows[t]) \in Nat /\ Cardinality(rows'[t]) \in Nat
           /\ Cardinality(rows[t]) <= Cardinality(rows'[t])
  <1>1. rows[t] \subseteq rows'[t]
    BY RowsGrow
  <1>2. rows[t] \subseteq Ids /\ rows'[t] \subseteq Ids
    BY MigrateStep, SMT DEF MigrateInv, MigrateTypes
  <1>3. IsFiniteSet(rows[t]) /\ IsFiniteSet(rows'[t])
    BY <1>2, IdsFinite, FS_Subset
  <1> QED
    BY <1>1, <1>3, FS_Subset, FS_CardinalityType

\* An invocation whose backup does not move is none the worse for what the
\* others do.
LEMMA OthersKeep ==
    ASSUME MigrateInv, BackupTypes, [Next]_vars, NEW i \in Invocations, BackupSound(i),
           at'[i] = at[i], counts'[i] = counts[i], files'[i] = files[i],
           manifest'[i] = manifest[i], past'[i] = past[i], pc'[i] = pc[i]
    PROVE  BackupSound(i)'
  <1>1. BackupPlace(i)'
    BY DEF BackupSound, BackupPlace
  <1>2. FilesKeep(i)'
    BY DEF BackupSound, FilesKeep
  <1>3. ASSUME TablesKeep(i), Len(counts[i]) <= 4 PROVE TablesKeep(i)'
    <2>1. \A t \in TableNames : past'[i][t] \subseteq rows'[t]
      BY <1>3, RowsGrow DEF TablesKeep
    <2>2. ASSUME NEW n \in 1 .. Len(counts[i])
          PROVE  counts[i][n] <= Cardinality(rows'[Tables[n]])
      <3>1. counts[i] \in Seq(Nat) /\ counts[i][n] \in Nat /\ n \in 1 .. 4
        BY <1>3, SMT DEF BackupTypes
      <3>2. Tables[n] \in TableNames
        BY <3>1, TablesShape
      <3>3. /\ Cardinality(rows[Tables[n]]) \in Nat /\ Cardinality(rows'[Tables[n]]) \in Nat
            /\ Cardinality(rows[Tables[n]]) <= Cardinality(rows'[Tables[n]])
        BY <3>2, CountsGrow
      <3>4. counts[i][n] <= Cardinality(rows[Tables[n]])
        BY <1>3 DEF TablesKeep
      <3> QED
        BY <3>1, <3>3, <3>4, SMT
    <2> QED
      BY <2>1, <2>2 DEF TablesKeep
  <1> QED
    BY <1>1, <1>2, <1>3 DEF BackupSound, BackupPlace

LEMMA ElsewhereKeep ==
    ASSUME MigrateInv, BackupInv, [Next]_vars, UNCHANGED backup,
           NEW i \in Invocations, NEW to, pc' = [pc EXCEPT ![i] = to],
           pc[i] \notin Ended,
           to \notin {"invoked", "counting", "copying", "copied"}
    PROVE  BackupInv'
  <1>1. /\ BackupTypes /\ BackupTypes'
        /\ UNCHANGED <<at, counts, files, manifest, past>>
    BY DEF BackupInv, backup, BackupTypes
  <1>2. pc'[i] = to /\ \A j \in Invocations : j # i => pc'[j] = pc[j]
    BY SMT DEF MigrateInv, MigrateTypes
  <1>3. ASSUME NEW j \in Invocations PROVE BackupSound(j)'
    <2>1. CASE j # i
      BY <1>1, <1>2, <2>1, OthersKeep DEF BackupInv
    <2>2. CASE j = i
      <3>1. BackupSound(i) /\ ~manifest[i]
        BY DEF BackupInv, BackupSound, BackupPlace
      <3>2. BackupPlace(i)'
        BY <1>1, <1>2, <3>1, Zenon DEF BackupSound, BackupPlace
      <3>3. FilesKeep(i)'
        BY <1>1, <3>1 DEF BackupSound, FilesKeep
      <3>4. pc'[i] \notin {"counting", "copying"}
        BY <1>2
      <3> QED
        BY <2>2, <3>2, <3>3, <3>4 DEF BackupSound
    <2> QED
      BY <2>1, <2>2
  <1> QED
    BY <1>1, <1>3 DEF BackupInv

LEMMA BeginBackupKeeps ==
    ASSUME MigrateInv, BackupInv, NEW i \in Invocations, BeginBackup(i)
    PROVE  BackupTypes' /\ BackupSound(i)'
  <1>1. /\ BackupTypes /\ BackupSound(i) /\ rows \in [TableNames -> SUBSET Ids]
        /\ pc[i] = "invoked" /\ pc' = [pc EXCEPT ![i] = "counting"]
        /\ past' = [past EXCEPT ![i] = rows]
        /\ UNCHANGED <<rows, at, counts, files, manifest>>
    BY DEF BackupInv, MigrateInv, MigrateTypes, BeginBackup
  <1>2. BackupTypes'
    BY <1>1, SMT DEF BackupTypes
  <1>3. pc'[i] = "counting" /\ past'[i] = rows
    BY <1>1, SMT DEF MigrateInv, MigrateTypes, BackupTypes
  <1>4. Len(counts[i]) = 0 /\ Len(files[i]) = 0 /\ at[i] = 1 /\ ~manifest[i]
    BY <1>1, SMT DEF BackupSound, BackupPlace, Ended
  <1>5. BackupPlace(i)'
    BY <1>1, <1>3, <1>4, SMT DEF BackupPlace
  <1>6. TablesKeep(i)'
    BY <1>1, <1>3, <1>4, SMT DEF TablesKeep
  <1>7. FilesKeep(i)'
    BY <1>1, <1>4, SMT DEF FilesKeep
  <1> QED
    BY <1>2, <1>5, <1>6, <1>7 DEF BackupSound

LEMMA CountRowsKeeps ==
    ASSUME MigrateInv, BackupInv, NEW i \in Invocations, CountRows(i),
           Files[1] \in Recorded
    PROVE  BackupTypes' /\ BackupSound(i)'
  <1> DEFINE n == at[i]
             count == Cardinality(rows[Tables[n]])
  <1>1. /\ BackupTypes /\ BackupSound(i) /\ pc[i] = "counting"
        /\ counts' = [counts EXCEPT ![i] = Append(@, count)]
        /\ at' = [at EXCEPT ![i] = IF @ = 4 THEN 1 ELSE @ + 1]
        /\ pc' = [pc EXCEPT ![i] = IF at[i] = 4 THEN "copying" ELSE @]
        /\ UNCHANGED <<rows, files, manifest, past>>
    BY TablesShape DEF BackupInv, CountRows, Proceed
  <1>2. n \in 1 .. 4 /\ counts[i] \in Seq(Nat) /\ Len(counts[i]) = n - 1
        /\ Len(files[i]) = 0 /\ TablesKeep(i) /\ ~manifest[i]
    BY <1>1, SMT DEF BackupTypes, BackupSound, BackupPlace, Ended
  <1>3. count \in Nat
    <2>1. rows[Tables[n]] \subseteq Ids
      BY <1>2, TablesShape, SMT DEF MigrateInv, MigrateTypes
    <2> QED
      BY <2>1, IdsFinite, FS_Subset, FS_CardinalityType
  <1>4. /\ counts'[i] = Append(counts[i], count)
        /\ at'[i] = IF n = 4 THEN 1 ELSE n + 1
        /\ pc'[i] = IF n = 4 THEN "copying" ELSE "counting"
    BY <1>1, SMT DEF BackupTypes, MigrateInv, MigrateTypes
  <1>5. Len(counts'[i]) = n /\ counts'[i] \in Seq(Nat)
        /\ \A m \in 1 .. n : counts'[i][m] = IF m = n THEN count ELSE counts[i][m]
    <2> HIDE DEF count, n
    <2> QED
      BY <1>2, <1>3, <1>4, SMT
  <1>6. BackupTypes'
    <2>1. counts' \in [Invocations -> Seq(Nat)]
      BY <1>1, <1>4, <1>5, SMT DEF BackupTypes
    <2>2. at' \in [Invocations -> 1 .. 4]
      <3>1. (IF n = 4 THEN 1 ELSE n + 1) \in 1 .. 4
        BY <1>2, SMT
      <3>2. at \in [Invocations -> 1 .. 4]
        BY <1>1 DEF BackupTypes
      <3> QED
        BY <1>1, <3>1, <3>2
    <2> QED
      BY <1>1, <2>1, <2>2 DEF BackupTypes
  <1>7. BackupPlace(i)'
    BY <1>1, <1>2, <1>4, <1>5, SMT DEF BackupPlace
  <1>8. TablesKeep(i)'
    <2>1. \A m \in 1 .. n : counts'[i][m] <= Cardinality(rows[Tables[m]])
      <3> SUFFICES ASSUME NEW m \in 1 .. n PROVE counts'[i][m] <= Cardinality(rows[Tables[m]])
        OBVIOUS
      <3>1. CASE m = n
        BY <1>3, <1>5, <3>1, SMT
      <3>2. CASE m # n
        <4>1. m \in 1 .. Len(counts[i])
          BY <1>2, <3>2, SMT
        <4> QED
          BY <1>2, <1>5, <3>2, <4>1 DEF TablesKeep
      <3> QED
        BY <3>1, <3>2
    <2> QED
      BY <1>1, <1>2, <1>5, <2>1 DEF TablesKeep
  <1>9. FilesKeep(i)'
    BY <1>1, <1>2, SMT DEF FilesKeep
  <1> QED
    BY <1>6, <1>7, <1>8, <1>9 DEF BackupSound

LEMMA CopyTableKeeps ==
    ASSUME MigrateInv, BackupInv, NEW i \in Invocations, CopyTable(i)
    PROVE  BackupTypes' /\ BackupSound(i)'
  <1> DEFINE n == at[i]
             copy == rows[Tables[n]]
  <1>1. /\ BackupTypes /\ BackupSound(i) /\ pc[i] = "copying"
        /\ files' = [files EXCEPT ![i] = Append(@, copy)]
        /\ at' = [at EXCEPT ![i] = IF @ = 4 THEN 1 ELSE @ + 1]
        /\ pc' = [pc EXCEPT ![i] = IF at[i] = 4 THEN "copied" ELSE @]
        /\ UNCHANGED <<rows, counts, manifest, past>>
    BY TablesShape DEF BackupInv, CopyTable, Proceed
  <1>2. /\ n \in 1 .. 4 /\ files[i] \in Seq(SUBSET Ids) /\ Len(files[i]) = n - 1
        /\ Len(counts[i]) = 4 /\ TablesKeep(i) /\ FilesKeep(i) /\ ~manifest[i]
    BY <1>1, SMT DEF BackupTypes, BackupSound, BackupPlace, Ended
  <1>3. copy \in SUBSET Ids /\ Tables[n] \in TableNames
    BY <1>2, TablesShape, SMT DEF MigrateInv, MigrateTypes
  <1>4. /\ files'[i] = Append(files[i], copy)
        /\ at'[i] = IF n = 4 THEN 1 ELSE n + 1
        /\ pc'[i] = IF n = 4 THEN "copied" ELSE "copying"
    BY <1>1, SMT DEF BackupTypes, MigrateInv, MigrateTypes
  <1>5. Len(files'[i]) = n /\ files'[i] \in Seq(SUBSET Ids)
        /\ \A m \in 1 .. n : files'[i][m] = IF m = n THEN copy ELSE files[i][m]
    <2> HIDE DEF copy, n
    <2> QED
      BY <1>2, <1>3, <1>4, SMT
  <1>6. BackupTypes'
    <2>1. files' \in [Invocations -> Seq(SUBSET Ids)]
      BY <1>1, <1>4, <1>5, SMT DEF BackupTypes
    <2>2. at' \in [Invocations -> 1 .. 4]
      <3>1. (IF n = 4 THEN 1 ELSE n + 1) \in 1 .. 4
        BY <1>2, SMT
      <3>2. at \in [Invocations -> 1 .. 4]
        BY <1>1 DEF BackupTypes
      <3> QED
        BY <1>1, <3>1, <3>2
    <2> QED
      BY <1>1, <2>1, <2>2 DEF BackupTypes
  <1>7. BackupPlace(i)'
    BY <1>1, <1>2, <1>4, <1>5, SMT DEF BackupPlace
  <1>8. TablesKeep(i)'
    BY <1>1, <1>2 DEF TablesKeep
  <1>9. FilesKeep(i)'
    <2>1. ASSUME NEW m \in 1 .. n
          PROVE  /\ past[i][Tables[m]] \subseteq files'[i][m]
                 /\ counts[i][m] <= Cardinality(files'[i][m])
      <3>1. CASE m = n
        <4>1. n \in 1 .. Len(counts[i])
          BY <1>2, SMT
        <4> QED
          BY <1>2, <1>3, <1>5, <3>1, <4>1 DEF TablesKeep
      <3>2. CASE m # n
        <4>1. m \in 1 .. Len(files[i])
          BY <1>2, <3>2, SMT
        <4> QED
          BY <1>2, <1>5, <3>2, <4>1 DEF FilesKeep
      <3> QED
        BY <3>1, <3>2
    <2> QED
      BY <1>1, <1>5, <2>1 DEF FilesKeep
  <1> QED
    BY <1>6, <1>7, <1>8, <1>9 DEF BackupSound

LEMMA PutManifestKeeps ==
    ASSUME MigrateInv, BackupInv, NEW i \in Invocations, PutManifest(i)
    PROVE  BackupTypes' /\ BackupSound(i)'
  <1>1. /\ BackupTypes /\ BackupSound(i) /\ pc[i] = "copied"
        /\ pc' = [pc EXCEPT ![i] = "finished"]
        /\ manifest' = [manifest EXCEPT ![i] = TRUE]
        /\ UNCHANGED <<rows, at, counts, files, past>>
    BY DEF BackupInv, PutManifest
  <1>2. BackupTypes'
    BY <1>1, Zenon DEF BackupTypes
  <1>3. pc'[i] = "finished"
    BY <1>1, SMT DEF MigrateInv, MigrateTypes
  <1>4. Len(counts[i]) = 4 /\ Len(files[i]) = 4 /\ FilesKeep(i)
    BY <1>1, SMT DEF BackupSound, BackupPlace
  <1>5. BackupPlace(i)'
    BY <1>1, <1>3, <1>4, SMT DEF BackupPlace, Ended
  <1>6. FilesKeep(i)' /\ pc'[i] \notin {"counting", "copying"}
    BY <1>1, <1>3, <1>4, SMT DEF FilesKeep
  <1> QED
    BY <1>2, <1>5, <1>6 DEF BackupSound

LEMMA BackupStep == MigrateInv /\ BackupInv /\ [Next]_vars => BackupInv'
  <1> SUFFICES ASSUME MigrateInv, BackupInv, [Next]_vars PROVE BackupInv'
    OBVIOUS
  <1>1. ASSUME UNCHANGED <<pc, backup>> PROVE BackupInv'
    <2>1. UNCHANGED <<pc, at, counts, files, manifest, past>>
      BY <1>1 DEF backup
    <2>2. BackupTypes'
      BY <2>1 DEF BackupInv, BackupTypes
    <2> QED
      BY <2>1, <2>2, OthersKeep DEF BackupInv
  <1>2. ASSUME NEW i \in Invocations, pc[i] \notin Ended, Fail(i) PROVE BackupInv'
    <2>1. "failed" \notin {"invoked", "counting", "copying", "copied"}
      OBVIOUS
    <2> QED
      BY <1>2, <2>1, ElsewhereKeep DEF Fail
  <1>3. ASSUME NEW i \in Invocations, ReadRecorded(i) PROVE BackupInv'
    <2>1. "migrating" \notin {"invoked", "counting", "copying", "copied"} /\ pc[i] \notin Ended
      BY <1>3, SMT DEF ReadRecorded, Ended
    <2> QED
      BY <1>3, <2>1, ElsewhereKeep DEF ReadRecorded
  <1>4. ASSUME NEW i \in Invocations, ApplyFile(i) PROVE BackupInv'
    <2>1. pc[i] \notin Ended
      BY <1>4, SMT DEF ApplyFile, Ended
    <2> QED
      BY <1>1, <1>2, <1>4, <2>1 DEF ApplyFile
  <1>5. ASSUME NEW i \in Invocations, CommitMigrations(i) PROVE BackupInv'
    <2>1. PICK to \in {"migrated", "finished"} : pc' = [pc EXCEPT ![i] = to]
      BY <1>5 DEF CommitMigrations
    <2>2. to \notin {"invoked", "counting", "copying", "copied"} /\ pc[i] \notin Ended
      BY <1>5, SMT DEF CommitMigrations, Ended
    <2> QED
      BY <1>5, <2>1, <2>2, ElsewhereKeep DEF CommitMigrations
  <1>6. ASSUME NEW i \in Invocations, StartRun(i) \/ StoreBrand(i) \/ RecordBrand(i)
        PROVE  BackupInv'
    <2>1. PICK to \in {"running", "stored", "finished"} : pc' = [pc EXCEPT ![i] = to]
      BY <1>6 DEF StartRun, StoreBrand, RecordBrand, Insert
    <2>2. UNCHANGED backup
      BY <1>6 DEF StartRun, StoreBrand, RecordBrand, Insert
    <2>3. to \notin {"invoked", "counting", "copying", "copied"} /\ pc[i] \notin Ended
      BY <1>6, SMT DEF StartRun, StoreBrand, RecordBrand, Insert, Ended
    <2> QED
      BY <2>1, <2>2, <2>3, ElsewhereKeep
  <1>7. ASSUME NEW i \in Invocations,
               BeginBackup(i) \/ CountRows(i) \/ CopyTable(i) \/ PutManifest(i)
        PROVE  BackupInv'
    <2>1. CASE CountRows(i) /\ Files[1] \notin Recorded
      <3>1. pc[i] \notin Ended /\ Fail(i)
        BY <2>1, SMT DEF CountRows, Ended
      <3> QED
        BY <1>2, <3>1
    <2>2. CASE ~(CountRows(i) /\ Files[1] \notin Recorded)
      <3>1. BackupTypes' /\ BackupSound(i)'
        BY <1>7, <2>2, BeginBackupKeeps, CountRowsKeeps, CopyTableKeeps, PutManifestKeeps
      <3>2. ASSUME NEW j \in Invocations, j # i PROVE BackupSound(j)'
        <4>1. /\ at'[j] = at[j] /\ counts'[j] = counts[j] /\ files'[j] = files[j]
              /\ manifest'[j] = manifest[j] /\ past'[j] = past[j] /\ pc'[j] = pc[j]
          BY <1>7, <2>2, <3>2, Zenon DEF BackupInv, BackupTypes, MigrateInv, MigrateTypes,
                BeginBackup, CountRows, CopyTable, PutManifest, Proceed
        <4> QED
          BY <4>1, OthersKeep DEF BackupInv
      <3> QED
        BY <3>1, <3>2 DEF BackupInv
    <2> QED
      BY <2>1, <2>2
  <1>8. CASE UNCHANGED vars
    BY <1>1, <1>8 DEF vars, backup
  <1> QED
    BY <1>1, <1>2, <1>3, <1>4, <1>5, <1>6, <1>7, <1>8 DEF Next, Idle, Step, Killed

LEMMA BackupInit == Init => BackupInv
  <1> SUFFICES ASSUME Init PROVE BackupInv
    OBVIOUS
  <1>1. BackupTypes
    BY SMT DEF Init, BackupTypes
  <1>2. ASSUME NEW i \in Invocations PROVE BackupSound(i)
    BY SMT DEF Init, BackupSound, BackupPlace, FilesKeep
  <1> QED
    BY <1>1, <1>2 DEF BackupInv

\* A backup with a manifest has every row there was when it began, and no fewer
\* than it counted (BackupKeepsPast), whatever runs or migrates meanwhile.
THEOREM BackupAlwaysKeepsPast == Spec => []BackupKeepsPast
  <1>1. BackupInv => BackupKeepsPast
    BY TablesShape DEF BackupInv, BackupSound, BackupPlace, FilesKeep, BackupKeepsPast
  <1> QED
    BY InitInv, MigrateStep, BackupInit, BackupStep, <1>1, PTL DEF Spec

\* Every reachable state is of the right types (TypeOK).
THEOREM TypeCorrect == Spec => []TypeOK
  <1>1. Init => command \in Requests
    BY DEF Init
  <1>2. command \in Requests /\ [Next]_vars => (command \in Requests)'
    BY DEF Next, Idle, vars, Step, Killed, Fail, ReadRecorded, ApplyFile, CommitMigrations,
           StartRun, StoreBrand, RecordBrand, Insert, BeginBackup, CountRows, CopyTable,
           PutManifest
  <1>3. MigrateInv /\ BackupInv /\ command \in Requests => TypeOK
    BY TablesShape, SMT
       DEF MigrateInv, MigrateTypes, BackupInv, BackupTypes, BackupSound, BackupPlace, TypeOK
  <1> QED
    BY InitInv, MigrateStep, BackupInit, BackupStep, <1>1, <1>2, <1>3, PTL DEF Spec
=============================================================================
