------------------------ MODULE RunCollectionProofs ------------------------
(***************************************************************************)
(* Proofs about RunCollection, for any brands, any number of runs, overlap *)
(* and faults.  Both ledger properties rest on what a run under way has    *)
(* still to tell: the brands it has left to finish have no row yet, but    *)
(* for the one it is rating, and its totals count the others.              *)
(***************************************************************************)
EXTENDS RunCollection, FiniteSetTheorems, WellFoundedInduction, TLAPS

\* The brands a run is through with, by the status of their row.
Rated(r, statuses) == {b \in Brands : b \notin left[r] /\ brandRow[r][b] \in statuses}

UnderWay(r) ==
    /\ pc[r] \in {"recording", "rating"} => left[r] # {}
    /\ \A b \in left[r] :
        brandRow[r][b] = IF pc[r] = "rating" /\ b = Least(left[r]) THEN outcome[r] ELSE "none"
    /\ totals[r].ok = Cardinality(Rated(r, {"ok", "partial"}))
    /\ totals[r].failed = Cardinality(Rated(r, {"failed"}))
    /\ totals[r].total = Cardinality(left[r]) + totals[r].ok + totals[r].failed

Agrees(r) ==
    /\ runRow[r].counts.ok = With(r, {"ok", "partial"})
    /\ runRow[r].counts.failed = With(r, {"failed"})
    /\ runRow[r].status = "completed" =>
        runRow[r].counts.total = runRow[r].counts.ok + runRow[r].counts.failed

RunSound(r) ==
    /\ pc[r] = "waiting" => totals[r] = NoTotals /\ \A b \in Brands : brandRow[r][b] = "none"
    /\ Active(r) => UnderWay(r)
    /\ runRow[r].status \in {"completed", "failed"} => pc[r] = "done" /\ Agrees(r)

LedgerInv == TypeOK /\ \A r \in Runs : RunSound(r)

\* The runs that have written a brand's row and not yet told its breaker.
Untold(b) == {r \in Runs : pc[r] = "rating" /\ Least(left[r]) = b}

EvidenceSound(b) ==
    /\ IsFiniteSet(Failed(b))
    /\ failures[b] <= Cardinality(Failed(b) \ Untold(b))
    /\ openUntil[b] # Closed => failures[b] >= Threshold

EvidenceInv == LedgerInv /\ \A b \in Brands : EvidenceSound(b)
-----------------------------------------------------------------------------
LEMMA LeastNatural ==
    ASSUME NEW S \in SUBSET Nat, S # {}
    PROVE  \E n \in S : \A m \in S : n <= m
  <1>1. PICK n \in S : \A m \in S : ~(<<m, n>> \in OpToRel(<, Nat))
    BY NatLessThanWellFounded, WFMin, Zenon
  <1>2. \A m \in S : ~(m < n)
    <2> SUFFICES ASSUME NEW m \in S, m < n PROVE FALSE
      OBVIOUS
    <2> DEFINE pair == <<m, n>>
    <2>1. pair \in Nat \X Nat /\ pair[1] < pair[2]
      OBVIOUS
    <2> HIDE DEF pair
    <2>2. pair \in OpToRel(<, Nat)
      BY <2>1, Zenon DEF OpToRel
    <2> QED
      BY <1>1, <2>2 DEF pair
  <1> QED
    BY <1>2, SMT

\* The brand a run is at is one of those it has left.
LEMMA LeastIn ==
    ASSUME NEW S \in SUBSET Brands, S # {}
    PROVE  Least(S) \in S
  <1>1. \E b \in S : \A c \in S : b <= c
    BY RunAssumption, LeastNatural
  <1> QED
    BY <1>1 DEF Least

\* A set of brands is finite: it has a count.
LEMMA CountIsNat ==
    ASSUME NEW S \in SUBSET Brands
    PROVE  IsFiniteSet(S) /\ Cardinality(S) \in Nat
  BY RunAssumption, FS_Subset, FS_CardinalityType

LEMMA UpdateTyped ==
    ASSUME NEW A, NEW B, NEW f \in [A -> B], NEW x, NEW v \in B
    PROVE  [f EXCEPT ![x] = v] \in [A -> B]
  BY Zenon

LEMMA TotalsTyped == NoTotals \in Counts /\ Closed \in Nat
  BY RunAssumption, SMT DEF NoTotals, Counts, Closed

\* One more brand in the totals.
LEMMA CountedShape ==
    ASSUME NEW counts \in Counts, NEW status
    PROVE  /\ Counted(counts, status) \in Counts
           /\ Counted(counts, status).total = counts.total
           /\ Counted(counts, status).ok = counts.ok + IF status # "failed" THEN 1 ELSE 0
           /\ Counted(counts, status).failed = counts.failed + IF status = "failed" THEN 1 ELSE 0
  BY SMT DEF Counts, Counted
-----------------------------------------------------------------------------
LEMMA InitInv == Init => EvidenceInv
  <1> SUFFICES ASSUME Init PROVE EvidenceInv
    OBVIOUS
  <1>1. TypeOK
    <2>1. failures \in [Brands -> Nat] /\ openUntil \in [Brands -> Nat]
      BY TotalsTyped, SMT DEF Init
    <2>2. /\ runRow \in [Runs -> [status : {"none", "running", "completed", "failed"},
                                 counts : Counts]]
          /\ totals \in [Runs -> Counts]
      BY TotalsTyped, SMT DEF Init, NoRun
    <2>3. brandRow \in [Runs -> [Brands -> Rows]]
      BY Zenon DEF Init, Rows
    <2>4. raced \in BOOLEAN
      BY Zenon DEF Init
    <2>5. outcome \in [Runs -> Rows \ {"none"}]
      BY SMT DEF Init, Rows
    <2> QED
      BY <2>1, <2>2, <2>3, <2>4, <2>5, RunAssumption, SMT DEF Init, TypeOK
  <1>2. ASSUME NEW r \in Runs PROVE RunSound(r)
    BY SMT DEF Init, RunSound, Active, Ended, NoRun
  <1>3. ASSUME NEW b \in Brands PROVE EvidenceSound(b)
    <2>1. Failed(b) = {}
      BY SMT DEF Init, Failed
    <2>2. Failed(b) \ Untold(b) = {}
      BY <2>1
    <2> QED
      BY <2>1, <2>2, FS_EmptySet, SMT DEF Init, EvidenceSound
  <1> QED
    BY <1>1, <1>2, <1>3 DEF EvidenceInv, LedgerInv

\* A step of one run leaves the others as they were.
LEMMA OthersSound ==
    ASSUME NEW s \in Runs, RunSound(s),
           pc'[s] = pc[s], left'[s] = left[s], outcome'[s] = outcome[s],
           totals'[s] = totals[s], runRow'[s] = runRow[s], brandRow'[s] = brandRow[s]
    PROVE  RunSound(s)'
  <1>1. \A statuses : Rated(s, statuses)' = Rated(s, statuses)
    BY DEF Rated
  <1>2. \A statuses : With(s, statuses)' = With(s, statuses)
    BY DEF With
  <1>3. Active(s)' = Active(s)
    BY DEF Active
  <1>4. UnderWay(s) => UnderWay(s)'
    BY <1>1 DEF UnderWay
  <1>5. Agrees(s) => Agrees(s)'
    BY <1>2 DEF Agrees
  <1> QED
    BY <1>3, <1>4, <1>5 DEF RunSound

LEMMA StepTyped == TypeOK /\ (\A r \in Runs : RunSound(r)) /\ [Next]_vars => TypeOK'
  <1> SUFFICES ASSUME TypeOK, \A r \in Runs : RunSound(r), [Next]_vars PROVE TypeOK'
    OBVIOUS
  <1>1. CASE Tick
    BY <1>1, RunAssumption, SMT DEF Tick, TypeOK, tables
  <1>2. CASE Over \/ UNCHANGED vars
    BY <1>2, SMT DEF Over, TypeOK, vars
  <1>3. ASSUME NEW r \in Runs, Start(r) PROVE TypeOK'
    <2>1. PICK chosen \in Selections :
            /\ left' = [left EXCEPT ![r] = chosen]
            /\ totals' = [totals EXCEPT ![r].total = Cardinality(chosen)]
      BY <1>3 DEF Start
    <2>2. chosen \in SUBSET Brands
      BY SMT DEF Selections, Enabled
    <2>3. Cardinality(chosen) \in Nat
      BY <2>2, CountIsNat
    <2>4. totals' \in [Runs -> Counts]
      <3>1. totals[r] \in Counts
        BY SMT DEF TypeOK
      <3>2. [totals[r] EXCEPT !.total = Cardinality(chosen)] \in Counts
        BY <2>3, <3>1, SMT DEF Counts
      <3>3. totals' = [totals EXCEPT ![r] = [totals[r] EXCEPT !.total = Cardinality(chosen)]]
        BY <2>1
      <3> QED
        BY <3>2, <3>3, SMT DEF TypeOK
    <2>5. left' \in [Runs -> SUBSET Brands]
      BY <2>1, <2>2, SMT DEF TypeOK
    <2>6. runRow' \in [Runs -> [status : {"none", "running", "completed", "failed"},
                                counts : Counts]]
      BY <1>3, SMT DEF Start, TypeOK
    <2>7. raced' \in BOOLEAN
      BY <1>3, Zenon DEF Start, TypeOK
    <2> QED
      BY <1>3, <2>4, <2>5, <2>6, <2>7, SMT DEF Start, TypeOK
  <1>4. ASSUME NEW r \in Runs, Collect(r) PROVE TypeOK'
    BY <1>4, SMT DEF Collect, TypeOK, tables, Rows
  <1>5. ASSUME NEW r \in Runs, Refused(r) PROVE TypeOK'
    BY <1>5, SMT DEF Refused, TypeOK, tables
  <1>6. ASSUME NEW r \in Runs, RecordBrand(r) PROVE TypeOK'
    <2>1. outcome[r] \in Rows
      BY SMT DEF TypeOK
    <2>2. brandRow' \in [Runs -> [Brands -> Rows]]
      <3> DEFINE b == Least(left[r])
      <3> HIDE DEF b
      <3>1. brandRow' = [brandRow EXCEPT ![r][b] = outcome[r]]
        BY <1>6 DEF RecordBrand, b
      <3>2. brandRow[r] \in [Brands -> Rows]
        BY SMT DEF TypeOK
      <3>3. [brandRow[r] EXCEPT ![b] = outcome[r]] \in [Brands -> Rows]
        BY <2>1, <3>2, UpdateTyped
      <3> QED
        BY <3>1, <3>3, SMT DEF TypeOK
    <2> QED
      BY <1>6, <2>2, SMT DEF RecordBrand, TypeOK
  <1>7. ASSUME NEW r \in Runs, RecordHealth(r) PROVE TypeOK'
    <2>1. left[r] \in SUBSET Brands /\ left[r] # {}
      <3>1. pc[r] = "rating"
        BY <1>7 DEF RecordHealth
      <3>2. Active(r)
        BY <3>1, SMT DEF Active, Ended
      <3> QED
        BY <3>1, <3>2, SMT DEF TypeOK, RunSound, UnderWay
    <2>2. Least(left[r]) \in Brands
      BY <2>1, LeastIn
    <2> DEFINE b == Least(left[r])
    <2>3. failures' \in [Brands -> Nat] /\ openUntil' \in [Brands -> Nat]
      <3> DEFINE until == IF failures[b] + 1 >= Threshold THEN now + Cooldown ELSE openUntil[b]
      <3>1. now \in Nat /\ now + Cooldown \in Nat /\ Closed \in Nat
        BY RunAssumption, TotalsTyped, SMT DEF TypeOK
      <3>2. failures[b] + 1 \in Nat /\ until \in Nat
        BY <2>2, <3>1, SMT DEF TypeOK
      <3>3. \/ /\ failures' = [failures EXCEPT ![b] = 0]
               /\ openUntil' = [openUntil EXCEPT ![b] = Closed]
            \/ /\ failures' = [failures EXCEPT ![b] = failures[b] + 1]
               /\ openUntil' = [openUntil EXCEPT ![b] = until]
        BY <1>7, <2>2 DEF RecordHealth, TypeOK
      <3> HIDE DEF b, until
      <3>4. failures \in [Brands -> Nat] /\ openUntil \in [Brands -> Nat]
        BY DEF TypeOK
      <3> QED
        BY <3>1, <3>2, <3>3, <3>4, SMT
    <2>4. totals[r] \in Counts
      BY DEF TypeOK
    <2>5. totals' \in [Runs -> Counts]
      BY <1>7, <2>4, CountedShape, SMT DEF RecordHealth, TypeOK
    <2> QED
      BY <1>7, <2>1, <2>3, <2>5, SMT DEF RecordHealth, TypeOK, Rows
  <1>8. ASSUME NEW r \in Runs, NEW how \in Ended, Leave(r, how) PROVE
            /\ pc' \in [Runs -> {"waiting", "collecting", "recording", "rating", "failing"}
                                    \cup Ended]
            /\ left' \in [Runs -> SUBSET Brands]
            /\ outcome' \in [Runs -> Rows \ {"none"}]
            /\ totals' \in [Runs -> Counts]
    BY <1>8, TotalsTyped, SMT DEF Leave, TypeOK, Rows
  <1>9. ASSUME NEW r \in Runs, Finish(r) \/ Fail(r) PROVE TypeOK'
    <2>1. PICK status \in {"completed", "failed"} : FinishRun(r, status)
      BY <1>9 DEF Finish, Fail
    <2>2. runRow' \in [Runs -> [status : {"none", "running", "completed", "failed"},
                                counts : Counts]]
      BY <2>1, SMT DEF FinishRun, TypeOK
    <2>3. Leave(r, "done") /\ "done" \in Ended
      BY <2>1 DEF FinishRun, Ended
    <2> QED
      BY <1>8, <2>1, <2>2, <2>3, SMT DEF FinishRun, TypeOK
  <1>10. ASSUME NEW r \in Runs, StatementFails(r) \/ Crash(r) PROVE TypeOK'
    <2>1. Leave(r, "dead") /\ "dead" \in Ended
      BY <1>10 DEF StatementFails, Crash, Ended
    <2> QED
      BY <1>8, <1>10, <2>1, SMT DEF StatementFails, Crash, TypeOK, tables
  <1> QED
    BY <1>1, <1>2, <1>3, <1>4, <1>5, <1>6, <1>7, <1>9, <1>10 DEF Next
-----------------------------------------------------------------------------
\* The rows of a run that stays at the brands it was at.
LEMMA SameRows ==
    ASSUME NEW r \in Runs, left'[r] = left[r], brandRow'[r] = brandRow[r]
    PROVE  \A statuses : /\ Rated(r, statuses)' = Rated(r, statuses)
                         /\ With(r, statuses)' = With(r, statuses)
  BY DEF Rated, With

LEMMA StartSound ==
    ASSUME TypeOK, NEW r \in Runs, RunSound(r), Start(r)
    PROVE  RunSound(r)'
  <1>1. PICK chosen \in Selections :
          /\ left' = [left EXCEPT ![r] = chosen]
          /\ totals' = [totals EXCEPT ![r].total = Cardinality(chosen)]
    BY DEF Start
  <1>2. chosen \in SUBSET Brands
    BY SMT DEF Selections, Enabled
  <1>3. pc[r] = "waiting" /\ pc'[r] = "collecting" /\ left'[r] = chosen
    BY <1>1, SMT DEF Start, TypeOK
  <1>4. totals[r] = NoTotals /\ \A b \in Brands : brandRow[r][b] = "none"
    BY <1>3 DEF RunSound
  <1>5. brandRow' = brandRow
    BY DEF Start
  <1>6. totals'[r] = [total |-> Cardinality(chosen), ok |-> 0, failed |-> 0]
    <2>1. totals'[r] = [totals[r] EXCEPT !.total = Cardinality(chosen)]
      BY <1>1, SMT DEF TypeOK
    <2> QED
      BY <1>4, <2>1, SMT DEF NoTotals
  <1>7. Rated(r, {"ok", "partial"})' = {} /\ Rated(r, {"failed"})' = {}
    BY <1>4, <1>5, SMT DEF Rated
  <1>8. Cardinality(chosen) \in Nat
    BY <1>2, CountIsNat
  <1>9. UnderWay(r)'
    <2>1. \A b \in left'[r] : brandRow'[r][b] = "none"
      BY <1>2, <1>3, <1>4, <1>5
    <2>2. /\ totals'[r].ok = Cardinality(Rated(r, {"ok", "partial"})')
          /\ totals'[r].failed = Cardinality(Rated(r, {"failed"})')
      BY <1>6, <1>7, FS_EmptySet
    <2>3. totals'[r].total = Cardinality(left'[r]) + totals'[r].ok + totals'[r].failed
      BY <1>3, <1>6, <1>8, SMT
    <2> QED
      BY <1>3, <2>1, <2>2, <2>3, SMT DEF UnderWay
  <1>10. runRow'[r].status = "running"
    BY SMT DEF Start, TypeOK
  <1> QED
    BY <1>3, <1>9, <1>10, SMT DEF RunSound

LEMMA CollectSound ==
    ASSUME TypeOK, NEW r \in Runs, RunSound(r), Collect(r) \/ Refused(r)
    PROVE  RunSound(r)'
  <1>1. /\ pc[r] = "collecting" /\ left[r] # {} /\ pc'[r] \in {"recording", "failing"}
        /\ left' = left /\ totals' = totals /\ brandRow' = brandRow /\ runRow' = runRow
    BY SMT DEF Collect, Refused, TypeOK, tables
  <1>2. UnderWay(r)
    BY <1>1, SMT DEF RunSound, Active, Ended
  <1>3. UnderWay(r)'
    BY <1>1, <1>2, SameRows, SMT DEF UnderWay
  <1>4. runRow[r].status \notin {"completed", "failed"}
    BY <1>1, SMT DEF RunSound
  <1> QED
    BY <1>1, <1>3, <1>4, SMT DEF RunSound

LEMMA RecordBrandSound ==
    ASSUME TypeOK, NEW r \in Runs, RunSound(r), RecordBrand(r)
    PROVE  /\ RunSound(r)'
           /\ Least(left[r]) \in left[r] /\ brandRow[r][Least(left[r])] = "none"
           /\ brandRow'[r] = [brandRow[r] EXCEPT ![Least(left[r])] = outcome[r]]
  <1> DEFINE c == Least(left[r])
  <1>1. pc[r] = "recording" /\ pc'[r] = "rating"
    BY SMT DEF RecordBrand, TypeOK
  <1>2. UnderWay(r)
    BY <1>1, SMT DEF RunSound, Active, Ended
  <1>3. left[r] \in SUBSET Brands /\ left[r] # {} /\ brandRow[r] \in [Brands -> Rows]
    BY <1>1, <1>2, SMT DEF UnderWay, TypeOK
  <1>4. c \in left[r] /\ c \in Brands
    BY <1>3, LeastIn
  <1>5. left' = left /\ totals' = totals /\ outcome' = outcome /\ runRow' = runRow
    BY DEF RecordBrand
  <1>6. brandRow'[r] = [brandRow[r] EXCEPT ![c] = outcome[r]]
    BY SMT DEF RecordBrand, TypeOK
  <1>7. \A b \in left[r] : brandRow[r][b] = "none"
    BY <1>1, <1>2, SMT DEF UnderWay
  <1>8. \A b \in left[r] : brandRow'[r][b] = IF b = c THEN outcome[r] ELSE "none"
    BY <1>3, <1>4, <1>6, <1>7, Zenon
  <1>9. \A b \in Brands : b \notin left[r] => brandRow'[r][b] = brandRow[r][b]
    BY <1>3, <1>4, <1>6, Zenon
  <1>10. \A statuses : Rated(r, statuses)' = Rated(r, statuses)
    BY <1>5, <1>9, Zenon DEF Rated
  <1>11. UnderWay(r)'
    BY <1>1, <1>2, <1>3, <1>5, <1>8, <1>10, SMT DEF UnderWay
  <1>12. runRow[r].status \notin {"completed", "failed"}
    BY <1>1, SMT DEF RunSound
  <1> QED
    BY <1>1, <1>4, <1>5, <1>6, <1>7, <1>11, <1>12, SMT DEF RunSound

LEMMA RecordHealthSound ==
    ASSUME TypeOK, NEW r \in Runs, RunSound(r), RecordHealth(r)
    PROVE  /\ RunSound(r)'
           /\ Least(left[r]) \in left[r] /\ brandRow[r][Least(left[r])] = outcome[r]
  <1> DEFINE c == Least(left[r])
  <1>1. pc[r] = "rating" /\ pc'[r] = "collecting"
    BY SMT DEF RecordHealth, TypeOK
  <1>2. UnderWay(r)
    BY <1>1, SMT DEF RunSound, Active, Ended
  <1>3. left[r] \in SUBSET Brands /\ left[r] # {}
    BY <1>1, <1>2, SMT DEF UnderWay, TypeOK
  <1>4. c \in left[r] /\ c \in Brands
    BY <1>3, LeastIn
  <1>5. brandRow' = brandRow /\ runRow' = runRow /\ left'[r] = left[r] \ {c}
    BY SMT DEF RecordHealth, TypeOK
  <1>6. totals'[r] = Counted(totals[r], outcome[r]) /\ totals[r] \in Counts
    BY SMT DEF RecordHealth, TypeOK
  <1>7. brandRow[r][c] = outcome[r]
    BY <1>1, <1>2, <1>4, SMT DEF UnderWay
  <1>8. \A b \in left'[r] : brandRow'[r][b] = "none"
    BY <1>1, <1>2, <1>5, SMT DEF UnderWay
  <1>9. ASSUME NEW statuses
        PROVE  Cardinality(Rated(r, statuses)')
                 = Cardinality(Rated(r, statuses)) + IF outcome[r] \in statuses THEN 1 ELSE 0
    <2>1. Rated(r, statuses) \in SUBSET Brands /\ c \notin Rated(r, statuses)
      BY <1>4 DEF Rated
    <2>2. IsFiniteSet(Rated(r, statuses)) /\ Cardinality(Rated(r, statuses)) \in Nat
      BY <2>1, CountIsNat
    <2>3. Rated(r, statuses)' = IF outcome[r] \in statuses THEN Rated(r, statuses) \cup {c}
                                                          ELSE Rated(r, statuses)
      BY <1>4, <1>5, <1>7 DEF Rated
    <2>4. CASE outcome[r] \in statuses
      BY <2>1, <2>2, <2>3, <2>4, FS_AddElement
    <2>5. CASE outcome[r] \notin statuses
      BY <2>2, <2>3, <2>5
    <2> QED
      BY <2>4, <2>5
  <1>10. Cardinality(left'[r]) = Cardinality(left[r]) - 1 /\ Cardinality(left[r]) \in Nat
    BY <1>3, <1>4, <1>5, CountIsNat, FS_RemoveElement
  <1>11. outcome[r] \in {"ok", "partial", "failed"}
    BY SMT DEF TypeOK, Rows
  <1>12. UnderWay(r)'
    <2>1. totals'[r].ok = Cardinality(Rated(r, {"ok", "partial"})')
      BY <1>2, <1>6, <1>9, <1>11, CountedShape, SMT DEF UnderWay
    <2>2. totals'[r].failed = Cardinality(Rated(r, {"failed"})')
      BY <1>2, <1>6, <1>9, <1>11, CountedShape, SMT DEF UnderWay
    <2>3. totals'[r].total = Cardinality(left'[r]) + totals'[r].ok + totals'[r].failed
      BY <1>2, <1>6, <1>10, CountedShape, SMT DEF UnderWay, Counts
    <2> QED
      BY <1>1, <1>8, <2>1, <2>2, <2>3, SMT DEF UnderWay
  <1>13. runRow[r].status \notin {"completed", "failed"}
    BY <1>1, SMT DEF RunSound
  <1> QED
    BY <1>1, <1>4, <1>5, <1>7, <1>12, <1>13, SMT DEF RunSound

\* A run that ends by itself has no row for a brand it has left.
LEMMA FinishSound ==
    ASSUME TypeOK, NEW r \in Runs, RunSound(r), Finish(r) \/ Fail(r)
    PROVE  RunSound(r)'
  <1>1. PICK status \in {"completed", "failed"} :
          FinishRun(r, status) /\ (status = "completed" => left[r] = {})
    BY SMT DEF Finish, Fail
  <1>2. pc[r] \in {"collecting", "failing"} /\ pc'[r] = "done"
    BY <1>1, SMT DEF Finish, Fail, FinishRun, Leave, TypeOK
  <1>3. UnderWay(r)
    BY <1>2, SMT DEF RunSound, Active, Ended
  <1>4. brandRow' = brandRow /\ runRow'[r] = [status |-> status, counts |-> totals[r]]
    BY <1>1, SMT DEF FinishRun, TypeOK
  <1>5. \A b \in left[r] : brandRow[r][b] = "none"
    BY <1>2, <1>3, SMT DEF UnderWay
  <1>6. With(r, {"ok", "partial"})' = Cardinality(Rated(r, {"ok", "partial"}))
    <2>1. {b \in Brands : brandRow'[r][b] \in {"ok", "partial"}} = Rated(r, {"ok", "partial"})
      BY <1>4, <1>5, SMT DEF Rated
    <2> QED
      BY <2>1 DEF With
  <1>7. With(r, {"failed"})' = Cardinality(Rated(r, {"failed"}))
    <2>1. {b \in Brands : brandRow'[r][b] \in {"failed"}} = Rated(r, {"failed"})
      BY <1>4, <1>5, SMT DEF Rated
    <2> QED
      BY <2>1 DEF With
  <1>8. Agrees(r)'
    <2>1. left[r] = {} => totals[r].total = totals[r].ok + totals[r].failed
      BY <1>3, FS_EmptySet, SMT DEF UnderWay, TypeOK, Counts
    <2> QED
      BY <1>1, <1>3, <1>4, <1>6, <1>7, <2>1, SMT DEF Agrees, UnderWay
  <1> QED
    BY <1>2, <1>8, SMT DEF RunSound, Active, Ended

LEMMA DeathSound ==
    ASSUME TypeOK, NEW r \in Runs, RunSound(r), StatementFails(r) \/ Crash(r)
    PROVE  RunSound(r)'
  <1>1. Active(r) /\ pc'[r] = "dead" /\ runRow' = runRow
    BY SMT DEF StatementFails, Crash, Leave, TypeOK, tables
  <1>2. runRow[r].status \notin {"completed", "failed"}
    BY <1>1, SMT DEF RunSound, Active, Ended
  <1> QED
    BY <1>1, <1>2, SMT DEF RunSound, Active, Ended
-----------------------------------------------------------------------------
\* What a step of run r leaves as it was of run s.
Kept(s) ==
    /\ pc'[s] = pc[s] /\ left'[s] = left[s] /\ outcome'[s] = outcome[s]
    /\ totals'[s] = totals[s] /\ runRow'[s] = runRow[s] /\ brandRow'[s] = brandRow[s]

RunStep(r) ==
    \/ Start(r) \/ Collect(r) \/ Refused(r) \/ RecordBrand(r) \/ RecordHealth(r)
    \/ Finish(r) \/ Fail(r) \/ StatementFails(r) \/ Crash(r)

LEMMA StepKeepsOthers ==
    ASSUME TypeOK, NEW r \in Runs, RunStep(r), NEW s \in Runs, s # r
    PROVE  Kept(s)
  <1>1. CASE Start(r)
    BY <1>1, SMT DEF Start, TypeOK, Kept
  <1>2. CASE Collect(r) \/ Refused(r)
    BY <1>2, SMT DEF Collect, Refused, TypeOK, tables, Kept
  <1>3. CASE RecordBrand(r)
    BY <1>3, Zenon DEF RecordBrand, TypeOK, Kept
  <1>4. CASE RecordHealth(r)
    BY <1>4, SMT DEF RecordHealth, TypeOK, Kept
  <1>5. CASE Finish(r) \/ Fail(r)
    BY <1>5, SMT DEF Finish, Fail, FinishRun, Leave, TypeOK, Kept
  <1>6. CASE StatementFails(r) \/ Crash(r)
    BY <1>6, SMT DEF StatementFails, Crash, Leave, TypeOK, tables, Kept
  <1> QED
    BY <1>1, <1>2, <1>3, <1>4, <1>5, <1>6 DEF RunStep

LEMMA NextIsRunStep ==
    [Next]_vars <=> Tick \/ Over \/ UNCHANGED vars \/ \E r \in Runs : RunStep(r)
  BY DEF Next, RunStep

LEMMA LedgerStep == LedgerInv /\ [Next]_vars => LedgerInv'
  <1> SUFFICES ASSUME LedgerInv, [Next]_vars, NEW s \in Runs PROVE RunSound(s)'
    BY StepTyped DEF LedgerInv
  <1>1. TypeOK /\ RunSound(s)
    BY DEF LedgerInv
  <1>2. CASE Tick \/ Over \/ UNCHANGED vars
    BY <1>1, <1>2, OthersSound DEF Tick, Over, vars, tables
  <1>3. ASSUME NEW r \in Runs, RunStep(r) PROVE RunSound(s)'
    <2>1. CASE r = s
      BY <1>1, <1>3, <2>1, StartSound, CollectSound, RecordBrandSound, RecordHealthSound,
         FinishSound, DeathSound DEF RunStep
    <2>2. CASE r # s
      BY <1>1, <1>3, <2>2, StepKeepsOthers, OthersSound DEF Kept
    <2> QED
      BY <2>1, <2>2
  <1> QED
    BY <1>2, <1>3, NextIsRunStep
-----------------------------------------------------------------------------
\* The breaker is not touched, and nobody comes to owe it anything.
LEMMA EvidenceKept ==
    ASSUME NEW b \in Brands, EvidenceSound(b), failures[b] \in Nat,
           failures' = failures, openUntil' = openUntil, brandRow' = brandRow,
           Untold(b)' \subseteq Untold(b)
    PROVE  EvidenceSound(b)'
  <1>1. Failed(b)' = Failed(b)
    BY DEF Failed
  <1>2. IsFiniteSet(Failed(b))
    BY DEF EvidenceSound
  <1>3. (Failed(b) \ Untold(b)) \subseteq (Failed(b) \ Untold(b)')
    OBVIOUS
  <1>4. IsFiniteSet(Failed(b) \ Untold(b)')
    BY <1>2, FS_Difference
  <1>5. Cardinality(Failed(b) \ Untold(b)) <= Cardinality(Failed(b) \ Untold(b)')
    BY <1>3, <1>4, FS_Subset
  <1>6. /\ Cardinality(Failed(b) \ Untold(b)) \in Nat
        /\ Cardinality(Failed(b) \ Untold(b)') \in Nat
    BY <1>2, FS_Difference, FS_CardinalityType
  <1>7. Closed' = Closed
    BY DEF Closed
  <1> QED
    BY <1>1, <1>2, <1>5, <1>6, <1>7, SMT DEF EvidenceSound

\* A run whose step leaves it not rating owes no breaker anything.
LEMMA UntoldShrinks ==
    ASSUME TypeOK, NEW r \in Runs, RunStep(r), pc'[r] # "rating", NEW b \in Brands
    PROVE  Untold(b)' = Untold(b) \ {r}
  <1>1. \A s \in Runs : s # r => pc'[s] = pc[s] /\ left'[s] = left[s]
    BY StepKeepsOthers DEF Kept
  <1> QED
    BY <1>1 DEF Untold

\* The row of a brand and the debt to its breaker come together.
LEMMA RecordBrandEvidence ==
    ASSUME LedgerInv, NEW r \in Runs, RecordBrand(r), NEW b \in Brands, EvidenceSound(b)
    PROVE  EvidenceSound(b)'
  <1> DEFINE c == Least(left[r])
  <1>1. TypeOK /\ RunSound(r) /\ RunStep(r)
    BY DEF LedgerInv, RunStep
  <1>2. c \in left[r] /\ brandRow[r][c] = "none"
    BY <1>1, RecordBrandSound
  <1>3. brandRow'[r] = [brandRow[r] EXCEPT ![c] = outcome[r]]
    BY <1>1, RecordBrandSound
  <1>4. brandRow[r] \in [Brands -> Rows]
    BY <1>1, SMT DEF TypeOK
  <1>5. \A s \in Runs : s # r =>
           pc'[s] = pc[s] /\ left'[s] = left[s] /\ brandRow'[s] = brandRow[s]
    BY <1>1, StepKeepsOthers DEF Kept
  <1>6. pc[r] = "recording" /\ pc'[r] = "rating" /\ left' = left
    BY <1>1, SMT DEF RecordBrand, TypeOK
  <1>7. Failed(b)' \ Untold(b)' = Failed(b) \ Untold(b)
    <2>1. ASSUME NEW s \in Runs, s # r
          PROVE  s \in Failed(b)' \ Untold(b)' <=> s \in Failed(b) \ Untold(b)
      BY <1>5, <2>1 DEF Failed, Untold
    <2>2. r \in Failed(b)' \ Untold(b)' <=> r \in Failed(b) \ Untold(b)
      <3>1. CASE b = c
        <4>1. r \notin Failed(b)
          BY <1>2, <3>1, SMT DEF Failed
        <4>2. r \in Untold(b)'
          BY <1>6, <3>1 DEF Untold
        <4> QED
          BY <4>1, <4>2
      <3>2. CASE b # c
        <4>1. brandRow'[r][b] = brandRow[r][b]
          BY <1>3, <1>4, <3>2, Zenon
        <4>2. r \notin Untold(b) /\ r \notin Untold(b)'
          BY <1>6, <3>2, SMT DEF Untold
        <4> QED
          BY <4>1, <4>2 DEF Failed
      <3> QED
        BY <3>1, <3>2
    <2> QED
      BY <2>1, <2>2 DEF Failed
  <1>8. IsFiniteSet(Failed(b)')
    <2>1. Failed(b)' \subseteq Failed(b) \cup {r}
      BY <1>5 DEF Failed
    <2>2. IsFiniteSet(Failed(b) \cup {r})
      BY FS_AddElement DEF EvidenceSound
    <2> QED
      BY <2>1, <2>2, FS_Subset
  <1>9. failures' = failures /\ openUntil' = openUntil /\ Closed' = Closed
    BY DEF RecordBrand, Closed
  <1> QED
    BY <1>7, <1>8, <1>9 DEF EvidenceSound

\* What the breaker counts is what the run has just stopped to owe it.
LEMMA RecordHealthEvidence ==
    ASSUME LedgerInv, NEW r \in Runs, RecordHealth(r), NEW b \in Brands, EvidenceSound(b)
    PROVE  EvidenceSound(b)'
  <1> DEFINE c == Least(left[r])
  <1>1. TypeOK /\ RunSound(r) /\ RunStep(r)
    BY DEF LedgerInv, RunStep
  <1>2. c \in left[r] /\ brandRow[r][c] = outcome[r]
    BY <1>1, RecordHealthSound
  <1>3. pc[r] = "rating" /\ pc'[r] = "collecting"
    BY <1>1, SMT DEF RecordHealth, TypeOK
  <1>4. Untold(b)' = Untold(b) \ {r}
    BY <1>1, <1>3, UntoldShrinks
  <1>5. Failed(b)' = Failed(b) /\ Closed' = Closed
    BY DEF RecordHealth, Failed, Closed
  <1>6. failures \in [Brands -> Nat] /\ openUntil \in [Brands -> Nat]
    BY <1>1 DEF TypeOK
  <1>7. /\ IsFiniteSet(Failed(b)) /\ IsFiniteSet(Failed(b) \ Untold(b))
        /\ Cardinality(Failed(b) \ Untold(b)) \in Nat
    BY FS_Difference, FS_CardinalityType DEF EvidenceSound
  <1>8. CASE b # c
    <2>1. r \notin Untold(b)
      BY <1>8 DEF Untold
    <2>2. failures'[b] = failures[b] /\ openUntil'[b] = openUntil[b]
      BY <1>6, <1>8 DEF RecordHealth
    <2>3. Untold(b)' = Untold(b)
      BY <1>4, <2>1
    <2> QED
      BY <1>5, <2>2, <2>3 DEF EvidenceSound
  <1>9. CASE b = c /\ outcome[r] # "failed"
    <2>1. failures'[b] = 0 /\ openUntil'[b] = Closed
      BY <1>6, <1>9 DEF RecordHealth
    <2>2. Cardinality(Failed(b) \ Untold(b)') \in Nat
      BY <1>7, FS_Difference, FS_CardinalityType
    <2> QED
      BY <1>5, <1>7, <2>1, <2>2, SMT DEF EvidenceSound
  <1>10. CASE b = c /\ outcome[r] = "failed"
    <2>1. r \in Failed(b) /\ r \in Untold(b)
      BY <1>2, <1>3, <1>10 DEF Failed, Untold
    <2>2. Failed(b) \ Untold(b)' = (Failed(b) \ Untold(b)) \cup {r}
      BY <1>4, <2>1
    <2>3. Cardinality(Failed(b) \ Untold(b)') = Cardinality(Failed(b) \ Untold(b)) + 1
      BY <1>7, <2>1, <2>2, FS_AddElement
    <2>4. failures'[b] = failures[b] + 1
      BY <1>6, <1>10 DEF RecordHealth
    <2>5. openUntil'[b] # openUntil[b] => failures[b] + 1 >= Threshold
      BY <1>6, <1>10 DEF RecordHealth
    <2>6. failures[b] \in Nat /\ Threshold \in Nat
      BY <1>6, RunAssumption
    <2>7. openUntil'[b] # Closed => failures[b] + 1 >= Threshold
      BY <2>5, <2>6, SMT DEF EvidenceSound
    <2> QED
      BY <1>5, <1>7, <2>3, <2>4, <2>6, <2>7, SMT DEF EvidenceSound
  <1> QED
    BY <1>8, <1>9, <1>10

LEMMA EvidenceStep == EvidenceInv /\ [Next]_vars => EvidenceInv'
  <1> SUFFICES ASSUME EvidenceInv, [Next]_vars, NEW b \in Brands PROVE EvidenceSound(b)'
    BY LedgerStep DEF EvidenceInv
  <1>1. LedgerInv /\ TypeOK /\ EvidenceSound(b) /\ failures[b] \in Nat
    BY DEF EvidenceInv, LedgerInv, TypeOK
  <1>2. CASE Tick \/ Over \/ UNCHANGED vars
    <2>1. /\ failures' = failures /\ openUntil' = openUntil /\ brandRow' = brandRow
          /\ pc' = pc /\ left' = left
      BY <1>2 DEF Tick, Over, vars, tables
    <2>2. Untold(b)' = Untold(b)
      BY <2>1 DEF Untold
    <2> QED
      BY <1>1, <2>1, <2>2, EvidenceKept
  <1>3. ASSUME NEW r \in Runs, RunStep(r) PROVE EvidenceSound(b)'
    <2>1. CASE RecordBrand(r)
      BY <1>1, <2>1, RecordBrandEvidence
    <2>2. CASE RecordHealth(r)
      BY <1>1, <2>2, RecordHealthEvidence
    <2>3. CASE ~RecordBrand(r) /\ ~RecordHealth(r)
      <3>1. failures' = failures /\ openUntil' = openUntil /\ brandRow' = brandRow
        BY <1>3, <2>3 DEF RunStep, Start, Collect, Refused, Finish, Fail, FinishRun,
              StatementFails, Crash, tables
      <3>2. pc'[r] # "rating"
        BY <1>1, <1>3, <2>3, SMT DEF RunStep, Start, Collect, Refused, Finish, Fail,
              FinishRun, Leave, StatementFails, Crash, TypeOK
      <3>3. Untold(b)' \subseteq Untold(b)
        BY <1>1, <1>3, <3>2, UntoldShrinks
      <3> QED
        BY <1>1, <3>1, <3>3, EvidenceKept
    <2> QED
      BY <2>1, <2>2, <2>3
  <1> QED
    BY <1>2, <1>3, NextIsRunStep

LEMMA EvidenceAlways == Spec => []EvidenceInv
  BY InitInv, EvidenceStep, PTL DEF Spec

\* The ledgers and the breaker keep their types (TypeOK).
THEOREM TypeCorrect == Spec => []TypeOK
  <1>1. EvidenceInv => TypeOK
    BY DEF EvidenceInv, LedgerInv
  <1> QED
    BY <1>1, EvidenceAlways, PTL

\* A run's row counts exactly the brands that have such a row, also when the run
\* failed half-way or others ran beside it (LedgersAgree).
THEOREM LedgersAlwaysAgree == Spec => []LedgersAgree
  <1>1. EvidenceInv => LedgersAgree
    BY DEF EvidenceInv, LedgerInv, RunSound, Agrees, LedgersAgree
  <1> QED
    BY <1>1, EvidenceAlways, PTL

\* No circuit is open without its failures in the ledger, however many runs rate
\* a brand at once, stop half-way or die (OpenOnEvidence).
THEOREM AlwaysOpenOnEvidence == Spec => []OpenOnEvidence
  <1> SUFFICES EvidenceInv => OpenOnEvidence
    BY EvidenceAlways, PTL
  <1> SUFFICES ASSUME EvidenceInv, NEW b \in Brands
               PROVE  /\ failures[b] <= Cardinality(Failed(b))
                      /\ openUntil[b] # Closed => failures[b] >= Threshold
    BY DEF OpenOnEvidence
  <1>1. EvidenceSound(b) /\ failures[b] \in Nat
    BY DEF EvidenceInv, LedgerInv, TypeOK
  <1>2. IsFiniteSet(Failed(b))
    BY <1>1 DEF EvidenceSound
  <1>3. /\ Cardinality(Failed(b) \ Untold(b)) <= Cardinality(Failed(b))
        /\ Cardinality(Failed(b) \ Untold(b)) \in Nat /\ Cardinality(Failed(b)) \in Nat
    BY <1>2, FS_Difference, FS_Subset, FS_CardinalityType
  <1> QED
    BY <1>1, <1>3, SMT DEF EvidenceSound
-----------------------------------------------------------------------------
(* While no runs overlap, the breaker counts a streak.                      *)

\* What r recorded of b and has since told the breaker, or died without telling.
Settled(r, b) == ~(pc[r] = "rating" /\ Least(left[r]) = b)
ToldStreak(b) ==
    {r \in Runs : /\ brandRow[r][b] = "failed" /\ Settled(r, b)
                  /\ \A s \in Runs : s > r => ~(Forgiven(s, b) /\ Settled(s, b))}

\* Runs start in the order of their ids, and the one under way is the latest.
InOrder == \A r, s \in Runs : pc[r] = "waiting" /\ s > r => pc[s] = "waiting"
Latest == \A r, s \in Runs : Active(r) /\ s > r => pc[s] = "waiting"

StreakInv ==
    /\ InOrder
    /\ ~raced => Latest /\ \A b \in Brands : failures[b] <= Cardinality(ToldStreak(b))

\* A run that steps has started, and the first of its steps is its start.
LEMMA StepStarts ==
    ASSUME TypeOK, NEW r \in Runs, RunStep(r)
    PROVE  pc'[r] # "waiting" /\ (~Active(r) => Start(r))
<1>1. CASE Start(r)
  BY <1>1 DEF Start, TypeOK
<1>2. CASE Collect(r) \/ Refused(r) \/ RecordBrand(r) \/ RecordHealth(r)
  BY <1>2, SMT DEF Collect, Refused, RecordBrand, RecordHealth, TypeOK, Active, Ended
<1>3. CASE Finish(r) \/ Fail(r)
  BY <1>3, SMT DEF Finish, Fail, FinishRun, Leave, TypeOK, Active, Ended
<1>4. CASE StatementFails(r) \/ Crash(r)
  BY <1>4, SMT DEF StatementFails, Crash, Leave, TypeOK, Active, Ended
<1>5. QED
  BY <1>1, <1>2, <1>3, <1>4 DEF RunStep

\* Runs start in order, and alone unless they race.
LEMMA OrderStep ==
    ASSUME TypeOK, NEW r \in Runs, RunStep(r), InOrder, ~raced => Latest
    PROVE  /\ InOrder' /\ (~raced' => ~raced /\ Latest')
           /\ ~raced' => \A s \in Runs : s > r => pc[s] = "waiting"
<1> USE RunAssumption
<1>1. \A s \in Runs : s # r => pc'[s] = pc[s]
  BY StepKeepsOthers DEF Kept
<1>2. pc'[r] # "waiting"
  BY StepStarts
<1>3. CASE Start(r)
  <2>1. pc[r] = "waiting" /\ \A s \in Runs : s < r => pc[s] # "waiting"
    BY <1>3 DEF Start
  <2>2. ~raced' => ~raced /\ \A s \in Runs : ~Active(s)
    BY <1>3, Zenon DEF Start, TypeOK
  <2>3. \A s \in Runs : s > r => pc[s] = "waiting"
    BY <2>1 DEF InOrder
  <2>4. InOrder'
    <3> SUFFICES ASSUME NEW s \in Runs, NEW t \in Runs, pc'[s] = "waiting", t > s
                 PROVE  pc'[t] = "waiting"
      BY DEF InOrder
    <3>1. s # r /\ pc[s] = "waiting"
      BY <1>1, <1>2
    <3>2. s > r
      BY <2>1, <3>1
    <3>3. t # r /\ t > r
      BY <3>2
    <3>4. QED
      BY <1>1, <2>3, <3>3
  <2>5. ~raced' => Latest'
    BY <1>1, <2>2, <2>3 DEF Latest, Active
  <2>6. QED
    BY <2>2, <2>3, <2>4, <2>5
<1>4. CASE ~Start(r)
  <2>1. Active(r) /\ pc[r] # "waiting"
    BY <1>4, StepStarts DEF Active
  <2>2. raced' = raced
    BY <1>4, SMT DEF RunStep, Collect, Refused, RecordBrand, RecordHealth, Finish, Fail,
       FinishRun, StatementFails, Crash
  <2>3. InOrder'
    BY <1>1, <1>2, <2>1 DEF InOrder
  <2>4. ~raced => Latest'
    BY <1>1, <2>1 DEF Latest, Active
  <2>5. QED
    BY <2>1, <2>2, <2>3, <2>4 DEF Latest
<1>5. QED
  BY <1>3, <1>4

\* A breaker that is not touched still counts no more than a streak that has
\* lost no run.
LEMMA StreakKept ==
    ASSUME NEW b \in Brands, failures[b] \in Nat, IsFiniteSet(Failed(b)'),
           failures[b] <= Cardinality(ToldStreak(b)), failures'[b] = failures[b],
           ToldStreak(b) \subseteq ToldStreak(b)'
    PROVE  failures'[b] <= Cardinality(ToldStreak(b)')
<1>1. IsFiniteSet(ToldStreak(b)')
  BY FS_Subset DEF ToldStreak, Failed
<1>2. /\ Cardinality(ToldStreak(b)) <= Cardinality(ToldStreak(b)')
      /\ Cardinality(ToldStreak(b)) \in Nat /\ Cardinality(ToldStreak(b)') \in Nat
  BY <1>1, FS_Subset, FS_CardinalityType
<1>3. QED
  BY <1>2

\* What a run says of a brand enters the streak when the breaker is told.
LEMMA StreakStep ==
    ASSUME EvidenceInv, EvidenceInv', NEW r \in Runs, RunStep(r), NEW b \in Brands,
           failures[b] <= Cardinality(ToldStreak(b)),
           \A s \in Runs : s > r => pc[s] = "waiting"
    PROVE  failures'[b] <= Cardinality(ToldStreak(b)')
<1> DEFINE c == Least(left[r])
<1>0. TypeOK /\ RunSound(r) /\ failures \in [Brands -> Nat] /\ failures[b] \in Nat
  BY DEF EvidenceInv, LedgerInv, TypeOK
<1>1. IsFiniteSet(Failed(b)) /\ IsFiniteSet(Failed(b)')
  BY DEF EvidenceInv, EvidenceSound
<1>2. \A s \in Runs : s # r =>
        /\ brandRow'[s] = brandRow[s]
        /\ Forgiven(s, b)' = Forgiven(s, b) /\ Settled(s, b)' = Settled(s, b)
  BY <1>0, StepKeepsOthers DEF Kept, Forgiven, Settled
<1>3. CASE RecordBrand(r)
  <2>1. /\ pc[r] = "recording" /\ pc'[r] = "rating" /\ left' = left
        /\ failures' = failures
        /\ brandRow[r][c] = "none" /\ brandRow[r] \in [Brands -> Rows]
        /\ brandRow'[r] = [brandRow[r] EXCEPT ![c] = outcome[r]]
    BY <1>0, <1>3, RecordBrandSound DEF RecordBrand, TypeOK
  <2>2. ~(Forgiven(r, b) /\ Settled(r, b))' \/ (Forgiven(r, b) /\ Settled(r, b))
    BY <2>1 DEF Forgiven, Settled
  <2>3. r \in ToldStreak(b) => b # c
    BY <2>1 DEF ToldStreak
  <2>4. b # c => brandRow'[r][b] = brandRow[r][b] /\ Settled(r, b)'
    BY <2>1 DEF Settled
  <2>5. ToldStreak(b) \subseteq ToldStreak(b)'
    BY <1>2, <2>2, <2>3, <2>4 DEF ToldStreak
  <2>6. QED
    BY <1>0, <1>1, <2>1, <2>5, StreakKept
<1>4. CASE RecordHealth(r)
  <2>1. /\ pc[r] = "rating" /\ pc'[r] = "collecting" /\ brandRow' = brandRow
        /\ c \in left[r] /\ brandRow[r][c] = outcome[r]
    BY <1>0, <1>4, RecordHealthSound DEF RecordHealth, TypeOK
  <2>2. CASE b # c
    <3>1. failures'[b] = failures[b]
      BY <1>0, <1>4, <2>2 DEF RecordHealth
    <3>2. Settled(r, b)' = Settled(r, b) /\ Forgiven(r, b)' = Forgiven(r, b)
      BY <2>1, <2>2 DEF Settled, Forgiven
    <3>3. ToldStreak(b) \subseteq ToldStreak(b)'
      BY <1>2, <2>1, <3>2 DEF ToldStreak
    <3>4. QED
      BY <1>0, <1>1, <3>1, <3>3, StreakKept
  <2>3. CASE b = c /\ outcome[r] # "failed"
    <3>1. failures'[b] = 0
      BY <1>0, <1>4, <2>3 DEF RecordHealth
    <3>2. Cardinality(ToldStreak(b)') \in Nat
      BY <1>1, FS_Subset, FS_CardinalityType DEF ToldStreak, Failed
    <3>3. QED
      BY <3>1, <3>2
  <2>4. CASE b = c /\ outcome[r] = "failed"
    <3>1. failures'[b] = failures[b] + 1
      BY <1>0, <1>4, <2>4 DEF RecordHealth
    <3>2. \A s \in Runs : s > r => ~Forgiven(s, b)'
      <4>1. \A s \in Runs : s > r => s # r /\ brandRow[s][b] = "none"
        BY RunAssumption DEF EvidenceInv, LedgerInv, RunSound
      <4>2. QED
        BY <2>1, <4>1 DEF Forgiven
    <3>3. ~Settled(r, b) /\ Settled(r, b)' /\ brandRow'[r][b] = "failed"
      BY <2>1, <2>4 DEF Settled
    <3>4. ~Forgiven(r, b)'
      BY <3>3 DEF Forgiven
    <3>5. (ToldStreak(b) \cup {r}) \subseteq ToldStreak(b)' /\ r \notin ToldStreak(b)
      BY <1>2, <2>1, <3>2, <3>3, <3>4 DEF ToldStreak
    <3>6. IsFiniteSet(ToldStreak(b)) /\ IsFiniteSet(ToldStreak(b)')
      BY <1>1, FS_Subset DEF ToldStreak, Failed
    <3>7. Cardinality(ToldStreak(b) \cup {r}) = Cardinality(ToldStreak(b)) + 1
      BY <3>5, <3>6, FS_AddElement
    <3>8. /\ Cardinality(ToldStreak(b) \cup {r}) <= Cardinality(ToldStreak(b)')
          /\ Cardinality(ToldStreak(b)) \in Nat /\ Cardinality(ToldStreak(b)') \in Nat
      BY <3>5, <3>6, FS_Subset, FS_CardinalityType
    <3>9. QED
      BY <1>0, <3>1, <3>7, <3>8
  <2>5. QED
    BY <2>2, <2>3, <2>4
<1>5. CASE ~RecordBrand(r) /\ ~RecordHealth(r)
  <2>1. failures' = failures /\ brandRow' = brandRow
    BY <1>5 DEF RunStep, Start, Collect, Refused, Finish, Fail, FinishRun,
          StatementFails, Crash, tables
  <2>2. pc'[r] # "rating"
    BY <1>0, <1>5, SMT DEF RunStep, Start, Collect, Refused, Finish, Fail,
          FinishRun, Leave, StatementFails, Crash, TypeOK
  <2>3. (Forgiven(r, b) /\ Settled(r, b))' => Forgiven(r, b) /\ Settled(r, b)
    <3>1. pc[r] = "dead" \/ pc[r] = "rating" => pc'[r] = "dead"
      BY <1>0, <1>5, SMT DEF RunStep, Start, Collect, Refused, Finish, Fail,
            FinishRun, Leave, StatementFails, Crash, TypeOK, Active, Ended
    <3>2. QED
      BY <2>1, <3>1 DEF Forgiven, Settled
  <2>4. Settled(r, b)'
    BY <2>2 DEF Settled
  <2>5. ToldStreak(b) \subseteq ToldStreak(b)'
    BY <1>2, <2>1, <2>3, <2>4 DEF ToldStreak
  <2>6. QED
    BY <1>0, <1>1, <2>1, <2>5, StreakKept
<1>6. QED
  BY <1>3, <1>4, <1>5

LEMMA StreakAlways == Spec => []StreakInv
<1>1. Init => StreakInv
  <2> SUFFICES ASSUME Init PROVE StreakInv
    OBVIOUS
  <2>1. InOrder /\ Latest
    BY DEF Init, InOrder, Latest, Active
  <2>2. ASSUME NEW b \in Brands PROVE failures[b] <= Cardinality(ToldStreak(b))
    <3>1. failures[b] = 0 /\ ToldStreak(b) = {}
      BY DEF Init, ToldStreak
    <3>2. QED
      BY <3>1, FS_EmptySet
  <2>3. QED
    BY <2>1, <2>2 DEF StreakInv
<1>2. StreakInv /\ EvidenceInv /\ EvidenceInv' /\ [Next]_vars => StreakInv'
  <2> SUFFICES ASSUME StreakInv, EvidenceInv, EvidenceInv', [Next]_vars PROVE StreakInv'
    OBVIOUS
  <2>1. CASE Tick \/ Over \/ UNCHANGED vars
    <3>1. /\ UNCHANGED <<failures, brandRow, pc, left, raced>>
      BY <2>1 DEF Tick, Over, vars, tables
    <3>2. \A b \in Brands : ToldStreak(b)' = ToldStreak(b)
      BY <3>1 DEF ToldStreak, Settled, Forgiven
    <3>3. QED
      BY <3>1, <3>2 DEF StreakInv, InOrder, Latest, Active
  <2>2. ASSUME NEW r \in Runs, RunStep(r) PROVE StreakInv'
    <3>1. /\ InOrder' /\ (~raced' => ~raced /\ Latest')
          /\ ~raced' => \A s \in Runs : s > r => pc[s] = "waiting"
      BY <2>2, OrderStep DEF StreakInv, EvidenceInv, LedgerInv
    <3>2. ASSUME ~raced', NEW b \in Brands
          PROVE  failures'[b] <= Cardinality(ToldStreak(b)')
      BY <2>2, <3>1, <3>2, StreakStep DEF StreakInv
    <3>3. QED
      BY <3>1, <3>2 DEF StreakInv
  <2>3. QED
    BY <2>1, <2>2, NextIsRunStep
<1>3. QED
  BY <1>1, <1>2, EvidenceAlways, PTL DEF Spec

\* BreakerCountsStreak: as long as no two runs have been under way at once, the
\* breaker of a brand counts no more failures than the ledger shows after the
\* brand's last success, whatever statements fail and wherever runs die.
THEOREM BreakerAlwaysCountsStreak == Spec => []BreakerCountsStreak
<1>1. StreakInv /\ EvidenceInv => BreakerCountsStreak
  <2> SUFFICES ASSUME StreakInv, EvidenceInv, ~raced, NEW b \in Brands,
                      \A r \in Runs : ~InFlight(r)
               PROVE  failures[b] <= Cardinality(Streak(b))
    BY DEF BreakerCountsStreak
  <2>1. ASSUME NEW r \in Runs, Forgiven(r, b) PROVE Settled(r, b)
    <3> SUFFICES ASSUME pc[r] = "rating", Least(left[r]) = b PROVE FALSE
      BY DEF Settled
    <3>1. UnderWay(r)
      BY DEF EvidenceInv, LedgerInv, RunSound, Active, Ended
    <3>2. left[r] \in SUBSET Brands /\ left[r] # {}
      BY <3>1 DEF UnderWay, EvidenceInv, LedgerInv, TypeOK
    <3>3. b \in left[r]
      BY <3>2, LeastIn
    <3>4. brandRow[r][b] = outcome[r]
      BY <3>1, <3>3 DEF UnderWay
    <3>5. QED
      BY <2>1, <3>4 DEF Forgiven, InFlight
  <2>2. ToldStreak(b) \subseteq Streak(b)
    BY <2>1 DEF ToldStreak, Streak
  <2>3. IsFiniteSet(Streak(b))
    <3>1. IsFiniteSet(Failed(b)) /\ Streak(b) \in SUBSET Failed(b)
      BY DEF EvidenceInv, EvidenceSound, Streak, Failed
    <3>2. QED
      BY <3>1, FS_Subset
  <2>4. /\ Cardinality(ToldStreak(b)) <= Cardinality(Streak(b))
        /\ Cardinality(ToldStreak(b)) \in Nat /\ Cardinality(Streak(b)) \in Nat
    BY <2>2, <2>3, FS_Subset, FS_CardinalityType
  <2>5. failures[b] \in Nat
    BY DEF EvidenceInv, LedgerInv, TypeOK
  <2>6. QED
    BY <2>4, <2>5 DEF StreakInv
<1>2. QED
  BY <1>1, StreakAlways, EvidenceAlways, PTL
=============================================================================
