----------------------- MODULE ObservationWindowProofs -----------------------
(***************************************************************************)
(* Proofs about ObservationWindow, for any documents and any bound on the  *)
(* clock.  A change row is computed from three instants that lie apart -   *)
(* of a fetch, of a transaction's start, of the call - so the invariant    *)
(* says how they are ordered while a pass is under way.                    *)
(***************************************************************************)
EXTENDS ObservationWindow, SequenceTheorems, TLAPS

\* What a change row claims is what the bank did.
RowSound(row) ==
    row.from # Absent =>
        /\ row.sighted \in 1 .. clock
        /\ row.sighted <= row.after /\ row.after <= row.before /\ row.before <= clock
        /\ bank[row.sighted] = row.from
        /\ \E t \in row.after .. row.before : bank[t] = row.to

FeedSound(feed) == \A n \in DOMAIN feed : RowSound(feed[n])

\* The current document was sighted, and its last_seen_at is no earlier.
CurrentSound(tables) ==
    tables.current # Absent =>
        /\ tables.sighted \in 1 .. clock
        /\ tables.sighted <= tables.lastSeen[tables.current]
        /\ bank[tables.sighted] = tables.current

TablesSound(tables) ==
    /\ FeedSound(tables.feed)
    /\ CurrentSound(tables)
    /\ \A c \in Contents : tables.lastSeen[c] <= clock

\* The detail was fetched before the open transaction began, after every
\* last_seen_at; a product that was not listed was not published since then.
DetailSound ==
    /\ pc \in {"idle", "listed"} => got.doc = Absent
    /\ got.doc # Absent => listed /\ got.at \in 1 .. clock /\ bank[got.at] = got.doc
    /\ began > 0 => got.at <= began
    /\ pc = "storing" => \A c \in Contents : mine.lastSeen[c] <= got.at
AbsenceSound ==
    pc # "idle" /\ ~listed =>
        \E t \in 1 .. clock : bank[t] = Absent /\ \A c \in Contents : mine.lastSeen[c] <= t

WindowInv ==
    /\ TypeOK
    /\ TablesSound(db) /\ TablesSound(mine)
    /\ DetailSound /\ AbsenceSound
-----------------------------------------------------------------------------
(* Types                                                                    *)

\* A change row of a transaction that is open has the types of a row.
LEMMA ChangeRowTyped ==
    ASSUME TypeOK, NEW to \in Docs
    PROVE  ChangeRow(mine.current, to, ObservedAfter) \in RowType
  <1>1. clock \in Times
    BY WindowAssumption, SMT DEF TypeOK, Times
  <1>2. ObservedAfter \in Times
    BY <1>1, WindowAssumption, SMT DEF TypeOK, ObservedAfter, Tables, Docs, Times
  <1> QED
    BY <1>1, <1>2, SMT DEF TypeOK, ChangeRow, RowType, Tables

LEMMA InitTyped == Init => TypeOK
  <1> SUFFICES ASSUME Init PROVE TypeOK
    OBVIOUS
  <1>1. NoTables \in Tables
    BY WindowAssumption, SMT DEF NoTables, Tables, Docs, Times
  <1>2. bank \in [1 .. clock -> Docs]
    BY SMT DEF Init
  <1>3. got \in [doc : Docs, at : 0 .. clock]
    BY SMT DEF Init, NoDetail, Docs
  <1> QED
    <2>1. clock \in 1 .. MaxTime /\ began \in 0 .. clock
      BY WindowAssumption, SMT DEF Init
    <2> QED
      BY <1>1, <1>2, <1>3, <2>1, Zenon DEF Init, TypeOK

LEMMA StepTyped == TypeOK /\ [Next]_vars => TypeOK'
  <1> SUFFICES ASSUME TypeOK, [Next]_vars PROVE TypeOK'
    OBVIOUS
  <1>1. CASE Tick
    <2>1. clock' \in 1 .. MaxTime
      BY <1>1, WindowAssumption, SMT DEF Tick, TypeOK
    <2>2. bank' \in [1 .. clock' -> Docs]
      <3>1. PICK d \in Docs : bank' = Append(bank, d)
        BY <1>1 DEF Tick
      <3>2. bank \in Seq(Docs) /\ Len(bank) = clock
        <4>1. clock \in Nat \ {0} /\ bank \in [1 .. clock -> Docs]
          BY SMT DEF TypeOK
        <4>2. bank \in Seq(Docs)
          BY <4>1, SeqDef, Zenon
        <4>3. Len(bank) \in Nat /\ 1 .. Len(bank) = 1 .. clock
          BY <4>1, <4>2, SMT
        <4>4. clock \in 1 .. Len(bank)
          BY <4>1, <4>3, SMT
        <4>5. Len(bank) \in 1 .. clock
          BY <4>3, <4>4, SMT
        <4> QED
          BY <4>1, <4>2, <4>4, <4>5, SMT
      <3>3. bank' \in Seq(Docs) /\ Len(bank') = clock + 1
        BY <3>1, <3>2, SMT
      <3> QED
        BY <1>1, <3>3, LenProperties DEF Tick
    <2>3. got' \in [doc : Docs, at : 0 .. clock']
      BY <1>1, SMT DEF Tick, pass, TypeOK
    <2> QED
      BY <1>1, <2>1, <2>2, <2>3, SMT DEF Tick, pass, TypeOK
  <1>2. CASE List
    BY <1>2, SMT DEF List, TypeOK, Tables
  <1>3. CASE Fetch
    BY <1>3, SMT DEF Fetch, TypeOK, Tables, Docs
  <1>4. CASE BeginTxn
    BY <1>4, SMT DEF BeginTxn, pass, TypeOK, Tables
  <1>5. CASE QuarantineOther
    BY <1>5, SMT DEF QuarantineOther, pass, TypeOK, Tables
  <1>6. CASE Store
    <2>1. ChangeRow(mine.current, got.doc, ObservedAfter) \in RowType
      BY ChangeRowTyped, SMT DEF TypeOK
    <2>2. Seen(got.doc) \in [Contents -> Times]
      <3>1. mine.lastSeen \in [Contents -> Times] /\ began \in Times
        BY WindowAssumption, SMT DEF TypeOK, Tables, Times
      <3>2. Seen(got.doc) = [c \in Contents |-> IF c = got.doc THEN began
                                                ELSE mine.lastSeen[c]]
        BY <3>1, Zenon DEF Seen
      <3> QED
        BY <3>1, <3>2, SMT
    <2>3. mine'.feed \in Seq(RowType)
      BY <1>6, <2>1, SMT DEF Store, TypeOK, Tables
    <2>4. mine' \in Tables
      BY <1>6, <2>2, <2>3, WindowAssumption, SMT DEF Store, TypeOK, Tables, Times
    <2> QED
      BY <1>6, <2>4, SMT DEF Store, TypeOK
  <1>7. CASE Skip
    BY <1>7, SMT DEF Skip, TypeOK, Tables
  <1>8. CASE Withdraw
    <2>1. ChangeRow(mine.current, Absent, ObservedAfter) \in RowType
      BY ChangeRowTyped, SMT DEF Docs
    <2>2. mine' \in Tables
      <3>1. mine'.feed \in Seq(RowType)
        BY <1>8, <2>1, SMT DEF Withdraw, TypeOK, Tables
      <3>2. mine' = [current |-> mine.current, available |-> FALSE,
                     lastSeen |-> mine.lastSeen, feed |-> mine'.feed,
                     sighted |-> mine.sighted]
        <4>1. mine \in Tables
          BY DEF TypeOK
        <4>2. mine = [current |-> mine.current, available |-> mine.available,
                      lastSeen |-> mine.lastSeen, feed |-> mine.feed,
                      sighted |-> mine.sighted]
          BY <4>1, SMT DEF Tables
        <4>3. mine' = [mine EXCEPT !.available = FALSE, !.feed = mine'.feed]
          BY <1>8, <4>2, Zenon DEF Withdraw
        <4> QED
          BY <4>2, <4>3, Zenon
      <3>3. /\ mine.current \in Docs /\ mine.sighted \in Times
            /\ mine.lastSeen \in [Contents -> Times]
        BY SMT DEF TypeOK, Tables
      <3>4. [current |-> mine.current, available |-> FALSE, lastSeen |-> mine.lastSeen,
             feed |-> mine'.feed, sighted |-> mine.sighted] \in Tables
        BY <3>1, <3>3, SMT DEF Tables
      <3> QED
        BY <3>2, <3>4
    <2> QED
      BY <1>8, <2>2, SMT DEF Withdraw, TypeOK
  <1>9. CASE Commit
    <2>1. NoDetail \in [doc : Docs, at : 0 .. clock]
      BY SMT DEF NoDetail, Docs, TypeOK
    <2>2. began' \in 0 .. clock'
      BY <1>9, SMT DEF Commit, TypeOK
    <2> QED
      BY <1>9, <2>1, <2>2, Zenon DEF Commit, EndPass, TypeOK
  <1>10. CASE Abort
    <2>1. NoDetail \in [doc : Docs, at : 0 .. clock]
      BY SMT DEF NoDetail, Docs, TypeOK
    <2>2. began' \in 0 .. clock'
      BY <1>10, SMT DEF Abort, TypeOK
    <2> QED
      BY <1>10, <2>1, <2>2, Zenon DEF Abort, EndPass, TypeOK
  <1>11. CASE UNCHANGED vars
    BY <1>11, SMT DEF vars, TypeOK
  <1> QED
    BY <1>1, <1>2, <1>3, <1>4, <1>5, <1>6, <1>7, <1>8, <1>9, <1>10, <1>11 DEF Next

\* Every reachable state is of the right types (TypeOK), whatever the bank
\* publishes and wherever a pass dies.
THEOREM TypeCorrect == Spec => []TypeOK
  BY InitTyped, StepTyped, PTL DEF Spec
-----------------------------------------------------------------------------
(* The window                                                               *)

\* The bank does not edit its past.
LEMMA PastStands ==
    ASSUME TypeOK, Tick
    PROVE  \A t \in 1 .. clock : bank'[t] = bank[t]
  <1>1. PICK d \in Docs : bank' = Append(bank, d)
    BY DEF Tick
  <1>2. clock \in Nat /\ bank \in [1 .. clock -> Docs]
    BY SMT DEF TypeOK
  <1>3. bank \in Seq(Docs)
    BY <1>2, SeqDef, Zenon
  <1>4. DOMAIN bank = 1 .. clock
    BY <1>2
  <1>5. 1 .. Len(bank) = 1 .. clock
    BY <1>3, <1>4, LenProperties
  <1>6. \A t \in 1 .. Len(bank) : Append(bank, d)[t] = bank[t]
    BY <1>3, AppendProperties
  <1> QED
    BY <1>1, <1>5, <1>6

\* What is true of the tables stays true as time passes.
LEMMA TimePasses ==
    ASSUME TypeOK, Tick, NEW tables \in Tables, TablesSound(tables)
    PROVE  TablesSound(tables)'
  <1>1. clock' = clock + 1 /\ clock \in Nat
    BY SMT DEF Tick, TypeOK
  <1>2. \A t \in 1 .. clock : t \in 1 .. clock' /\ bank'[t] = bank[t]
    BY <1>1, PastStands, SMT
  <1>3. FeedSound(tables.feed)'
    <2> SUFFICES ASSUME NEW n \in DOMAIN tables.feed, tables.feed[n].from # Absent
                 PROVE  RowSound(tables.feed[n])'
      BY DEF FeedSound, RowSound
    <2> DEFINE row == tables.feed[n]
    <2>1. row \in RowType
      BY SMT DEF Tables
    <2>2. RowSound(row)
      BY DEF TablesSound, FeedSound
    <2> HIDE DEF row
    <2>3. /\ row.sighted \in 1 .. clock
          /\ row.sighted <= row.after /\ row.after <= row.before /\ row.before <= clock
          /\ bank[row.sighted] = row.from
      BY <2>2 DEF RowSound, row
    <2>4. PICK t \in row.after .. row.before : bank[t] = row.to
      BY <2>2 DEF RowSound, row
    <2>5. t \in 1 .. clock
      BY <1>1, <2>1, <2>3, <2>4, SMT DEF RowType, Times
    <2>6. row.before <= clock'
      BY <1>1, <2>1, <2>3, SMT DEF RowType, Times
    <2> QED
      BY <1>2, <2>3, <2>4, <2>5, <2>6, Zenon DEF RowSound, row
  <1>4. CurrentSound(tables)'
    BY <1>2, Zenon DEF TablesSound, CurrentSound
  <1>5. \A c \in Contents : tables.lastSeen[c] <= clock'
    BY <1>1, SMT DEF TablesSound, Tables, Times
  <1> QED
    BY <1>3, <1>4, <1>5 DEF TablesSound

\* A commit or a statement that appends a sound row keeps the feed sound.
LEMMA AppendSound ==
    ASSUME NEW feed \in Seq(RowType), NEW row \in RowType, FeedSound(feed), RowSound(row)
    PROVE  FeedSound(Append(feed, row))
  <1>1. DOMAIN Append(feed, row) = 1 .. Len(feed) + 1 /\ Len(feed) \in Nat
    BY SMT
  <1>2. ASSUME NEW n \in 1 .. Len(feed) + 1 PROVE RowSound(Append(feed, row)[n])
    <2>1. CASE n = Len(feed) + 1
      BY <2>1, AppendProperties
    <2>2. CASE n # Len(feed) + 1
      <3>1. n \in 1 .. Len(feed) /\ n \in DOMAIN feed
        BY <1>1, <2>2, SMT
      <3> QED
        BY <3>1, AppendProperties DEF FeedSound
    <2> QED
      BY <2>1, <2>2
  <1> QED
    BY <1>1, <1>2 DEF FeedSound

LEMMA InitSound == Init => WindowInv
  <1> SUFFICES ASSUME Init PROVE WindowInv
    OBVIOUS
  <1>1. TypeOK
    BY InitTyped
  <1>2. TablesSound(NoTables)
    BY SMT DEF Init, TablesSound, FeedSound, CurrentSound, NoTables
  <1>3. DetailSound /\ AbsenceSound
    BY SMT DEF Init, DetailSound, AbsenceSound, NoDetail
  <1> QED
    BY <1>1, <1>2, <1>3 DEF WindowInv, Init

\* The row that Store writes: the new document was fetched after the old one's
\* last_seen_at and before the call.
LEMMA StoreSound ==
    ASSUME WindowInv, Store
    PROVE  TablesSound(mine')
  <1> DEFINE row == ChangeRow(mine.current, got.doc, ObservedAfter)
  <1>1. /\ TypeOK /\ TablesSound(mine) /\ DetailSound
        /\ pc = "storing" /\ began > 0 /\ got.doc # Absent
        /\ mine \in Tables
    BY DEF WindowInv, Store, TypeOK
  <1>2. /\ clock \in Nat /\ began \in 1 .. clock
        /\ got.at \in 1 .. clock /\ got.at <= began /\ bank[got.at] = got.doc
        /\ got.doc \in Contents
    BY <1>1, SMT DEF TypeOK, DetailSound, Docs
  <1>3. RowSound(row)
    <2> SUFFICES ASSUME mine.current # Absent PROVE RowSound(row)
      BY DEF RowSound, ChangeRow
    <2>1. mine.current \in Contents
      BY <1>1, SMT DEF Tables, Docs
    <2>2. /\ row.from = mine.current /\ row.to = got.doc /\ row.before = clock
          /\ row.after = mine.lastSeen[mine.current] /\ row.sighted = mine.sighted
      BY SMT DEF ChangeRow, ObservedAfter
    <2>3. /\ mine.lastSeen[mine.current] <= got.at
          /\ mine.sighted \in 1 .. clock
          /\ mine.sighted <= mine.lastSeen[mine.current]
          /\ bank[mine.sighted] = mine.current
          /\ mine.lastSeen[mine.current] \in Nat
      BY <1>1, <2>1, SMT DEF DetailSound, TablesSound, CurrentSound, Tables, Times
    <2> QED
      BY <1>2, <2>2, <2>3, SMT DEF RowSound
  <1>4. row \in RowType
    BY <1>1, <1>2, ChangeRowTyped DEF Docs
  <1>5. mine.feed \in Seq(RowType) /\ FeedSound(mine.feed)
    BY <1>1, SMT DEF Tables, TablesSound
  <1>6. mine'.feed = mine.feed \/ mine'.feed = Append(mine.feed, row)
    BY SMT DEF Store
  <1>7. FeedSound(mine'.feed)
    <2> HIDE DEF row
    <2> QED
      BY <1>3, <1>4, <1>5, <1>6, AppendSound
  <1>8. /\ mine'.current = got.doc /\ mine'.sighted = got.at
        /\ mine'.lastSeen = [c \in Contents |-> IF c = got.doc THEN began
                                                ELSE mine.lastSeen[c]]
    <2>1. mine.lastSeen \in [Contents -> Times]
      BY <1>1, SMT DEF Tables
    <2>2. mine'.current = got.doc /\ mine'.sighted = got.at /\ mine'.lastSeen = Seen(got.doc)
      BY SMT DEF Store
    <2> QED
      BY <2>1, <2>2, Zenon DEF Seen
  <1>9. CurrentSound(mine')
    BY <1>2, <1>8, SMT DEF CurrentSound
  <1>10. \A c \in Contents : mine'.lastSeen[c] <= clock
    BY <1>1, <1>2, <1>8, SMT DEF TablesSound
  <1> QED
    BY <1>7, <1>9, <1>10 DEF TablesSound

\* The row that Withdraw writes: the product was missing from the list after the
\* document's last_seen_at.
LEMMA WithdrawSound ==
    ASSUME WindowInv, Withdraw
    PROVE  /\ TablesSound(mine')
           /\ mine'.lastSeen = mine.lastSeen
  <1> DEFINE row == ChangeRow(mine.current, Absent, ObservedAfter)
  <1>1. /\ TypeOK /\ TablesSound(mine) /\ AbsenceSound
        /\ pc = "stored" /\ ~listed /\ mine \in Tables
    BY DEF WindowInv, Withdraw, TypeOK, Missing
  <1>2. RowSound(row)
    <2> SUFFICES ASSUME mine.current # Absent PROVE RowSound(row)
      BY DEF RowSound, ChangeRow
    <2>1. mine.current \in Contents
      BY <1>1, SMT DEF Tables, Docs
    <2>2. /\ row.from = mine.current /\ row.to = Absent /\ row.before = clock
          /\ row.after = mine.lastSeen[mine.current] /\ row.sighted = mine.sighted
      BY SMT DEF ChangeRow, ObservedAfter
    <2>3. PICK t \in 1 .. clock :
             bank[t] = Absent /\ \A c \in Contents : mine.lastSeen[c] <= t
      BY <1>1, SMT DEF AbsenceSound
    <2>4. /\ mine.sighted \in 1 .. clock
          /\ mine.sighted <= mine.lastSeen[mine.current]
          /\ bank[mine.sighted] = mine.current
          /\ mine.lastSeen[mine.current] \in Nat
          /\ mine.lastSeen[mine.current] <= clock
          /\ clock \in Nat
      BY <1>1, <2>1, SMT DEF TypeOK, TablesSound, CurrentSound, Tables, Times
    <2> QED
      BY <2>1, <2>2, <2>3, <2>4, SMT DEF RowSound
  <1>3. row \in RowType
    BY <1>1, ChangeRowTyped DEF Docs
  <1>4. mine.feed \in Seq(RowType) /\ FeedSound(mine.feed)
    BY <1>1, SMT DEF Tables, TablesSound
  <1>5. /\ mine'.feed = Append(mine.feed, row) /\ mine'.current = mine.current
        /\ mine'.lastSeen = mine.lastSeen /\ mine'.sighted = mine.sighted
    <2>1. mine = [current |-> mine.current, available |-> mine.available,
                  lastSeen |-> mine.lastSeen, feed |-> mine.feed, sighted |-> mine.sighted]
      BY <1>1, SMT DEF Tables
    <2>2. mine' = [mine EXCEPT !.available = FALSE, !.feed = Append(mine.feed, row)]
      BY DEF Withdraw
    <2> HIDE DEF row
    <2> QED
      BY <2>1, <2>2, Zenon
  <1>6. FeedSound(mine'.feed)
    <2> HIDE DEF row
    <2> QED
      BY <1>2, <1>3, <1>4, <1>5, AppendSound
  <1>7. CurrentSound(mine')
    BY <1>1, <1>5 DEF TablesSound, CurrentSound
  <1> QED
    BY <1>1, <1>5, <1>6, <1>7 DEF TablesSound

\* At one instant a claim about the tables depends on the tables only.
LEMMA SameInstant ==
    ASSUME UNCHANGED <<clock, bank>>
    PROVE  /\ TablesSound(db') => TablesSound(db)'
           /\ TablesSound(mine') => TablesSound(mine)'
  BY Zenon DEF TablesSound, FeedSound, CurrentSound, RowSound

LEMMA StepSound == WindowInv /\ [Next]_vars => WindowInv'
  <1> SUFFICES ASSUME WindowInv, [Next]_vars PROVE WindowInv'
    OBVIOUS
  <1>1. /\ TypeOK /\ TablesSound(db) /\ TablesSound(mine)
        /\ DetailSound /\ AbsenceSound
    BY DEF WindowInv
  <1>2. TypeOK'
    BY <1>1, StepTyped
  <1> SUFFICES TablesSound(db)' /\ TablesSound(mine)' /\ DetailSound' /\ AbsenceSound'
    BY <1>2 DEF WindowInv
  <1>3. CASE Tick
    <2>1. /\ clock' = clock + 1 /\ clock \in Nat
          /\ UNCHANGED <<db, mine, began, pc, listed, got>>
      BY <1>1, <1>3, SMT DEF Tick, pass, TypeOK
    <2>2. \A t \in 1 .. clock : t \in 1 .. clock' /\ bank'[t] = bank[t]
      BY <1>1, <1>3, <2>1, PastStands, SMT
    <2>3. TablesSound(db)'
      <3>1. PICK tables \in Tables : tables = db
        BY <1>1 DEF TypeOK
      <3>2. TablesSound(tables)'
        BY <1>1, <1>3, <3>1, TimePasses
      <3> QED
        BY <2>1, <3>1, <3>2, Zenon DEF TablesSound, FeedSound, CurrentSound, RowSound
    <2>4. TablesSound(mine)'
      <3>1. PICK tables \in Tables : tables = mine
        BY <1>1 DEF TypeOK
      <3>2. TablesSound(tables)'
        BY <1>1, <1>3, <3>1, TimePasses
      <3> QED
        BY <2>1, <3>1, <3>2, Zenon DEF TablesSound, FeedSound, CurrentSound, RowSound
    <2>5. DetailSound'
      BY <1>1, <2>1, <2>2, Zenon DEF DetailSound
    <2>6. AbsenceSound'
      BY <1>1, <2>1, <2>2, Zenon DEF AbsenceSound
    <2> QED
      BY <2>3, <2>4, <2>5, <2>6
  <1>4. CASE List
    <2>1. UNCHANGED <<clock, bank, db, mine>> /\ clock \in 1 .. clock
      BY <1>1, <1>4, SMT DEF List, TypeOK
    <2>2. TablesSound(db)' /\ TablesSound(mine)'
      BY <1>1, <2>1, SameInstant
    <2>3. DetailSound'
      BY <1>1, <1>4, SMT DEF List, DetailSound, TypeOK
    <2>4. AbsenceSound'
      BY <1>1, <1>4, <2>1, Zenon DEF List, AbsenceSound, TablesSound
    <2> QED
      BY <2>2, <2>3, <2>4
  <1>5. CASE Fetch
    <2>1. UNCHANGED <<clock, bank, db, mine, began, listed>> /\ clock \in 1 .. clock
      BY <1>1, <1>5, SMT DEF Fetch, TypeOK
    <2>2. TablesSound(db)' /\ TablesSound(mine)'
      BY <1>1, <2>1, SameInstant
    <2>3. DetailSound'
      <3>1. /\ got'.at = clock /\ ~(began > 0) /\ pc' = "storing"
        BY <1>1, <1>5, SMT DEF Fetch, TypeOK
      <3>2. got'.doc # Absent => listed /\ bank[clock] = got'.doc
        <4>1. PICK d \in IF listed THEN {bank[clock], Absent} ELSE {Absent} :
                 got' = [doc |-> d, at |-> clock]
          BY <1>5, Zenon DEF Fetch
        <4>2. got'.doc = d
          BY <4>1
        <4> QED
          BY <4>1, <4>2, Zenon
      <3>3. pc' \in {"idle", "listed"} => got'.doc = Absent
        BY <3>1, SMT
      <3>4. got'.doc # Absent =>
                listed' /\ got'.at \in 1 .. clock' /\ bank'[got'.at] = got'.doc
        BY <2>1, <3>1, <3>2, Zenon
      <3>5. ~(began' > 0)
        BY <2>1, <3>1
      <3>6. \A c \in Contents : mine'.lastSeen[c] <= got'.at
        BY <1>1, <2>1, <3>1, Zenon DEF TablesSound
      <3> QED
        BY <3>3, <3>4, <3>5, <3>6, Zenon DEF DetailSound
    <2>4. AbsenceSound'
      <3>1. pc # "idle"
        BY <1>5, SMT DEF Fetch
      <3> QED
        BY <1>1, <2>1, <3>1, Zenon DEF AbsenceSound
    <2> QED
      BY <2>2, <2>3, <2>4
  <1>6. CASE BeginTxn
    <2>1. UNCHANGED <<clock, bank, db, mine, pc, listed, got>>
      BY <1>6 DEF BeginTxn, pass
    <2>2. TablesSound(db)' /\ TablesSound(mine)'
      BY <1>1, <2>1, SameInstant
    <2>3. DetailSound'
      BY <1>1, <1>6, <2>1, SMT DEF BeginTxn, DetailSound, TypeOK
    <2>4. AbsenceSound'
      BY <1>1, <2>1, Zenon DEF AbsenceSound
    <2> QED
      BY <2>2, <2>3, <2>4
  <1>7. CASE QuarantineOther
    <2>1. UNCHANGED <<clock, bank, mine, pc, listed, got>> /\ db' = mine /\ began' = 0
      BY <1>7 DEF QuarantineOther, pass
    <2>2. TablesSound(db)' /\ TablesSound(mine)'
      BY <1>1, <2>1, SameInstant
    <2>3. DetailSound'
      BY <1>1, <2>1, SMT DEF DetailSound
    <2>4. AbsenceSound'
      BY <1>1, <2>1, Zenon DEF AbsenceSound
    <2> QED
      BY <2>2, <2>3, <2>4
  <1>8. CASE Store
    <2>1. UNCHANGED <<clock, bank, db, began, listed, got>> /\ pc' = "stored" /\ listed
      BY <1>1, <1>8 DEF Store, DetailSound
    <2>2. TablesSound(mine')
      BY <1>8, StoreSound
    <2>3. TablesSound(db)' /\ TablesSound(mine)'
      BY <1>1, <2>1, <2>2, SameInstant
    <2>4. DetailSound'
      BY <1>1, <2>1, SMT DEF DetailSound
    <2>5. AbsenceSound'
      BY <2>1, Zenon DEF AbsenceSound
    <2> QED
      BY <2>3, <2>4, <2>5
  <1>9. CASE Skip
    <2>1. UNCHANGED <<clock, bank, db, mine, began, listed, got>> /\ pc = "storing"
          /\ pc' = "stored"
      BY <1>9 DEF Skip
    <2>2. TablesSound(db)' /\ TablesSound(mine)'
      BY <1>1, <2>1, SameInstant
    <2>3. DetailSound'
      BY <1>1, <2>1, SMT DEF DetailSound
    <2>4. AbsenceSound'
      BY <1>1, <2>1, Zenon DEF AbsenceSound
    <2> QED
      BY <2>2, <2>3, <2>4
  <1>10. CASE Withdraw
    <2>1. UNCHANGED <<clock, bank, db, began, listed, got>> /\ pc = "stored"
          /\ pc' = "withdrawn"
      BY <1>10 DEF Withdraw
    <2>2. TablesSound(mine') /\ mine'.lastSeen = mine.lastSeen
      BY <1>10, WithdrawSound
    <2>3. TablesSound(db)' /\ TablesSound(mine)'
      BY <1>1, <2>1, <2>2, SameInstant
    <2>4. DetailSound'
      BY <1>1, <2>1, SMT DEF DetailSound
    <2>5. AbsenceSound'
      BY <1>1, <2>1, <2>2, Zenon DEF AbsenceSound
    <2> QED
      BY <2>3, <2>4, <2>5
  <1>11. CASE Commit \/ Abort
    <2>1. /\ UNCHANGED <<clock, bank>>
          /\ (db' = mine /\ mine' = mine) \/ (db' = db /\ mine' = db)
          /\ began' = 0 /\ pc' = "idle" /\ got' = NoDetail
      <3>1. CASE Commit
        BY <3>1, Zenon DEF Commit, EndPass
      <3>2. CASE Abort
        BY <3>2, Zenon DEF Abort, EndPass
      <3> QED
        BY <1>11, <3>1, <3>2
    <2>2. TablesSound(db)' /\ TablesSound(mine)'
      BY <1>1, <2>1, SameInstant
    <2>3. DetailSound' /\ AbsenceSound'
      BY <2>1, SMT DEF DetailSound, AbsenceSound, NoDetail
    <2> QED
      BY <2>2, <2>3
  <1>12. CASE UNCHANGED vars
    <2>1. UNCHANGED <<clock, bank, db, mine, began, pc, listed, got>>
      BY <1>12 DEF vars
    <2>2. TablesSound(db)' /\ TablesSound(mine)'
      BY <1>1, <2>1, SameInstant
    <2>3. DetailSound' /\ AbsenceSound'
      BY <1>1, <2>1, Zenon DEF DetailSound, AbsenceSound
    <2> QED
      BY <2>2, <2>3
  <1> QED
    BY <1>3, <1>4, <1>5, <1>6, <1>7, <1>8, <1>9, <1>10, <1>11, <1>12 DEF Next

LEMMA InvImplies == WindowInv => NewWithinWindow /\ PreviousSighting
  BY DEF WindowInv, TablesSound, FeedSound, RowSound, Rows, NewWithinWindow, PreviousSighting

\* The new document, or the product's absence, was published within the window of
\* every change row (NewWithinWindow), for any number of passes, of any length.
THEOREM NewAlwaysWithin == Spec => []NewWithinWindow
  BY InitSound, StepSound, InvImplies, PTL DEF Spec

\* observed_after is never before the last sighting of the old document
\* (PreviousSighting), nor after observed_before.
THEOREM PreviousAlwaysSighted == Spec => []PreviousSighting
  BY InitSound, StepSound, InvImplies, PTL DEF Spec
=============================================================================
