-------------------------- MODULE DiscoveryProofs --------------------------
(***************************************************************************)
(* Proofs about Discovery, for any register, fallback list and allowlist,  *)
(* any number of discoveries, crossing or not.  They rest on what an open  *)
(* transaction holds: the brands it has marked as having left are active,  *)
(* and no other transaction has marked one of them.                        *)
(***************************************************************************)
EXTENDS Discovery, FiniteSetTheorems, TLAPS

\* What a discovery holds: a listing of one source, and the marks of its open
\* transaction.
Listed(d) ==
    /\ IsFiniteSet(DOMAIN listing[d])
    /\ Seen(d) \subseteq RegisterIds \/ Seen(d) \subseteq FallbackIds
    /\ pc[d] = "upserted" => Seen(d) \subseteq known
Holds(d) ==
    /\ marked[d] \subseteq active
    /\ pc[d] # "written" => marked[d] = {}
    /\ marked[d] # {} => Seen(d) # {}

\* Rows are of listed brands; a row is dated exactly when its brand has left.
TablesOK ==
    /\ known \subseteq Ids /\ active \subseteq known /\ enabled \subseteq known
    /\ left \in [Ids -> 0 .. MaxTime]
    /\ \A b \in Ids : left[b] # Never <=> b \in known \ active
    /\ crossed \in BOOLEAN
TimesOK ==
    /\ now \in 1 .. MaxTime
    /\ {lastRun, lastChange, covered} \subseteq 0 .. MaxTime
    /\ lastChange <= covered /\ covered <= now
CallsOK ==
    /\ pc \in [Discoveries -> {"waiting", "resolved", "written", "upserted", "ended"}]
    /\ DOMAIN listing = Discoveries /\ DOMAIN marked = Discoveries
    /\ DOMAIN allow = Discoveries
    /\ \A d \in Discoveries : Listed(d) /\ Holds(d)
\* Of two open transactions, neither has marked a brand of the other.
Apart ==
    \A d, e \in Discoveries :
        d # e /\ pc[d] = "written" /\ pc[e] = "written" => marked[d] \cap marked[e] = {}

BaseInv == TimesOK /\ TablesOK /\ CallsOK /\ Apart

\* As long as no upserts cross, the one under way has marked all that it will
\* not list.
SourceInv ==
    ~crossed =>
        /\ \A d, e \in Discoveries : pc[d] = "written" /\ pc[e] = "written" => d = e
        /\ \A d \in Discoveries :
            pc[d] = "written" => marked[d] = IF Seen(d) = {} THEN {} ELSE active \ Seen(d)
        /\ active \subseteq RegisterIds \/ active \subseteq FallbackIds

\* What discoveries, runs and the clock do.
Moves(d) ==
    AskRegister(d) \/ AskFallback(d) \/ GiveUp(d) \/ Write(d) \/ Upsert(d) \/ Enable(d)
Covers == covered' = IF enabled' \cap active' = {} THEN covered ELSE now'
-----------------------------------------------------------------------------
LEMMA NextMoves ==
    [Next]_vars => \/ UNCHANGED vars
                   \/ Covers /\ (Tick \/ Collect \/ \E d \in Discoveries : Moves(d))
BY DEF Next, Covers, Moves

\* The usable brands of an answer are brands of the answer.
LEMMA UsableListed ==
    ASSUME NEW list \in Published \cup FallbackLists
    PROVE  /\ IsFiniteSet(DOMAIN Usable(list))
           /\ IdsIn(Usable(list)) \subseteq IdsIn(list)
<1>1. DOMAIN Usable(list) \in SUBSET DOMAIN list
  BY DEF Usable
<1>2. IsFiniteSet(DOMAIN list)
  BY DiscoveryAssumption
<1>3. \A i \in DOMAIN Usable(list) : Usable(list)[i] = list[i]
  BY DEF Usable
<1>4. IdsIn(Usable(list)) \subseteq IdsIn(list)
  BY <1>1, <1>3 DEF IdsIn
<1>5. QED
  BY <1>1, <1>2, <1>4, FS_Subset

\* A call of discover lists the brands of one source.
LEMMA AskLists ==
    ASSUME NEW d \in Discoveries, AskRegister(d) \/ AskFallback(d)
    PROVE  \E list :
            /\ Returned(d, list) /\ IsFiniteSet(DOMAIN list)
            /\ IdsIn(list) \subseteq RegisterIds \/ IdsIn(list) \subseteq FallbackIds
<1>1. CASE AskRegister(d)
  <2>1. PICK list \in Published : Returned(d, Usable(list))
    BY <1>1 DEF AskRegister
  <2>2. IdsIn(list) \subseteq RegisterIds
    BY <2>1 DEF RegisterIds
  <2>3. QED
    BY <2>1, <2>2, UsableListed
<1>2. CASE AskFallback(d)
  <2>1. PICK list \in FallbackLists : Returned(d, Usable(list))
    BY <1>2 DEF AskFallback
  <2>2. IdsIn(list) \subseteq FallbackIds
    BY <2>1 DEF FallbackIds
  <2>3. QED
    BY <2>1, <2>2, UsableListed
<1>3. QED
  BY <1>1, <1>2

\* A discovery moves alone.
OtherKept(e) ==
    pc'[e] = pc[e] /\ listing'[e] = listing[e] /\ marked'[e] = marked[e]
LEMMA OthersKept ==
    ASSUME CallsOK, NEW d \in Discoveries, Moves(d), NEW e \in Discoveries \ {d}
    PROVE  OtherKept(e)
<1> USE DEF OtherKept, CallsOK
<1>1. CASE AskRegister(d) \/ AskFallback(d)
  BY <1>1 DEF AskRegister, AskFallback, Returned
<1>2. CASE GiveUp(d) \/ Enable(d)
  BY <1>2 DEF GiveUp, Enable, Leave
<1>3. CASE Write(d)
  BY <1>3 DEF Write
<1>4. CASE Upsert(d)
  BY <1>4 DEF Upsert, Commit
<1>5. QED
  BY <1>1, <1>2, <1>3, <1>4 DEF Moves

\* An entry resolves to brands of the listing.
LEMMA MatchedSeen ==
    ASSUME NEW e, NEW list
    PROVE  Matched(e, list) \subseteq IdsIn(list)
<1>1. ASSUME WithId(e, list) # {} PROVE (CHOOSE i \in WithId(e, list) : TRUE) \in DOMAIN list
  BY <1>1 DEF WithId
<1>2. Candidates(e, list) \subseteq DOMAIN list
  BY <1>1 DEF Candidates, WithName, WithWords
<1>3. QED
  BY <1>2 DEF Matched, IdsIn
-----------------------------------------------------------------------------
LEMMA InitBase == Init => BaseInv /\ SourceInv
<1> SUFFICES ASSUME Init PROVE BaseInv /\ SourceInv
  OBVIOUS
<1>1. ASSUME NEW d \in Discoveries PROVE Seen(d) = {} /\ IsFiniteSet(DOMAIN listing[d])
  <2>1. listing[d] = << >>
    BY DEF Init
  <2>2. DOMAIN listing[d] = {}
    BY <2>1
  <2>3. QED
    BY <2>2, FS_EmptySet DEF Seen, IdsIn
<1>2. MaxTime \in Nat \ {0}
  BY DiscoveryAssumption
<1>3. TimesOK
  BY <1>2 DEF Init, Never, TimesOK
<1>4. TablesOK
  <2>1. left \in [Ids -> 0 .. MaxTime] /\ \A b \in Ids : left[b] = Never
    BY <1>2 DEF Init, Never
  <2>2. crossed \in BOOLEAN
    BY DEF Init
  <2>3. QED
    BY <2>1, <2>2 DEF Init, TablesOK, Never
<1>5. CallsOK
  BY <1>1 DEF Init, CallsOK, Listed, Holds
<1>6. Apart /\ SourceInv
  BY DEF Init, Apart, SourceInv
<1>7. QED
  BY <1>3, <1>4, <1>5, <1>6 DEF BaseInv

\* The clock and what is timed by it: changes come from brands that count as
\* covered when they do.
LEMMA TimesStep ==
    ASSUME TimesOK, Covers, Tick \/ Collect \/ \E d \in Discoveries : Moves(d)
    PROVE  TimesOK'
<1>1. MaxTime \in Nat
  BY DiscoveryAssumption
<1>2. covered' = covered \/ covered' = now'
  BY DEF Covers
<1>3. CASE Tick
  BY <1>1, <1>2, <1>3 DEF Tick, TimesOK
<1>4. CASE Collect
  <2>1. UNCHANGED <<now, enabled, active>> /\ lastRun' = now
    BY <1>4 DEF Collect, table
  <2>2. CASE lastChange' = lastChange
    BY <1>1, <1>2, <2>1, <2>2 DEF TimesOK
  <2>3. CASE Collectable # {} /\ lastChange' = now
    <3>1. covered' = now
      BY <2>1, <2>3 DEF Covers, Collectable
    <3>2. QED
      BY <1>1, <2>1, <2>3, <3>1 DEF TimesOK
  <2>4. QED
    BY <1>4, <2>2, <2>3 DEF Collect
<1>5. ASSUME NEW d \in Discoveries, Moves(d) PROVE TimesOK'
  <2>1. UNCHANGED <<now, lastRun, lastChange>>
    BY <1>5 DEF Moves, AskRegister, AskFallback, Returned, GiveUp, Write, Upsert, Commit, Enable
  <2>2. QED
    BY <1>1, <1>2, <2>1 DEF TimesOK
<1>6. QED
  BY <1>3, <1>4, <1>5

\* Only an upsert changes the rows of the brands, and only enable_brands says
\* which are enabled.
LEMMA TablesStep ==
    ASSUME BaseInv, NEW d \in Discoveries, Moves(d)
    PROVE  TablesOK'
<1>1. TablesOK /\ CallsOK /\ Listed(d) /\ Holds(d) /\ now \in 1 .. MaxTime
  BY DEF BaseInv, CallsOK, TimesOK
<1>2. MaxTime \in Nat
  BY DiscoveryAssumption
<1>3. CASE AskRegister(d) \/ AskFallback(d) \/ GiveUp(d)
  BY <1>1, <1>3 DEF AskRegister, AskFallback, Returned, GiveUp, table, TablesOK
<1>4. CASE Write(d)
  <2>1. UNCHANGED table /\ crossed' \in BOOLEAN
    BY <1>4, Zenon DEF Write
  <2>2. QED
    BY <1>1, <2>1 DEF table, TablesOK
<1>5. CASE Upsert(d)
  <2>1. /\ active' = (active \ marked[d]) \cup Seen(d) /\ known' = known \cup Seen(d)
        /\ UNCHANGED enabled /\ UNCHANGED crossed
        /\ left' = [b \in Ids |-> IF b \in Seen(d) THEN Never
                                  ELSE IF b \in marked[d] THEN now ELSE left[b]]
    BY <1>5 DEF Upsert, Commit
  <2>2. Seen(d) \subseteq Ids /\ marked[d] \subseteq active
    BY <1>1 DEF Listed, Holds, Ids
  <2>3. left' \in [Ids -> 0 .. MaxTime]
    BY <1>1, <1>2, <2>1 DEF TablesOK, Never
  <2>4. ASSUME NEW b \in Ids PROVE left'[b] # Never <=> b \in known' \ active'
    BY <1>1, <1>2, <2>1, <2>2 DEF TablesOK, Never
  <2>5. QED
    BY <1>1, <2>1, <2>2, <2>3, <2>4 DEF TablesOK
<1>6. CASE Enable(d)
  <2>1. /\ pc[d] = "upserted" /\ enabled' = BrandIds(allow[d], listing[d])
        /\ UNCHANGED known /\ UNCHANGED active /\ UNCHANGED left /\ UNCHANGED crossed
    BY <1>6 DEF Enable
  <2>2. enabled' \subseteq Seen(d)
    BY <2>1, MatchedSeen DEF BrandIds, Seen
  <2>3. Seen(d) \subseteq known
    BY <1>1, <2>1 DEF Listed
  <2>4. QED
    BY <1>1, <2>1, <2>2, <2>3 DEF TablesOK
<1>7. QED
  BY <1>3, <1>4, <1>5, <1>6 DEF Moves

\* The call of a discovery that moves.
LEMMA CallStep ==
    ASSUME BaseInv, NEW d \in Discoveries, Moves(d)
    PROVE  /\ Listed(d)' /\ Holds(d)'
           /\ pc' \in [Discoveries -> {"waiting", "resolved", "written", "upserted", "ended"}]
           /\ DOMAIN listing' = Discoveries /\ DOMAIN marked' = Discoveries
           /\ DOMAIN allow' = Discoveries
<1>1. TablesOK /\ CallsOK /\ Listed(d) /\ Holds(d)
  BY DEF BaseInv, CallsOK
<1>2. CASE AskRegister(d) \/ AskFallback(d)
  <2>1. PICK list : /\ Returned(d, list) /\ IsFiniteSet(DOMAIN list)
                    /\ IdsIn(list) \subseteq RegisterIds \/ IdsIn(list) \subseteq FallbackIds
    BY <1>2, AskLists
  <2>2. /\ pc' = [pc EXCEPT ![d] = "resolved"] /\ listing' = [listing EXCEPT ![d] = list]
        /\ UNCHANGED marked /\ UNCHANGED active /\ DOMAIN allow' = DOMAIN allow
        /\ pc[d] = "waiting"
    BY <1>2, <2>1 DEF Returned, AskRegister, AskFallback, table
  <2>3. pc'[d] = "resolved" /\ listing'[d] = list
    BY <1>1, <2>2 DEF CallsOK
  <2>4. Listed(d)'
    BY <2>1, <2>3 DEF Listed, Seen
  <2>5. Holds(d)'
    BY <1>1, <2>2, <2>3 DEF Holds
  <2>6. QED
    BY <1>1, <2>2, <2>4, <2>5 DEF CallsOK
<1>3. CASE GiveUp(d) \/ Enable(d)
  <2>1. Leave(d)
    BY <1>3 DEF GiveUp, Enable
  <2>2. listing'[d] = << >> /\ marked'[d] = {} /\ pc'[d] = "ended"
    BY <1>1, <2>1 DEF Leave, CallsOK
  <2>3. DOMAIN listing'[d] = {}
    BY <2>2
  <2>4. Seen(d)' = {} /\ IsFiniteSet(DOMAIN listing'[d])
    BY <2>3, FS_EmptySet DEF Seen, IdsIn
  <2>5. Listed(d)' /\ Holds(d)'
    BY <2>2, <2>4 DEF Listed, Holds
  <2>6. QED
    BY <1>1, <2>1, <2>5 DEF Leave, CallsOK
<1>4. CASE Write(d)
  <2>1. /\ pc' = [pc EXCEPT ![d] = "written"]
        /\ marked' = [marked EXCEPT ![d] = IF Seen(d) = {} THEN {} ELSE active \ Seen(d)]
        /\ UNCHANGED listing /\ UNCHANGED active /\ UNCHANGED allow /\ UNCHANGED known
    BY <1>4 DEF Write, table
  <2>2. /\ pc'[d] = "written" /\ marked'[d] \subseteq active
        /\ marked'[d] # {} => Seen(d) # {}
    BY <1>1, <2>1 DEF CallsOK
  <2>3. Listed(d)'
    BY <1>1, <2>1, <2>2 DEF Listed, Seen
  <2>4. Holds(d)'
    BY <2>1, <2>2 DEF Holds, Seen
  <2>5. QED
    BY <1>1, <2>1, <2>3, <2>4 DEF CallsOK
<1>5. CASE Upsert(d)
  <2>1. /\ pc' = [pc EXCEPT ![d] = "upserted"] /\ marked' = [marked EXCEPT ![d] = {}]
        /\ UNCHANGED listing /\ UNCHANGED allow /\ known' = known \cup Seen(d)
    BY <1>5 DEF Upsert, Commit
  <2>2. marked'[d] = {} /\ Seen(d)' = Seen(d)
    BY <1>1, <2>1 DEF CallsOK, Seen
  <2>3. Listed(d)'
    BY <1>1, <2>1, <2>2 DEF Listed
  <2>4. Holds(d)'
    BY <2>2 DEF Holds
  <2>5. QED
    BY <1>1, <2>1, <2>3, <2>4 DEF CallsOK
<1>6. QED
  BY <1>2, <1>3, <1>4, <1>5 DEF Moves

\* The call of one that does not: what it has marked, nobody else can touch.
LEMMA OtherStep ==
    ASSUME BaseInv, NEW d \in Discoveries, Moves(d), NEW e \in Discoveries \ {d}
    PROVE  Listed(e)' /\ Holds(e)'
<1>1. CallsOK /\ Listed(e) /\ Holds(e) /\ OtherKept(e) /\ Holds(d) /\ Listed(d)
  BY OthersKept DEF BaseInv, CallsOK
<1>2. Seen(e)' = Seen(e)
  BY <1>1 DEF Seen, OtherKept
<1>3. CASE Upsert(d)
  <2>1. /\ pc[d] = "written" /\ known' = known \cup Seen(d)
        /\ active' = (active \ marked[d]) \cup Seen(d)
    BY <1>3 DEF Upsert, Commit
  <2>2. marked[e] \cap marked[d] = {}
    BY <1>1, <2>1 DEF BaseInv, Apart, Holds
  <2>3. QED
    BY <1>1, <1>2, <2>1, <2>2 DEF Listed, Holds, OtherKept
<1>4. CASE ~Upsert(d)
  <2>1. UNCHANGED <<known, active>>
    BY <1>4 DEF Moves, AskRegister, AskFallback, Returned, GiveUp, Write, Enable, table
  <2>2. QED
    BY <1>1, <1>2, <2>1 DEF Listed, Holds, OtherKept
<1>5. QED
  BY <1>3, <1>4

\* A row is written by one open transaction at a time.
LEMMA ApartStep ==
    ASSUME BaseInv, NEW d \in Discoveries, Moves(d)
    PROVE  Apart'
<1>1. CallsOK /\ \A e \in Discoveries \ {d} : OtherKept(e)
  BY OthersKept DEF BaseInv
<1>2. CASE Write(d)
  <2>1. /\ marked'[d] = (IF Seen(d) = {} THEN {} ELSE active \ Seen(d))
        /\ Locked(d) \cap marked'[d] = {}
    BY <1>1, <1>2 DEF Write, CallsOK
  <2>2. \A e \in Discoveries \ {d} : pc[e] = "written" => marked[e] \subseteq Locked(d)
    BY DEF Locked
  <2>3. QED
    BY <1>1, <2>1, <2>2 DEF BaseInv, Apart, OtherKept
<1>3. CASE ~Write(d)
  <2>1. pc'[d] # "written"
    BY <1>1, <1>3 DEF Moves, AskRegister, AskFallback, Returned, GiveUp, Upsert, Commit,
       Enable, Leave, CallsOK
  <2>2. QED
    BY <1>1, <2>1 DEF BaseInv, Apart, OtherKept
<1>4. QED
  BY <1>2, <1>3

LEMMA BaseStep == BaseInv /\ [Next]_vars => BaseInv'
<1> SUFFICES ASSUME BaseInv, [Next]_vars PROVE BaseInv'
  OBVIOUS
<1>1. CASE UNCHANGED vars
  BY <1>1 DEF vars, table, call, BaseInv, TimesOK, TablesOK, CallsOK, Apart, Listed, Holds, Seen
<1>2. CASE Covers /\ (Tick \/ Collect)
  <2>1. UNCHANGED <<table, call, crossed>> /\ TimesOK'
    BY <1>2, TimesStep DEF Tick, Collect, BaseInv
  <2>2. QED
    BY <2>1 DEF table, call, BaseInv, TablesOK, CallsOK, Apart, Listed, Holds, Seen
<1>3. ASSUME Covers, NEW d \in Discoveries, Moves(d) PROVE BaseInv'
  <2>1. TimesOK' /\ TablesOK' /\ Apart'
    BY <1>3, TimesStep, TablesStep, ApartStep DEF BaseInv
  <2>2. CallsOK'
    BY <1>3, CallStep, OtherStep DEF CallsOK
  <2>3. QED
    BY <2>1, <2>2 DEF BaseInv
<1>4. QED
  BY <1>1, <1>2, <1>3, NextMoves

LEMMA BaseInvariant == Spec => []BaseInv
BY InitBase, BaseStep, PTL DEF Spec

\* The tables and the calls keep their types (TypeOK).
THEOREM TypeCorrect == Spec => []TypeOK
<1>1. BaseInv => TypeOK
  <2> SUFFICES ASSUME BaseInv PROVE TypeOK
    OBVIOUS
  <2>1. \A d \in Discoveries : IdsIn(listing[d]) \subseteq Ids /\ marked[d] \subseteq known
    BY DEF BaseInv, CallsOK, TablesOK, Listed, Holds, Seen, Ids
  <2>2. QED
    BY <2>1 DEF BaseInv, TimesOK, TablesOK, CallsOK, TypeOK
<1>2. QED
  BY <1>1, BaseInvariant, PTL

\* EmptyRegistryNoticed: runs over no brands complete and look fresh; a week
\* after the last day on which a brand would have been collected the health
\* check fails nevertheless, for every freshness limit.
THEOREM EmptyRegistryAlwaysNoticed == Spec => []EmptyRegistryNoticed
<1>1. BaseInv => EmptyRegistryNoticed
  <2>1. Week \in Nat /\ MaxTime \in Nat
    BY DiscoveryAssumption
  <2>2. QED
    BY <2>1 DEF BaseInv, TimesOK, EmptyRegistryNoticed, HealthFails
<1>2. QED
  BY <1>1, BaseInvariant, PTL

\* LeftDated: exactly the brands that are known and inactive have a date of
\* departure, and it stands until they return, whatever discoveries overlap,
\* fail or stop half-way.
THEOREM LeavingAlwaysDated == Spec => LeftDated
<1> DEFINE Dated ==
      \A b \in Ids :
        /\ left'[b] # Never <=> b \in known' \ active'
        /\ left[b] # Never /\ left'[b] # Never => left'[b] = left[b]
<1>1. BaseInv /\ BaseInv' /\ [Next]_vars => [Dated]_vars
  <2> SUFFICES ASSUME BaseInv, BaseInv', [Next]_vars, NEW b \in Ids,
                      left[b] # Never, left'[b] # Never
               PROVE  left'[b] = left[b]
    BY DEF BaseInv, TablesOK
  <2>1. CASE UNCHANGED left
    BY <2>1
  <2>2. ASSUME NEW d \in Discoveries, Upsert(d) PROVE left'[b] = left[b]
    <3>1. b \notin active
      BY DEF BaseInv, TablesOK
    <3>2. b \notin marked[d]
      BY <3>1 DEF BaseInv, CallsOK, Holds
    <3>3. QED
      BY <2>2, <3>2 DEF Upsert
  <2>3. ~(\E d \in Discoveries : Upsert(d)) => UNCHANGED left
    BY DEF Next, Tick, Collect, AskRegister, AskFallback, Returned, GiveUp, Write,
       Enable, table, vars
  <2>4. QED
    BY <2>1, <2>2, <2>3
<1>2. Spec => [][Dated]_vars
  BY <1>1, BaseInvariant, PTL DEF Spec
<1>3. QED
  BY <1>2 DEF LeftDated
-----------------------------------------------------------------------------
\* While no upserts cross, an upsert leaves the brands of its own listing.
LEMMA SourceStep == BaseInv /\ SourceInv /\ [Next]_vars => SourceInv'
<1> SUFFICES ASSUME BaseInv, SourceInv, [Next]_vars PROVE SourceInv'
  OBVIOUS
<1>1. CASE UNCHANGED vars \/ Tick \/ Collect
  BY <1>1 DEF vars, table, call, Tick, Collect, SourceInv, Seen
<1>2. ASSUME NEW d \in Discoveries, Moves(d) PROVE SourceInv'
  <2>0. CallsOK /\ \A e \in Discoveries \ {d} : OtherKept(e) /\ Seen(e)' = Seen(e)
    BY <1>2, OthersKept DEF BaseInv, OtherKept, Seen
  <2>1. CASE Write(d)
    <3>1. /\ UNCHANGED active /\ UNCHANGED listing
          /\ ~crossed' => ~crossed /\ \A e \in Discoveries : pc[e] # "written"
      BY <2>1, Zenon DEF Write, table
    <3>2. marked'[d] = IF Seen(d) = {} THEN {} ELSE active \ Seen(d)
      BY <2>0, <2>1 DEF Write, CallsOK
    <3>3. QED
      BY <2>0, <3>1, <3>2 DEF SourceInv, OtherKept, Seen
  <2>2. CASE Upsert(d)
    <3>1. /\ pc[d] = "written" /\ pc'[d] = "upserted" /\ UNCHANGED crossed
          /\ active' = (active \ marked[d]) \cup Seen(d)
      BY <2>0, <2>2 DEF Upsert, Commit, CallsOK
    <3>2. ~crossed => active' = IF Seen(d) = {} THEN active ELSE Seen(d)
      <4>1. marked[d] \subseteq active
        BY <2>0 DEF CallsOK, Holds
      <4>2. QED
        BY <3>1, <4>1 DEF SourceInv
    <3>3. Seen(d) \subseteq RegisterIds \/ Seen(d) \subseteq FallbackIds
      BY <2>0 DEF CallsOK, Listed
    <3>4. ~crossed => \A e \in Discoveries : pc'[e] # "written"
      BY <2>0, <3>1 DEF SourceInv, OtherKept
    <3>5. QED
      BY <3>1, <3>2, <3>3, <3>4 DEF SourceInv
  <2>3. CASE ~Write(d) /\ ~Upsert(d)
    <3>1. UNCHANGED active /\ UNCHANGED crossed /\ pc'[d] # "written"
      BY <1>2, <2>0, <2>3 DEF Moves, AskRegister, AskFallback, Returned, GiveUp, Enable,
         Leave, table, CallsOK
    <3>2. QED
      BY <2>0, <3>1 DEF SourceInv, OtherKept
  <2>4. QED
    BY <2>1, <2>2, <2>3
<1>3. QED
  BY <1>1, <1>2, NextMoves

\* OneSourceAtATime: as long as no two upserts have crossed, no bank is active
\* under its register id beside one under a fallback id.
THEOREM AlwaysOneSource == Spec => []OneSourceAtATime
<1>1. Spec => []SourceInv
  BY InitBase, SourceStep, BaseInvariant, PTL DEF Spec
<1>2. SourceInv => OneSourceAtATime
  BY DEF SourceInv, OneSourceAtATime
<1>3. QED
  BY <1>1, <1>2, PTL
-----------------------------------------------------------------------------
(* What an entry enables.                                                   *)

\* The candidates of an entry are as finite as the listing.
LEMMA CandidatesFinite ==
    ASSUME NEW e, NEW list, IsFiniteSet(DOMAIN list)
    PROVE  IsFiniteSet(Candidates(e, list)) /\ Cardinality(Candidates(e, list)) \in Nat
<1>1. ASSUME WithId(e, list) # {} PROVE (CHOOSE i \in WithId(e, list) : TRUE) \in DOMAIN list
  BY <1>1 DEF WithId
<1>2. Candidates(e, list) \in SUBSET DOMAIN list
  BY <1>1 DEF Candidates, WithName, WithWords
<1>3. QED
  BY <1>2, FS_Subset, FS_CardinalityType

\* The brand an entry resolves to is the only one that fits it at some grade:
\* the best grade at which any brand fits.
LEMMA MatchedFits ==
    ASSUME NEW e, NEW list, IsFiniteSet(DOMAIN list), NEW b \in Matched(e, list)
    PROVE  \E grade \in 1 .. 3 : Fitting(e, list, grade) = {b}
<1>1. Cardinality(Candidates(e, list)) = 1
  BY DEF Matched
<1>2. PICK x : Candidates(e, list) = {x}
  BY <1>1, CandidatesFinite, FS_Singleton
<1>3. b = list[x].id
  BY <1>2 DEF Matched
<1>4. CASE WithId(e, list) # {}
  <2>1. x \in WithId(e, list)
    BY <1>2, <1>4 DEF Candidates
  <2>2. b = e /\ x \in DOMAIN list
    BY <1>3, <2>1 DEF WithId
  <2>3. \A i \in DOMAIN list : Fit(e, list[i]) >= 3 <=> list[i].id = e
    BY DEF Fit
  <2>4. Fitting(e, list, 3) = {b}
    BY <1>3, <2>2, <2>3 DEF Fitting
  <2>5. QED
    BY <2>4
<1>5. CASE WithId(e, list) = {} /\ WithName(Normalise(e), list) # {}
  <2>1. WithName(Normalise(e), list) = {x}
    BY <1>2, <1>5 DEF Candidates
  <2>2. \A i \in DOMAIN list : Fit(e, list[i]) >= 2 <=> i \in WithName(Normalise(e), list)
    BY <1>5 DEF Fit, WithId, WithName
  <2>3. x \in DOMAIN list
    BY <2>1 DEF WithName
  <2>4. Fitting(e, list, 2) = {b}
    BY <1>3, <2>1, <2>2, <2>3 DEF Fitting
  <2>5. QED
    BY <2>4
<1>6. CASE WithId(e, list) = {} /\ WithName(Normalise(e), list) = {}
  <2>1. WithWords(Normalise(e), list) = {x}
    BY <1>2, <1>6 DEF Candidates
  <2>2. \A i \in DOMAIN list : Fit(e, list[i]) >= 1 <=> i \in WithWords(Normalise(e), list)
    BY <1>6 DEF Fit, WithId, WithName, WithWords
  <2>3. x \in DOMAIN list
    BY <2>1 DEF WithWords
  <2>4. Fitting(e, list, 1) = {b}
    BY <1>3, <2>1, <2>2, <2>3 DEF Fitting
  <2>5. QED
    BY <2>4
<1>7. QED
  BY <1>4, <1>5, <1>6

\* enable_brands alone says which brands are enabled, and who names them.
LEMMA WhoEnables ==
    ASSUME BaseInv, [Next]_vars, enabled' # enabled
    PROVE  \E d \in Discoveries :
            /\ Enables(d) /\ IsFiniteSet(DOMAIN listing[d])
            /\ enabled' = BrandIds(allow[d], listing[d])
            /\ namedBy' = [b \in Ids |-> {e \in allow[d] : b \in Matched(e, listing[d])}]
            /\ Seen(d) \subseteq Ids
<1>1. PICK d \in Discoveries : Enable(d)
  BY DEF Next, Tick, Collect, AskRegister, AskFallback, Returned, GiveUp, Write, Upsert,
     Commit, table, vars
<1>2. Enables(d)
  BY <1>1 DEF BaseInv, CallsOK, Enables, Enable, Leave
<1>3. IsFiniteSet(DOMAIN listing[d]) /\ Seen(d) \subseteq Ids
  BY DEF BaseInv, CallsOK, Listed, Ids
<1>4. QED
  BY <1>1, <1>2, <1>3 DEF Enable

\* NeverGuessed: with any register and any allowlist, a brand that becomes
\* enabled is the only one that fits one of the entries so well.
THEOREM NeverEnabledByGuess == Spec => NeverGuessed
<1> DEFINE Named ==
      \A b \in enabled' \ enabled : \E d \in Discoveries :
        /\ Enables(d)
        /\ \E e \in allow[d], grade \in 1 .. 3 : Fitting(e, listing[d], grade) = {b}
<1>1. BaseInv /\ [Next]_vars => [Named]_vars
  <2> SUFFICES ASSUME BaseInv, [Next]_vars, NEW b \in enabled' \ enabled
               PROVE  \E d \in Discoveries :
                        /\ Enables(d)
                        /\ \E e \in allow[d], grade \in 1 .. 3 :
                              Fitting(e, listing[d], grade) = {b}
    OBVIOUS
  <2>1. PICK d \in Discoveries :
          /\ Enables(d) /\ IsFiniteSet(DOMAIN listing[d])
          /\ enabled' = BrandIds(allow[d], listing[d])
    BY WhoEnables
  <2>2. PICK e \in allow[d] : b \in Matched(e, listing[d])
    BY <2>1 DEF BrandIds
  <2>3. PICK grade \in 1 .. 3 : Fitting(e, listing[d], grade) = {b}
    BY <2>1, <2>2, MatchedFits
  <2>4. QED
    BY <2>1, <2>3
<1>2. Spec => [][Named]_vars
  BY <1>1, BaseInvariant, PTL DEF Spec
<1>3. QED
  BY <1>2 DEF NeverGuessed

\* LossesExplained: a brand stops being collected because a listing with brands
\* does not have it, with a date, or because it is disabled and each entry that
\* had enabled it is gone, selects another brand now, or is reported.
THEOREM LossesAlwaysExplained == Spec => LossesExplained
<1> DEFINE Explained ==
      \A b \in Collectable \ Collectable' : \E d \in Discoveries :
        Departs(b, d) \/ Deselected(b, d)
<1>1. ASSUME BaseInv, [Next]_vars, NEW b \in active \ active'
      PROVE  \E d \in Discoveries : Departs(b, d)
  <2>1. PICK d \in Discoveries : Upsert(d)
    BY <1>1 DEF Next, Tick, Collect, AskRegister, AskFallback, Returned, GiveUp, Write,
       Enable, table, vars
  <2>2. b \in marked[d] /\ b \notin Seen(d)
    BY <1>1, <2>1 DEF Upsert
  <2>3. Seen(d) # {} /\ b \in Ids
    BY <1>1, <2>2 DEF BaseInv, CallsOK, TablesOK, Holds
  <2>4. left'[b] = now
    BY <2>1, <2>2, <2>3 DEF Upsert
  <2>5. pc[d] = "written" /\ pc'[d] = "upserted"
    BY <1>1, <2>1 DEF Upsert, Commit, BaseInv, CallsOK
  <2>6. QED
    BY <2>2, <2>3, <2>4, <2>5 DEF Departs
<1>2. ASSUME BaseInv, [Next]_vars, NEW b \in enabled \ enabled'
      PROVE  \E d \in Discoveries : Deselected(b, d)
  <2>1. PICK d \in Discoveries :
          /\ Enables(d) /\ IsFiniteSet(DOMAIN listing[d])
          /\ enabled' = BrandIds(allow[d], listing[d])
          /\ namedBy' = [c \in Ids |-> {e \in allow[d] : c \in Matched(e, listing[d])}]
          /\ Seen(d) \subseteq Ids
    BY <1>2, WhoEnables
  <2>2. ASSUME NEW e \in allow[d]
        PROVE  \/ e \in Unmatched(allow[d], listing[d]) \cup Ambiguous(allow[d], listing[d])
               \/ \E c \in enabled' \ {b} : e \in namedBy'[c]
    <3> DEFINE fits == Candidates(e, listing[d])
    <3>1. IsFiniteSet(fits) /\ Cardinality(fits) \in Nat
      BY <2>1, CandidatesFinite
    <3>2. CASE fits = {}
      BY <3>2 DEF Unmatched, Ambiguous
    <3>3. CASE Cardinality(fits) > 1
      BY <3>3 DEF Ambiguous
    <3>4. CASE Cardinality(fits) = 1
      <4>1. PICK c : c \in Matched(e, listing[d])
        <5>1. PICK x : fits = {x}
          BY <3>1, <3>4, FS_Singleton
        <5>2. listing[d][x].id \in Matched(e, listing[d])
          BY <3>4, <5>1 DEF Matched
        <5>3. QED
          BY <5>2
      <4>2. c \in enabled' /\ c # b
        BY <2>1, <4>1 DEF BrandIds
      <4>3. c \in Ids
        BY <2>1, <4>1, MatchedSeen DEF Seen
      <4>4. e \in namedBy'[c]
        BY <2>1, <4>1, <4>3
      <4>5. QED
        BY <4>2, <4>4
    <3>5. QED
      BY <3>1, <3>2, <3>3, <3>4, FS_EmptySet
  <2>3. QED
    BY <2>1, <2>2 DEF Deselected
<1>3. BaseInv /\ [Next]_vars => [Explained]_vars
  <2> SUFFICES ASSUME BaseInv, [Next]_vars, NEW b \in Collectable \ Collectable'
               PROVE  \E d \in Discoveries : Departs(b, d) \/ Deselected(b, d)
    OBVIOUS
  <2>1. b \in active \ active' \/ b \in enabled \ enabled'
    BY DEF Collectable
  <2>2. QED
    BY <1>1, <1>2, <2>1
<1>4. Spec => [][Explained]_vars
  BY <1>3, BaseInvariant, PTL DEF Spec
<1>5. QED
  BY <1>4 DEF LossesExplained
=============================================================================
