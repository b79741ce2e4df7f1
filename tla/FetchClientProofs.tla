------------------------- MODULE FetchClientProofs -------------------------
(***************************************************************************)
(* Proofs about FetchClient, for any number of calls and any bank.  What a *)
(* call has been refused the bank does not serve, and lies within the walk; *)
(* requests are retries, refusals and the request that is out.  The calls   *)
(* in line are those that want or hold a slot, and a call is made when the *)
(* calls of the brands before it are over.                                 *)
(***************************************************************************)
EXTENDS FetchClient, Integers, FiniteSetTheorems, WellFoundedInduction, TLAPS

\* The versions that a walk may go through.
WalkSet ==
    (Floor .. Ceiling) \cup Sane(says) \cup IF header = "wrong" THEN Claimed ELSE {}

\* What failing for want of a version says of the bank.
Unserved ==
    \/ serves \cap ((Floor .. Ceiling) \cup Sane(says)) = {}
    \/ says # {} /\ Sane(says) = {}

\* A version that is worth asking for, or known to be answered.
Sensible(v) == v \in WalkSet \/ Answers(v) # {}

Types ==
    /\ serves \subseteq Served
    /\ says \subseteq Named
    /\ header \in Headers
    /\ cached \in Nat
    /\ pc \in [Calls -> {"new", "queued", "asking", "sleeping"} \cup Ended]
    /\ version \in [Calls -> Nat]
    /\ tried \in [Calls -> SUBSET Nat]
    /\ attempt \in [Calls -> Nat]
    /\ requests \in [Calls -> Nat]

CachesSound ==
    /\ dead => Unserved
    /\ cached # 0 => Sensible(cached)

CallSound(c) ==
    /\ pc[c] = "new" => tried[c] = {} /\ attempt[c] = 0 /\ requests[c] = 0
    /\ tried[c] \subseteq WalkSet /\ \A v \in tried[c] : Answers(v) = {}
    /\ pc[c] \notin {"new", "unversioned"} => version[c] \notin tried[c] /\ Sensible(version[c])
    /\ version[c] \in WalkSet \/ tried[c] = {}
    /\ pc[c] = "unversioned" => Unserved
    /\ attempt[c] <= MaxRetries + IF pc[c] = "gaveup" THEN 1 ELSE 0
    /\ requests[c] = attempt[c] + Cardinality(tried[c])
                        + IF pc[c] \in {"asking", "served", "rejected"} THEN 1 ELSE 0

ClientInv == Types /\ CachesSound /\ \A c \in Calls : CallSound(c)
-----------------------------------------------------------------------------
LEMMA LeastNatural ==
    ASSUME NEW S \in SUBSET Nat, S # {}
    PROVE  \E n \in S : \A m \in S : n <= m
  <1>1. PICK n \in S : \A m \in S : ~(<<m, n>> \in OpToRel(<, Nat))
    BY NatLessThanWellFounded, WFMin, Zenon
  <1>2. \A m \in S : ~(m < n)
    <2> SUFFICES ASSUME NEW m \in S, m < n PROVE FALSE
      OBVIOUS
    <2> DEFINE pair == <<m, n>>
    <2>1. pair \in Nat \X Nat /\ pair[1] < pair[2]
      OBVIOUS
    <2> HIDE DEF pair
    <2>2. pair \in OpToRel(<, Nat)
      BY <2>1, Zenon DEF OpToRel
    <2> QED
      BY <1>1, <2>2 DEF pair
  <1> QED
    BY <1>2, SMT

LEMMA GreatestIn ==
    ASSUME NEW bound \in Nat, NEW S \in SUBSET (0 .. bound), S # {}
    PROVE  Greatest(S) \in S
  <1> DEFINE below == {n \in Nat : bound - n \in S}
  <1>1. below \subseteq Nat /\ below # {}
    <2>1. PICK v \in S : TRUE
      OBVIOUS
    <2>2. bound - v \in Nat /\ bound - (bound - v) = v
      BY SMT
    <2> QED
      BY <2>2
  <1>2. PICK n \in below : \A m \in below : n <= m
    BY <1>1, LeastNatural
  <1>3. ASSUME NEW u \in S PROVE u <= bound - n
    <2>1. bound - u \in Nat /\ bound - (bound - u) = u
      BY SMT
    <2>2. n <= bound - u
      BY <1>2, <2>1
    <2> QED
      BY <2>2, SMT
  <1>4. \E v \in S : \A u \in S : u <= v
    BY <1>2, <1>3
  <1> QED
    BY <1>4 DEF Greatest

\* A version chosen is in the walk and has not been refused.
LEMMA ChoiceSound ==
    ASSUME Types, NEW refused, Choices(says, refused) # {}
    PROVE  /\ Greatest(Choices(says, refused)) \in Nat
           /\ Greatest(Choices(says, refused)) \in WalkSet \ refused
  <1> DEFINE S == Choices(says, refused)
  <1>1. S \subseteq WalkSet \ refused
    BY DEF Choices, WalkSet
  <1>2. S \in SUBSET (0 .. SanityCap) /\ SanityCap \in Nat
    <2>1. /\ SanityCap \in Nat /\ Floor \in Nat /\ Ceiling \in Nat
          /\ Ceiling <= SanityCap
      BY ClientAssumption
    <2>2. Sane(says) \subseteq 0 .. SanityCap
      <3>1. says \subseteq Nat
        BY ClientAssumption DEF Types
      <3>2. ASSUME NEW v \in Sane(says) PROVE v \in 0 .. SanityCap
        BY <2>1, <3>1, SMT DEF Sane
      <3> QED
        BY <3>2
    <2>3. (Floor .. Ceiling) \subseteq 0 .. SanityCap
      BY <2>1, SMT
    <2> QED
      BY <2>1, <2>2, <2>3 DEF Choices
  <1>3. Greatest(S) \in S
    BY <1>2, GreatestIn
  <1> QED
    BY <1>1, <1>2, <1>3, SMT

\* Nothing left to choose: the walk is over, or all the bank names is absurd.
LEMMA NoChoice ==
    ASSUME NEW refused, Choices(says, refused) = {}, \A v \in refused : v \notin serves
    PROVE  Unserved
  BY DEF Choices, Unserved

\* A version that the bank has refused is not one it serves.
LEMMA RefusedUnserved ==
    ASSUME NEW v, Answers(v) = {}
    PROVE  v \notin serves
  BY DEF Answers

LEMMA WalkFinite ==
    ASSUME Types
    PROVE  /\ IsFiniteSet(WalkSet) /\ Cardinality(WalkSet) \in Nat
           /\ WalkSet # {} /\ Cardinality(WalkSet) >= 1
           /\ Walk = Cardinality(WalkSet)
  <1>1. IsFiniteSet(Floor .. Ceiling)
    BY ClientAssumption, FS_Interval, SMT
  <1>2. IsFiniteSet(Sane(says))
    BY ClientAssumption, FS_Subset DEF Types, Sane
  <1>3. IsFiniteSet(IF header = "wrong" THEN Claimed ELSE {})
    BY ClientAssumption, FS_EmptySet
  <1>4. IsFiniteSet(WalkSet)
    BY <1>1, <1>2, <1>3, FS_Union DEF WalkSet
  <1>5. Floor \in WalkSet
    BY ClientAssumption, SMT DEF WalkSet
  <1>6. Cardinality(WalkSet) \in Nat /\ Cardinality(WalkSet) # 0
    BY <1>4, <1>5, FS_CardinalityType, FS_EmptySet
  <1> QED
    BY <1>4, <1>5, <1>6, SMT DEF Walk, WalkSet
-----------------------------------------------------------------------------
LEMMA InitInv == Init => ClientInv
  <1> SUFFICES ASSUME Init PROVE ClientInv
    OBVIOUS
  <1>1. Types
    BY SMT DEF Init, Types, Headers
  <1>2. CachesSound
    BY DEF Init, CachesSound
  <1>3. ASSUME NEW c \in Calls PROVE CallSound(c)
    BY FS_EmptySet, ClientAssumption, SMT DEF Init, CallSound
  <1> QED
    BY <1>1, <1>2, <1>3 DEF ClientInv

\* The bank stays the one it is, and with it what is sensible to ask.
LEMMA BankKept ==
    ASSUME UNCHANGED bank
    PROVE  /\ WalkSet' = WalkSet /\ Unserved' = Unserved
           /\ \A v : Answers(v)' = Answers(v) /\ Sensible(v)' = Sensible(v)
  <1>1. kind' = kind /\ serves' = serves /\ says' = says /\ ranged' = ranged /\ header' = header
    BY DEF bank
  <1>2. WalkSet' = WalkSet /\ Unserved' = Unserved /\ \A v : Answers(v)' = Answers(v)
    BY <1>1 DEF WalkSet, Unserved, Answers, Sane
  <1> QED
    BY <1>2 DEF Sensible

\* A step of one call leaves the others as they were.
LEMMA OthersSound ==
    ASSUME UNCHANGED bank, NEW b \in Calls, CallSound(b),
           pc'[b] = pc[b], version'[b] = version[b], tried'[b] = tried[b],
           attempt'[b] = attempt[b], requests'[b] = requests[b]
    PROVE  CallSound(b)'
  BY BankKept DEF CallSound

LEMMA StepKeepsOthers ==
    ASSUME Types, NEW c \in Calls, Step(c), NEW b \in Calls, b # c
    PROVE  /\ UNCHANGED bank
           /\ pc'[b] = pc[b] /\ version'[b] = version[b] /\ tried'[b] = tried[b]
           /\ attempt'[b] = attempt[b] /\ requests'[b] = requests[b]
  BY SMT DEF Types, Step, StartDead, Start, Ask, Wake, Serve, Renegotiate, GiveUpVersions,
             Reject, Trouble
-----------------------------------------------------------------------------
\* A step that leaves what the bank has refused and the requests alone.
LEMMA WaitSound ==
    ASSUME ClientInv, NEW c \in Calls, Start(c) \/ StartDead(c) \/ Wake(c)
    PROVE  Types' /\ CachesSound' /\ CallSound(c)'
  <1>1. UNCHANGED bank /\ UNCHANGED caches
    BY SMT DEF Start, StartDead, Wake
  <1>2. Types /\ CachesSound /\ CallSound(c)
    BY DEF ClientInv
  <1>3. Types'
    <2>1. version' \in [Calls -> Nat]
      <3>1. StartVersion \in Nat
        BY ClientAssumption
      <3>2. \/ version' = version
            \/ version' = [version EXCEPT ![c] = IF cached = 0 THEN StartVersion ELSE cached]
        BY DEF Start, StartDead, Wake
      <3> QED
        BY <1>2, <3>1, <3>2, SMT DEF Types
    <2>2. pc' \in [Calls -> {"new", "queued", "asking", "sleeping"} \cup Ended]
      <3>1. PICK where \in {"queued", "unversioned"} : pc' = [pc EXCEPT ![c] = where]
        BY DEF Start, StartDead, Wake
      <3> QED
        BY <1>2, <3>1, SMT DEF Types, Ended
    <2>3. tried' = tried /\ attempt' = attempt /\ requests' = requests
      BY DEF Start, StartDead, Wake
    <2> QED
      BY <1>1, <1>2, <2>1, <2>2, <2>3 DEF Types, bank, caches
  <1>4. CachesSound'
    BY <1>1, <1>2, BankKept DEF CachesSound, caches
  <1>5. /\ IsFiniteSet(tried[c]) /\ Cardinality(tried[c]) \in Nat
        /\ attempt[c] \in Nat /\ MaxRetries \in Nat
    BY <1>2, ClientAssumption, WalkFinite, FS_Subset, FS_CardinalityType DEF CallSound, Types
  <1>6. CASE Start(c)
    <2>1. /\ pc[c] = "new" /\ pc'[c] = "queued"
          /\ version'[c] = IF cached = 0 THEN StartVersion ELSE cached
          /\ tried' = tried /\ attempt' = attempt /\ requests' = requests
      BY <1>2, <1>6, SMT DEF Start, Types
    <2>2. StartVersion \in WalkSet
      BY ClientAssumption, SMT DEF WalkSet
    <2>3. Sensible(version'[c])
      BY <1>2, <2>1, <2>2 DEF CachesSound, Sensible
    <2> QED
      BY <1>1, <1>2, <1>3, <1>4, <1>5, <2>1, <2>3, BankKept, SMT DEF CallSound
  <1>7. CASE StartDead(c)
    <2>1. /\ pc[c] = "new" /\ pc'[c] = "unversioned" /\ dead
          /\ tried' = tried /\ attempt' = attempt /\ requests' = requests
      BY <1>2, <1>7, SMT DEF StartDead, Types
    <2> QED
      BY <1>1, <1>2, <1>3, <1>4, <1>5, <2>1, BankKept, SMT DEF CallSound, CachesSound
  <1>8. CASE Wake(c)
    <2>1. /\ pc[c] = "sleeping" /\ pc'[c] = "queued" /\ version' = version
          /\ tried' = tried /\ attempt' = attempt /\ requests' = requests
      BY <1>2, <1>8, SMT DEF Wake, Types
    <2> QED
      BY <1>1, <1>2, <1>3, <1>4, <1>5, <2>1, BankKept, SMT DEF CallSound
  <1> QED
    BY <1>3, <1>4, <1>6, <1>7, <1>8

LEMMA AskSound ==
    ASSUME ClientInv, NEW c \in Calls, Ask(c)
    PROVE  Types' /\ CachesSound' /\ CallSound(c)'
  <1>1. UNCHANGED bank /\ UNCHANGED caches /\ Types /\ CachesSound /\ CallSound(c)
    BY DEF Ask, ClientInv
  <1>2. /\ pc[c] = "queued" /\ pc'[c] = "asking" /\ requests'[c] = requests[c] + 1
        /\ version' = version /\ tried' = tried /\ attempt' = attempt
    BY <1>1, SMT DEF Ask, Types
  <1>3. Types'
    BY <1>1, SMT DEF Ask, Types, bank, caches
  <1>4. CachesSound'
    BY <1>1, BankKept DEF CachesSound, caches
  <1>5. IsFiniteSet(tried[c]) /\ Cardinality(tried[c]) \in Nat
    BY <1>1, WalkFinite, FS_Subset, FS_CardinalityType DEF CallSound
  <1>6. attempt[c] \in Nat
    BY <1>1 DEF Types
  <1> QED
    BY <1>1, <1>2, <1>3, <1>4, <1>5, <1>6, BankKept, SMT DEF CallSound

\* An answer: what is remembered of it is sensible to ask for.
LEMMA ServeSound ==
    ASSUME ClientInv, NEW c \in Calls, Serve(c)
    PROVE  Types' /\ CachesSound' /\ CallSound(c)'
  <1>1. UNCHANGED bank /\ Types /\ CachesSound /\ CallSound(c)
    BY DEF Serve, ClientInv
  <1>2. /\ pc[c] = "asking" /\ pc'[c] = "served" /\ requests' = requests /\ dead' = dead
        /\ version' = version /\ tried' = tried /\ attempt' = attempt
    BY <1>1, SMT DEF Serve, Replied, Types
  <1>3. PICK u \in Answers(version[c]) : cached' \in TakenFor(u, version[c])
    BY DEF Serve
  <1>4. u \in serves /\ u \in Nat /\ version[c] \in Nat /\ Claimed \subseteq Nat
    BY <1>1, ClientAssumption DEF Answers, Types
  <1>5. cached' \in Nat /\ Sensible(cached')
    <2>1. CASE header = "right"
      BY <1>3, <1>4, <2>1, SMT DEF TakenFor, Sensible, Answers
    <2>2. CASE header = "wrong"
      BY <1>3, <1>4, <2>2, SMT DEF TakenFor, Sensible, WalkSet
    <2>3. CASE header = "missing"
      BY <1>3, <1>4, <2>3, SMT DEF TakenFor, Sensible
    <2> QED
      BY <1>1, <2>1, <2>2, <2>3 DEF Types, Headers
  <1>6. Types'
    BY <1>1, <1>5, SMT DEF Serve, Types, bank, Ended
  <1>7. CachesSound'
    BY <1>1, <1>2, <1>5, BankKept DEF CachesSound
  <1> QED
    BY <1>1, <1>2, <1>6, <1>7, BankKept, SMT DEF CallSound
-----------------------------------------------------------------------------
\* One more refusal: it takes the place of the request that was out.
LEMMA RefusalCounts ==
    ASSUME ClientInv, NEW c \in Calls, Replied(c), Answers(version[c]) = {}
    PROVE  LET refused == tried[c] \cup {version[c]} IN
           /\ refused \subseteq WalkSet /\ refused \subseteq Nat
           /\ \A v \in refused : Answers(v) = {}
           /\ Cardinality(refused) = Cardinality(tried[c]) + 1
           /\ requests[c] = attempt[c] + Cardinality(refused)
           /\ attempt[c] \in Nat /\ Cardinality(refused) \in Nat
  <1> DEFINE refused == tried[c] \cup {version[c]}
  <1>1. Types /\ CallSound(c) /\ pc[c] = "asking"
    BY DEF ClientInv, Replied
  <1>2. version[c] \notin tried[c] /\ version[c] \in WalkSet
    BY <1>1, SMT DEF CallSound, Sensible
  <1>3. tried[c] \subseteq Nat /\ version[c] \in Nat /\ attempt[c] \in Nat
    BY <1>1 DEF Types
  <1>4. IsFiniteSet(tried[c]) /\ Cardinality(tried[c]) \in Nat
    BY <1>1, WalkFinite, FS_Subset, FS_CardinalityType DEF CallSound
  <1>5. Cardinality(refused) = Cardinality(tried[c]) + 1
    BY <1>2, <1>4, FS_AddElement
  <1>6. requests[c] = attempt[c] + Cardinality(tried[c]) + 1
    BY <1>1, SMT DEF CallSound
  <1>7. refused \subseteq WalkSet /\ \A v \in refused : Answers(v) = {}
    BY <1>1, <1>2 DEF CallSound
  <1> QED
    BY <1>3, <1>4, <1>5, <1>6, <1>7, SMT

LEMMA RenegotiateSound ==
    ASSUME ClientInv, NEW c \in Calls, Renegotiate(c)
    PROVE  Types' /\ CachesSound' /\ CallSound(c)'
  <1> DEFINE refused == tried[c] \cup {version[c]}
             next == Greatest(Choices(says, refused))
  <1>1. UNCHANGED bank /\ UNCHANGED caches /\ Types /\ CachesSound /\ CallSound(c)
    BY DEF Renegotiate, ClientInv
  <1>2. Replied(c) /\ Answers(version[c]) = {} /\ Choices(says, refused) # {}
    BY DEF Renegotiate
  <1>3. next \in Nat /\ next \in WalkSet \ refused
    BY <1>1, <1>2, ChoiceSound
  <1>4. /\ refused \subseteq WalkSet /\ refused \subseteq Nat
        /\ \A v \in refused : Answers(v) = {}
        /\ requests[c] = attempt[c] + Cardinality(refused)
        /\ attempt[c] \in Nat /\ Cardinality(refused) \in Nat
    BY <1>2, RefusalCounts
  <1>5. /\ tried' = [tried EXCEPT ![c] = refused] /\ version' = [version EXCEPT ![c] = next]
        /\ pc' = [pc EXCEPT ![c] = "queued"] /\ attempt' = attempt /\ requests' = requests
    BY DEF Renegotiate
  <1> HIDE DEF refused, next
  <1>6. Types'
    <2>1. tried' \in [Calls -> SUBSET Nat] /\ version' \in [Calls -> Nat]
      BY <1>1, <1>3, <1>4, <1>5, SMT DEF Types
    <2>2. pc' \in [Calls -> {"new", "queued", "asking", "sleeping"} \cup Ended]
      BY <1>1, <1>5, SMT DEF Types
    <2> QED
      BY <1>1, <1>5, <2>1, <2>2 DEF Types, bank, caches
  <1>7. CachesSound'
    BY <1>1, BankKept DEF CachesSound, caches
  <1>8. tried'[c] = refused /\ version'[c] = next /\ pc'[c] = "queued" /\ pc[c] = "asking"
    BY <1>1, <1>2, <1>5, SMT DEF Types, Replied
  <1>9. MaxRetries \in Nat
    BY ClientAssumption
  <1> QED
    <2>1. tried'[c] \subseteq WalkSet' /\ \A v \in tried'[c] : Answers(v)' = {}
      BY <1>1, <1>4, <1>8, BankKept
    <2>2. version'[c] \notin tried'[c]
      BY <1>3, <1>4, <1>8
    <2>3. version'[c] \in WalkSet'
      BY <1>1, <1>3, <1>8, BankKept
    <2>4. Sensible(version[c])'
      BY <2>3 DEF Sensible
    <2>5. attempt'[c] <= MaxRetries
      BY <1>1, <1>5, <1>8, <1>9, SMT DEF CallSound
    <2>6. CallSound(c)'
      BY <1>4, <1>5, <1>8, <1>9, <2>1, <2>2, <2>3, <2>4, <2>5, SMT DEF CallSound
    <2> QED
      BY <1>6, <1>7, <2>6

LEMMA GiveUpVersionsSound ==
    ASSUME ClientInv, NEW c \in Calls, GiveUpVersions(c)
    PROVE  Types' /\ CachesSound' /\ CallSound(c)'
  <1> DEFINE refused == tried[c] \cup {version[c]}
  <1>1. UNCHANGED bank /\ Types /\ CachesSound /\ CallSound(c)
    BY DEF GiveUpVersions, ClientInv
  <1>2. Replied(c) /\ Answers(version[c]) = {} /\ Choices(says, refused) = {}
    BY DEF GiveUpVersions
  <1>3. /\ refused \subseteq WalkSet /\ refused \subseteq Nat
        /\ \A v \in refused : Answers(v) = {}
        /\ requests[c] = attempt[c] + Cardinality(refused)
        /\ attempt[c] \in Nat /\ Cardinality(refused) \in Nat
    BY <1>2, RefusalCounts
  <1>4. Unserved
    BY <1>2, <1>3, RefusedUnserved, NoChoice
  <1>5. /\ tried' = [tried EXCEPT ![c] = refused] /\ version' = version /\ cached' = cached
        /\ pc' = [pc EXCEPT ![c] = "unversioned"] /\ attempt' = attempt /\ requests' = requests
    BY DEF GiveUpVersions
  <1> HIDE DEF refused
  <1>6. Types'
    <2>1. tried' \in [Calls -> SUBSET Nat]
      BY <1>1, <1>3, <1>5, SMT DEF Types
    <2>2. pc' \in [Calls -> {"new", "queued", "asking", "sleeping"} \cup Ended]
      BY <1>1, <1>5, SMT DEF Types, Ended
    <2> QED
      BY <1>1, <1>5, <2>1, <2>2 DEF Types, bank
  <1>7. CachesSound'
    BY <1>1, <1>4, <1>5, BankKept DEF CachesSound
  <1>8. MaxRetries \in Nat
    BY ClientAssumption
  <1>9. tried'[c] = refused /\ pc'[c] = "unversioned" /\ pc[c] = "asking"
    BY <1>1, <1>2, <1>5, SMT DEF Types, Replied
  <1> QED
    <2>1. tried'[c] \subseteq WalkSet' /\ \A v \in tried'[c] : Answers(v)' = {}
      BY <1>1, <1>3, <1>9, BankKept
    <2>2. version'[c] \in WalkSet' /\ Unserved'
      BY <1>1, <1>3, <1>4, <1>5, BankKept DEF refused
    <2>3. attempt'[c] <= MaxRetries
      BY <1>1, <1>5, <1>9, <1>8, SMT DEF CallSound
    <2> QED
      BY <1>3, <1>5, <1>6, <1>7, <1>9, <1>8, <2>1, <2>2, <2>3, SMT DEF CallSound

\* An error ends the call, or puts it to sleep until its budget is spent.
LEMMA ErrorSound ==
    ASSUME ClientInv, NEW c \in Calls, Reject(c) \/ Trouble(c)
    PROVE  Types' /\ CachesSound' /\ CallSound(c)'
  <1>1. UNCHANGED bank /\ UNCHANGED caches /\ Types /\ CachesSound /\ CallSound(c)
    BY DEF Reject, Trouble, ClientInv
  <1>2. /\ pc[c] = "asking" /\ version' = version /\ tried' = tried /\ requests' = requests
    BY DEF Reject, Trouble, Replied
  <1>3. /\ IsFiniteSet(tried[c]) /\ Cardinality(tried[c]) \in Nat
        /\ attempt[c] \in Nat /\ MaxRetries \in Nat
    BY <1>1, ClientAssumption, WalkFinite, FS_Subset, FS_CardinalityType DEF CallSound, Types
  <1>4. CachesSound'
    BY <1>1, BankKept DEF CachesSound, caches
  <1>5. \E where \in {"rejected", "gaveup", "sleeping"} :
           pc' = [pc EXCEPT ![c] = where]
    BY DEF Reject, Trouble
  <1>6. pc' \in [Calls -> {"new", "queued", "asking", "sleeping"} \cup Ended]
    BY <1>1, <1>5, SMT DEF Types, Ended
  <1>7. CASE Reject(c)
    <2>1. pc'[c] = "rejected" /\ attempt' = attempt
      BY <1>1, <1>7, SMT DEF Reject, Types
    <2>2. Types'
      BY <1>1, <1>2, <1>6, <2>1 DEF Types, bank, caches
    <2> QED
      BY <1>1, <1>2, <1>3, <1>4, <2>1, <2>2, BankKept, SMT DEF CallSound
  <1>8. CASE Trouble(c)
    <2>1. /\ attempt' = [attempt EXCEPT ![c] = @ + 1] /\ attempt'[c] = attempt[c] + 1
          /\ pc'[c] = IF attempt[c] + 1 > MaxRetries THEN "gaveup" ELSE "sleeping"
      BY <1>1, <1>8, SMT DEF Trouble, Types
    <2>2. Types'
      <3>1. attempt' \in [Calls -> Nat]
        BY <1>1, <2>1, SMT DEF Types
      <3> QED
        BY <1>1, <1>2, <1>6, <3>1 DEF Types, bank, caches
    <2> QED
      BY <1>1, <1>2, <1>3, <1>4, <2>1, <2>2, BankKept, SMT DEF CallSound
  <1> QED
    BY <1>7, <1>8
-----------------------------------------------------------------------------
LEMMA ClientStep == ClientInv /\ [Next]_vars => ClientInv'
  <1> SUFFICES ASSUME ClientInv, [Next]_vars PROVE ClientInv'
    OBVIOUS
  <1>1. ASSUME NEW c \in Calls, Step(c) PROVE ClientInv'
    <2>1. Types' /\ CachesSound' /\ CallSound(c)'
      BY <1>1, WaitSound, AskSound, ServeSound, RenegotiateSound, GiveUpVersionsSound,
         ErrorSound DEF Step
    <2>2. ASSUME NEW b \in Calls, b # c PROVE CallSound(b)'
      BY <1>1, <2>2, StepKeepsOthers, OthersSound DEF ClientInv
    <2> QED
      BY <2>1, <2>2 DEF ClientInv
  <1>2. CASE UNCHANGED vars
    <2>1. UNCHANGED bank
      BY <1>2 DEF vars, bank
    <2>2. ASSUME NEW b \in Calls PROVE CallSound(b)'
      BY <1>2, <2>1, OthersSound DEF ClientInv, vars
    <2>3. Types' /\ CachesSound'
      BY <1>2, <2>1, BankKept DEF ClientInv, vars, Types, CachesSound
    <2> QED
      BY <2>2, <2>3 DEF ClientInv
  <1> QED
    BY <1>1, <1>2 DEF Next

LEMMA ClientAlways == Spec => []ClientInv
  BY InitInv, ClientStep, PTL DEF Spec

\* No call asks again for a version it has been refused (RefusedNotReasked),
\* whatever the bank names, claims or has served to others.
THEOREM NeverReasked == Spec => []RefusedNotReasked
  <1>1. ClientInv => RefusedNotReasked
    BY SMT DEF ClientInv, CallSound, RefusedNotReasked
  <1> QED
    BY <1>1, ClientAlways, PTL

\* A call that gave up on versions did so at a bank that serves none of them, or
\* names absurd ones only (VersionFailuresHonest).
THEOREM VersionFailuresAlwaysHonest == Spec => []VersionFailuresHonest
  <1>1. ClientInv => VersionFailuresHonest
    BY DEF ClientInv, CallSound, Unserved, VersionFailuresHonest
  <1> QED
    BY <1>1, ClientAlways, PTL

\* Negotiation and retries together cost a bank no more than the retries and one
\* request for each version of the walk (RequestsBounded).
THEOREM RequestsAlwaysBounded == Spec => []RequestsBounded
  <1>1. ASSUME ClientInv, NEW c \in Calls PROVE requests[c] <= MaxRetries + Walk
    <2>1. Types /\ CallSound(c)
      BY <1>1 DEF ClientInv
    <2>2. /\ IsFiniteSet(WalkSet) /\ Cardinality(WalkSet) \in Nat
          /\ Cardinality(WalkSet) >= 1 /\ Walk = Cardinality(WalkSet)
      BY <2>1, WalkFinite
    <2>3. /\ IsFiniteSet(tried[c]) /\ Cardinality(tried[c]) \in Nat
          /\ Cardinality(tried[c]) <= Cardinality(WalkSet)
      BY <2>1, <2>2, FS_Subset, FS_CardinalityType DEF CallSound
    <2>4. attempt[c] \in Nat /\ requests[c] \in Nat /\ MaxRetries \in Nat
      BY <2>1, ClientAssumption DEF Types
    <2>5. CASE pc[c] \in {"new", "unversioned"}
      BY <2>1, <2>2, <2>3, <2>4, <2>5, SMT DEF CallSound
    <2>6. CASE pc[c] \notin {"new", "unversioned"}
      <3>1. Cardinality(tried[c]) + 1 <= Cardinality(WalkSet)
        <4>1. version[c] \notin tried[c] /\ Sensible(version[c])
          BY <2>1, <2>6 DEF CallSound
        <4>2. CASE version[c] \in WalkSet
          <5>1. tried[c] \cup {version[c]} \subseteq WalkSet
            BY <2>1, <4>2 DEF CallSound
          <5>2. Cardinality(tried[c] \cup {version[c]}) = Cardinality(tried[c]) + 1
            BY <2>3, <4>1, FS_AddElement
          <5> QED
            BY <2>2, <5>1, <5>2, FS_Subset
        <4>3. CASE version[c] \notin WalkSet
          <5>1. Cardinality(tried[c]) = 0
            BY <2>1, <4>3, FS_EmptySet DEF CallSound
          <5> QED
            BY <2>2, <5>1, SMT
        <4> QED
          BY <4>2, <4>3
      <3> QED
        BY <2>1, <2>2, <2>3, <2>4, <2>6, <3>1, SMT DEF CallSound
    <2> QED
      BY <2>5, <2>6
  <1>2. ClientInv => RequestsBounded
    BY <1>1 DEF RequestsBounded
  <1> QED
    BY <1>2, ClientAlways, PTL
-----------------------------------------------------------------------------
(* Who is in line.                                                          *)

\* s has each call of S in one place, and no other.
Lists(s, S) ==
    /\ s \in Seq(Calls)
    /\ \A i, j \in DOMAIN s : s[i] = s[j] => i = j
    /\ \A i \in DOMAIN s : s[i] \in S
    /\ \A c \in S : \E i \in DOMAIN s : s[i] = c

Lined == {c \in Calls : pc[c] \in {"queued", "asking"}}
LineInv ==
    /\ kind \in Kinds /\ ranged \in BOOLEAN /\ dead \in BOOLEAN
    /\ Lists(line, Lined)

\* A sequence from which a place is removed.
LEMMA RemoveShape ==
    ASSUME NEW s \in Seq(Calls), NEW i \in DOMAIN s
    PROVE  /\ SE!RemoveAt(s, i) \in Seq(Calls)
           /\ Len(SE!RemoveAt(s, i)) = Len(s) - 1
           /\ \A n \in 1 .. Len(s) - 1 :
                SE!RemoveAt(s, i)[n] = IF n < i THEN s[n] ELSE s[n + 1]
<1>1. /\ Len(s) \in Nat /\ i \in 1 .. Len(s) /\ i \in Nat
  OBVIOUS
<1> DEFINE head == SubSeq(s, 1, i - 1)
           tail == SubSeq(s, i + 1, Len(s))
<1>2. /\ head \in Seq(Calls) /\ Len(head) = i - 1
      /\ \A n \in 1 .. i - 1 : head[n] = s[n]
  BY <1>1, SMT
<1>3. /\ tail \in Seq(Calls) /\ Len(tail) = Len(s) - i
      /\ \A n \in 1 .. Len(s) - i : tail[n] = s[n + i]
  BY <1>1, SMT
<1> HIDE DEF head, tail
<1>4. /\ head \o tail \in Seq(Calls) /\ Len(head \o tail) = Len(s) - 1
      /\ \A n \in 1 .. Len(s) - 1 :
            (head \o tail)[n] = IF n < i THEN head[n] ELSE tail[n - (i - 1)]
  <2>1. head \in Seq(Calls) /\ tail \in Seq(Calls)
    BY <1>2, <1>3
  <2>2. head \o tail \in Seq(Calls) /\ Len(head \o tail) = Len(head) + Len(tail)
    BY <2>1, SMT
  <2>3. \A n \in 1 .. Len(head) + Len(tail) :
          (head \o tail)[n] = IF n <= Len(head) THEN head[n] ELSE tail[n - Len(head)]
    BY <2>1, SMT
  <2>4. Len(head) + Len(tail) = Len(s) - 1
    BY <1>1, <1>2, <1>3
  <2>5. ASSUME NEW n \in 1 .. Len(s) - 1
        PROVE  (head \o tail)[n] = IF n < i THEN head[n] ELSE tail[n - (i - 1)]
    <3>1. n < i <=> n <= Len(head)
      BY <1>1, <1>2
    <3>2. n - Len(head) = n - (i - 1)
      BY <1>2
    <3>3. n \in 1 .. Len(head) + Len(tail)
      BY <2>4
    <3>4. QED
      BY <2>3, <3>1, <3>2, <3>3
  <2>6. QED
    BY <2>2, <2>4, <2>5
<1>5. ASSUME NEW n \in 1 .. Len(s) - 1
      PROVE  (head \o tail)[n] = IF n < i THEN s[n] ELSE s[n + 1]
  <2>1. CASE n < i
    BY <1>1, <1>2, <1>4, <2>1
  <2>2. CASE ~(n < i)
    <3>1. n - (i - 1) \in 1 .. Len(s) - i /\ (n - (i - 1)) + i = n + 1
      BY <1>1, <2>2
    <3>2. tail[n - (i - 1)] = s[n + 1]
      BY <1>3, <3>1
    <3>3. QED
      BY <1>4, <2>2, <3>2
  <2>3. QED
    BY <2>1, <2>2
<1>6. QED
  BY <1>4, <1>5 DEF SE!RemoveAt, head, tail

\* A call that joins the line, or leaves it.
LEMMA JoinLists ==
    ASSUME NEW s, NEW S \in SUBSET Calls, Lists(s, S), NEW c \in Calls \ S
    PROVE  Lists(Append(s, c), S \cup {c})
<1> DEFINE t == Append(s, c)
<1>1. s \in Seq(Calls) /\ Len(s) \in Nat /\ DOMAIN s = 1 .. Len(s)
  BY DEF Lists
<1>2. t \in Seq(Calls)
  BY <1>1
<1>3. /\ DOMAIN t = 1 .. Len(s) + 1
      /\ \A i \in 1 .. Len(s) : t[i] = s[i]
      /\ t[Len(s) + 1] = c
  BY <1>1
<1> HIDE DEF t
<1>4. \A i \in 1 .. Len(s) + 1 : i \in 1 .. Len(s) \/ i = Len(s) + 1
  BY <1>1
<1>5. \A i \in DOMAIN t : t[i] = IF i = Len(s) + 1 THEN c ELSE s[i]
  BY <1>3, <1>4
<1>6. \A i \in 1 .. Len(s) : i # Len(s) + 1 /\ s[i] \in S
  BY <1>1 DEF Lists
<1>7. \A i, j \in DOMAIN t : t[i] = t[j] => i = j
  BY <1>1, <1>3, <1>4, <1>5, <1>6 DEF Lists
<1>8. \A i \in DOMAIN t : t[i] \in S \cup {c}
  BY <1>3, <1>4, <1>5, <1>6
<1>9. ASSUME NEW d \in S \cup {c} PROVE \E i \in DOMAIN t : t[i] = d
  <2>1. CASE d = c
    <3>1. Len(s) + 1 \in DOMAIN t
      BY <1>1, <1>3
    <3>2. QED
      BY <1>3, <2>1, <3>1
  <2>2. CASE d # c
    <3>1. PICK i \in 1 .. Len(s) : s[i] = d
      BY <1>1, <2>2 DEF Lists
    <3>2. i \in DOMAIN t
      BY <1>1, <1>3
    <3>3. QED
      BY <1>3, <3>1, <3>2
  <2>3. QED
    BY <2>1, <2>2
<1>10. Lists(t, S \cup {c})
  BY <1>2, <1>7, <1>8, <1>9 DEF Lists
<1>11. QED
  BY <1>10 DEF t

LEMMA LeaveLists ==
    ASSUME NEW S \in SUBSET Calls, Lists(line, S), NEW c \in S
    PROVE  Lists(Without(c), S \ {c})
<1> DEFINE k == CHOOSE i \in DOMAIN line : line[i] = c
           t == Without(c)
           pos(n) == IF n < k THEN n ELSE n + 1
<1>1. line \in Seq(Calls) /\ Len(line) \in Nat /\ DOMAIN line = 1 .. Len(line)
  BY DEF Lists
<1>2. k \in 1 .. Len(line) /\ line[k] = c
  BY <1>1 DEF Lists
<1>3. \A i \in 1 .. Len(line) : line[i] = c => i = k
  BY <1>1, <1>2 DEF Lists
<1>4. t = SE!RemoveAt(line, k)
  BY DEF Without
<1> HIDE DEF k, t
<1>5. /\ t \in Seq(Calls) /\ Len(t) = Len(line) - 1
      /\ \A n \in 1 .. Len(line) - 1 : t[n] = IF n < k THEN line[n] ELSE line[n + 1]
  BY <1>1, <1>2, <1>4, RemoveShape
<1>6. DOMAIN t = 1 .. Len(line) - 1
  BY <1>5
<1>7. \A n \in DOMAIN t : t[n] = line[pos(n)] /\ pos(n) \in 1 .. Len(line) /\ pos(n) # k
  BY <1>1, <1>2, <1>5, <1>6
<1>8. \A m, n \in DOMAIN t : pos(m) = pos(n) => m = n
  BY <1>1, <1>2, <1>6
<1>9. ASSUME NEW i \in 1 .. Len(line), i # k
      PROVE  \E n \in DOMAIN t : pos(n) = i
  <2>1. CASE i < k
    <3>1. i \in DOMAIN t
      BY <1>1, <1>2, <1>6, <2>1
    <3>2. QED
      BY <2>1, <3>1
  <2>2. CASE ~(i < k)
    <3>1. i - 1 \in DOMAIN t /\ ~(i - 1 < k) /\ (i - 1) + 1 = i
      BY <1>1, <1>2, <1>6, <1>9, <2>2
    <3>2. QED
      BY <3>1
  <2>3. QED
    BY <2>1, <2>2
<1> HIDE DEF pos
<1>10. \A m, n \in DOMAIN t : t[m] = t[n] => m = n
  BY <1>1, <1>7, <1>8 DEF Lists
<1>11. \A n \in DOMAIN t : t[n] \in S \ {c}
  BY <1>1, <1>3, <1>7 DEF Lists
<1>12. ASSUME NEW d \in S \ {c} PROVE \E n \in DOMAIN t : t[n] = d
  <2>1. PICK i \in 1 .. Len(line) : line[i] = d
    BY <1>1 DEF Lists
  <2>2. i # k
    BY <1>2, <2>1
  <2>3. PICK n \in DOMAIN t : pos(n) = i
    BY <1>9, <2>2
  <2>4. QED
    BY <1>7, <2>1, <2>3
<1>13. Lists(t, S \ {c})
  BY <1>5, <1>10, <1>11, <1>12 DEF Lists
<1>14. QED
  BY <1>13 DEF t

\* A call is in line exactly while it queues or asks.
LEMMA LineStep == Types /\ LineInv /\ [Next]_vars => LineInv'
<1> SUFFICES ASSUME Types, LineInv, [Next]_vars PROVE LineInv'
  OBVIOUS
<1>1. CASE UNCHANGED vars
  BY <1>1 DEF vars, LineInv, Lined, Lists
<1>2. ASSUME NEW c \in Calls, Step(c) PROVE LineInv'
  <2>1. \A b \in Calls \ {c} : pc'[b] = pc[b]
    BY <1>2, StepKeepsOthers
  <2>2. kind' \in Kinds /\ ranged' \in BOOLEAN
    BY <1>2 DEF LineInv, Step, StartDead, Start, Ask, Wake, Serve, Renegotiate,
       GiveUpVersions, Reject, Trouble, bank
  <2>3. dead' \in BOOLEAN
    BY <1>2 DEF LineInv, Step, StartDead, Start, Ask, Wake, Serve, Renegotiate,
       GiveUpVersions, Reject, Trouble, caches
  <2>4. Lined \in SUBSET Calls
    BY DEF Lined
  <2>5. CASE StartDead(c) \/ Ask(c)
    <3>1. /\ UNCHANGED line
          /\ pc[c] \in {"queued", "asking"} <=> pc'[c] \in {"queued", "asking"}
      BY <2>5 DEF StartDead, Ask, Types
    <3>2. Lined' = Lined
      BY <2>1, <3>1 DEF Lined
    <3>3. QED
      BY <2>2, <2>3, <3>1, <3>2 DEF LineInv
  <2>6. CASE Start(c) \/ Wake(c)
    <3>1. line' = Append(line, c) /\ pc[c] \in {"new", "sleeping"} /\ pc'[c] = "queued"
      BY <2>6 DEF Start, Wake, Types
    <3>2. c \notin Lined /\ Lined' = Lined \cup {c}
      BY <2>1, <3>1 DEF Lined
    <3>3. Lists(line', Lined')
      BY <2>4, <3>1, <3>2, JoinLists DEF LineInv
    <3>4. QED
      BY <2>2, <2>3, <3>3 DEF LineInv, Lists
  <2>7. CASE Serve(c) \/ GiveUpVersions(c) \/ Reject(c) \/ Trouble(c)
    <3>1. /\ line' = Without(c) /\ pc[c] = "asking"
          /\ pc'[c] \in {"served", "unversioned", "rejected", "gaveup", "sleeping"}
      BY <2>7 DEF Serve, GiveUpVersions, Reject, Trouble, Replied, Types
    <3>2. c \in Lined /\ Lined' = Lined \ {c}
      BY <2>1, <3>1 DEF Lined
    <3>3. Lists(line', Lined')
      BY <2>4, <3>1, <3>2, LeaveLists DEF LineInv
    <3>4. QED
      BY <2>2, <2>3, <3>3 DEF LineInv, Lists
  <2>8. CASE Renegotiate(c)
    <3>1. line' = Append(Without(c), c) /\ pc[c] = "asking" /\ pc'[c] = "queued"
      BY <2>8 DEF Renegotiate, Replied, Types
    <3>2. c \in Lined /\ Lined' = (Lined \ {c}) \cup {c}
      BY <2>1, <3>1 DEF Lined
    <3>3. Lists(Without(c), Lined \ {c})
      BY <2>4, <3>2, LeaveLists DEF LineInv
    <3>4. Lists(line', Lined')
      BY <2>4, <3>1, <3>2, <3>3, JoinLists
    <3>5. QED
      BY <2>2, <2>3, <3>4 DEF LineInv, Lists
  <2>9. QED
    BY <1>2, <2>5, <2>6, <2>7, <2>8 DEF Step
<1>3. QED
  BY <1>1, <1>2 DEF Next

\* The client keeps its types, and the line is of the calls that want or hold a
\* slot: none holds one after it has ended or while it sleeps (TypeOK).
THEOREM TypeCorrect == Spec => []TypeOK
<1>1. Init => LineInv
  <2> SUFFICES ASSUME Init PROVE LineInv
    OBVIOUS
  <2>1. Lined = {} /\ line = << >> /\ DOMAIN line = {}
    BY DEF Init, Lined
  <2>2. Lists(line, Lined)
    BY <2>1 DEF Lists
  <2>3. QED
    BY <2>2 DEF Init, LineInv
<1>2. ClientInv => Types
  BY DEF ClientInv
<1>3. Spec => []LineInv
  BY <1>1, <1>2, LineStep, ClientAlways, PTL DEF Spec
<1>4. Types /\ LineInv => TypeOK
  <2> SUFFICES ASSUME Types, LineInv PROVE TypeOK
    OBVIOUS
  <2>1. ASSUME NEW c \in Calls
        PROVE  pc[c] \in {"queued", "asking"} <=> \E i \in DOMAIN line : line[i] = c
    BY DEF LineInv, Lists, Lined
  <2>2. line \in Seq(Calls)
    BY DEF LineInv, Lists
  <2>3. QED
    BY <2>1, <2>2 DEF Types, LineInv, TypeOK
<1>5. QED
  BY <1>2, <1>3, <1>4, ClientAlways, PTL
-----------------------------------------------------------------------------
(* The brands of a host, one after the other.                              *)

Idle == {"new"} \cup Ended

\* The calls made before a call that has begun are over; what they have found
\* out is in the caches, which tell the truth of a bank that does; and a call
\* that has begun has looked at them.
HostInv ==
    /\ \A b, c \in Calls : Before(b, c) /\ pc[c] # "new" => pc[b] \in Ended \/ Abandoned(b)
    /\ \A c \in Calls : pc[c] # "new" => ~Abandoned(c)
    /\ \A b \in Calls : pc[b] = "unversioned" => dead
    /\ \A b, c \in Calls : Before(b, c) /\ pc[b] = "unversioned" =>
            requests[c] = 0 /\ pc[c] \in Idle
    /\ header # "wrong" =>
        /\ \A b \in Calls : pc[b] = "served" => cached # 0
        /\ cached # 0 => Answers(cached) # {}
        /\ \A b, c \in Calls : Before(b, c) /\ pc[b] = "served" =>
                tried[c] = {} /\ (pc[c] \notin Idle => Answers(version[c]) # {})

\* Of two calls one of which is made after the other, the one comes first.
LEMMA BeforeOrdered ==
    ASSUME NEW b \in Calls, NEW c \in Calls, Before(b, c)
    PROVE  b < c /\ b # c
<1>1. b \in Nat /\ c \in Nat /\ Brand[b] \in Nat /\ Brand[c] \in Nat
  BY ClientAssumption
<1>2. Brand[b] < Brand[c] => b < c
  <2> SUFFICES ASSUME Brand[b] < Brand[c], ~(b < c) PROVE FALSE
    OBVIOUS
  <2>1. b = c \/ c < b
    BY <1>1
  <2>2. b # c
    BY <1>1
  <2>3. Brand[c] <= Brand[b]
    BY <2>1, <2>2, ClientAssumption
  <2>4. QED
    BY <1>1, <2>3
<1>3. QED
  BY <1>1, <1>2 DEF Before

\* A call that is about to begin begins after those before it, and is not one
\* that its brand has given up.
LEMMA TurnOver ==
    ASSUME NEW c \in Calls, MyTurn(c)
    PROVE  /\ \A b \in Calls : Before(b, c) => pc[b] \in Ended \/ Abandoned(b)
           /\ ~Abandoned(c)
<1>1. ASSUME NEW b \in Calls, Before(b, c) PROVE pc[b] \in Ended \/ Abandoned(b)
  <2>1. b < c
    BY <1>1, BeforeOrdered
  <2>2. CASE Brand[b] < Brand[c]
    BY <2>1, <2>2 DEF MyTurn
  <2>3. CASE ~(Brand[b] < Brand[c])
    <3>1. ~Gathered
      BY <1>1, <2>3 DEF Before
    <3>2. QED
      BY <2>1, <2>3, <3>1 DEF MyTurn, Ended
  <2>4. QED
    BY <2>2, <2>3
<1>2. ~Abandoned(c)
  <2> SUFFICES ASSUME ~Gathered, NEW b \in Calls, b < c, Brand[b] = Brand[c],
                      pc[b] \in Ended \ {"served"}
               PROVE  FALSE
    BY DEF Abandoned
  <2>1. ~(Brand[b] < Brand[c])
    BY ClientAssumption
  <2>2. QED
    BY <2>1 DEF MyTurn
<1>3. QED
  BY <1>1, <1>2

\* What a call that was served leaves in the cache, the bank answers to.
LEMMA ServedAnswers ==
    ASSUME Types, NEW c \in Calls, Serve(c), header # "wrong"
    PROVE  cached' # 0 /\ Answers(cached') # {}
<1>1. PICK u \in Answers(version[c]) : cached' \in TakenFor(u, version[c])
  BY DEF Serve
<1>2. serves \subseteq Nat \ {0} /\ Floor \in Nat \ {0} /\ version[c] \in Nat
  BY ClientAssumption DEF Types
<1>3. u \in serves /\ u # 0 /\ version[c] # 0
  BY <1>1, <1>2 DEF Answers
<1>4. CASE header = "right"
  BY <1>1, <1>3, <1>4 DEF TakenFor, Answers
<1>5. CASE header = "missing"
  BY <1>1, <1>3, <1>5 DEF TakenFor
<1>6. QED
  BY <1>4, <1>5 DEF Types, Headers

\* A step of one call: until it has ended those after it have not begun, and
\* when it begins it looks at what those before it have left.
LEMMA HostStep == ClientInv /\ HostInv /\ [Next]_vars => HostInv'
<1> SUFFICES ASSUME ClientInv, HostInv, [Next]_vars PROVE HostInv'
  OBVIOUS
<1>1. CASE UNCHANGED vars
  BY <1>1 DEF vars, HostInv, Before, Abandoned, Gathered, Answers
<1>2. ASSUME NEW c \in Calls, Step(c) PROVE HostInv'
  <2>1. /\ UNCHANGED bank
        /\ \A b \in Calls \ {c} : /\ pc'[b] = pc[b] /\ version'[b] = version[b]
                                   /\ tried'[b] = tried[b] /\ requests'[b] = requests[b]
    <3>1. UNCHANGED bank
      BY <1>2 DEF Step, StartDead, Start, Ask, Wake, Serve, Renegotiate, GiveUpVersions,
         Reject, Trouble
    <3>2. QED
      BY <1>2, <3>1, StepKeepsOthers DEF ClientInv
  <2>2. /\ header' = header /\ \A v : Answers(v)' = Answers(v)
        /\ Gathered' = Gathered /\ \A a, b : Before(a, b)' = Before(a, b)
    BY <2>1, BankKept DEF bank, Gathered, Before
  <2>3. /\ pc[c] = "new" => MyTurn(c) /\ UNCHANGED caches
        /\ pc[c] \notin Ended /\ pc'[c] # "new"
        /\ pc \in [Calls -> {"new", "queued", "asking", "sleeping"} \cup Ended]
    <3>1. CASE StartDead(c) \/ Start(c)
      BY <3>1 DEF StartDead, Start, ClientInv, Types, Ended
    <3>2. CASE ~(StartDead(c) \/ Start(c))
      BY <1>2, <3>2 DEF Step, Ask, Wake, Serve, Renegotiate, GiveUpVersions, Reject,
         Trouble, Replied, ClientInv, Types, Ended
    <3>3. QED
      BY <3>1, <3>2
  <2>4. ASSUME NEW b \in Calls, Before(c, b)
        PROVE  pc'[b] = "new" /\ tried'[b] = {} /\ requests'[b] = 0
    <3>1. ~Abandoned(c)
      BY <2>3, TurnOver DEF HostInv
    <3>2. pc[b] = "new"
      BY <2>3, <2>4, <3>1 DEF HostInv
    <3>3. b # c /\ tried[b] = {} /\ requests[b] = 0
      BY <2>4, <3>2, BeforeOrdered DEF ClientInv, CallSound
    <3>4. QED
      BY <2>1, <3>2, <3>3
  <2>5. ASSUME NEW b \in Calls, Abandoned(b) PROVE Abandoned(b)'
    <3>1. PICK a \in Calls : a < b /\ Brand[a] = Brand[b] /\ pc[a] \in Ended \ {"served"}
      BY <2>5 DEF Abandoned
    <3>2. pc'[a] = pc[a]
      BY <2>1, <2>3, <3>1
    <3>3. QED
      BY <2>2, <2>5, <3>1, <3>2 DEF Abandoned
  <2>6. ASSUME NEW a \in Calls, NEW b \in Calls, Before(a, b), pc'[b] # "new"
        PROVE  pc'[a] \in Ended \/ Abandoned(a)'
    <3>1. pc[a] \in Ended \/ Abandoned(a)
      <4>1. CASE b = c /\ pc[c] = "new"
        BY <2>3, <2>6, <4>1, TurnOver
      <4>2. CASE ~(b = c /\ pc[c] = "new")
        BY <2>1, <2>6, <4>2 DEF HostInv
      <4>3. QED
        BY <4>1, <4>2
    <3>2. pc[a] \in Ended => pc'[a] \in Ended
      BY <2>1, <2>3
    <3>3. QED
      BY <2>5, <3>1, <3>2
  <2>7. ASSUME NEW b \in Calls, pc'[b] # "new" PROVE ~Abandoned(b)'
    <3> SUFFICES ASSUME ~Gathered, NEW a \in Calls, a < b, Brand[a] = Brand[b],
                        pc'[a] \in Ended \ {"served"}
                 PROVE  FALSE
      BY <2>2 DEF Abandoned
    <3>1. a # c
      BY <2>4, <2>7 DEF Before
    <3>2. Abandoned(b)
      BY <2>1, <3>1 DEF Abandoned
    <3>3. CASE b = c /\ pc[c] = "new"
      BY <2>3, <3>2, <3>3, TurnOver
    <3>4. CASE ~(b = c /\ pc[c] = "new")
      BY <2>1, <2>7, <3>2, <3>4 DEF HostInv
    <3>5. QED
      BY <3>3, <3>4
  <2>8. dead => dead'
    BY <1>2 DEF Step, StartDead, Start, Ask, Wake, Serve, Renegotiate, GiveUpVersions,
       Reject, Trouble, caches
  <2>9. ASSUME NEW b \in Calls, pc'[b] = "unversioned" PROVE dead'
    <3>1. CASE b # c
      BY <2>1, <2>8, <2>9, <3>1 DEF HostInv
    <3>2. CASE b = c
      <4>1. StartDead(c) \/ GiveUpVersions(c)
        BY <1>2, <2>9, <3>2 DEF Step, Start, Ask, Wake, Serve, Renegotiate, Reject, Trouble,
           Replied, ClientInv, Types
      <4>2. QED
        BY <2>8, <4>1 DEF StartDead, GiveUpVersions
    <3>3. QED
      BY <3>1, <3>2
  <2>10. ASSUME NEW a \in Calls, NEW b \in Calls, Before(a, b), pc'[a] = "unversioned"
         PROVE  requests'[b] = 0 /\ pc'[b] \in Idle
    <3>1. CASE a = c
      BY <2>4, <2>10, <3>1 DEF Idle
    <3>2. CASE a # c
      <4>1. dead /\ requests[b] = 0 /\ pc[b] \in Idle
        BY <2>1, <2>10, <3>2 DEF HostInv
      <4>2. CASE b # c
        BY <2>1, <4>1, <4>2
      <4>3. CASE b = c
        <5>1. StartDead(c)
          BY <1>2, <2>3, <4>1, <4>3 DEF Step, Start, Ask, Wake, Serve, Renegotiate,
             GiveUpVersions, Reject, Trouble, Replied, Idle
        <5>2. QED
          BY <4>1, <4>3, <5>1 DEF StartDead, ClientInv, Types, Idle, Ended
      <4>4. QED
        BY <4>2, <4>3
    <3>3. QED
      BY <3>1, <3>2
  <2>11. ~Serve(c) => cached' = cached
    BY <1>2 DEF Step, StartDead, Start, Ask, Wake, Renegotiate, GiveUpVersions, Reject,
       Trouble, caches
  <2>12. ASSUME header # "wrong", NEW b \in Calls, pc'[b] = "served" PROVE cached' # 0
    <3>1. CASE Serve(c)
      BY <2>12, <3>1, ServedAnswers DEF ClientInv
    <3>2. CASE ~Serve(c)
      <4>1. pc[b] = "served"
        BY <1>2, <2>1, <2>12, <3>2 DEF Step, StartDead, Start, Ask, Wake, Renegotiate,
           GiveUpVersions, Reject, Trouble, Replied, ClientInv, Types
      <4>2. QED
        BY <2>11, <2>12, <3>2, <4>1 DEF HostInv
    <3>3. QED
      BY <3>1, <3>2
  <2>13. ASSUME header # "wrong", cached' # 0 PROVE Answers(cached)' # {}
    <3>1. Answers(cached') # {}
      BY <2>11, <2>13, ServedAnswers DEF HostInv, ClientInv
    <3>2. QED
      BY <2>1, <3>1 DEF Answers, bank
  <2>14. ASSUME header # "wrong", NEW a \in Calls, NEW b \in Calls, Before(a, b),
                pc'[a] = "served"
         PROVE  tried'[b] = {} /\ (pc'[b] \notin Idle => Answers(version'[b]) # {})
    <3>1. CASE a = c
      BY <2>4, <2>14, <3>1 DEF Idle
    <3>2. CASE a # c
      <4>1. /\ cached # 0 /\ Answers(cached) # {} /\ tried[b] = {}
            /\ pc[b] \notin Idle => Answers(version[b]) # {}
        BY <2>1, <2>14, <3>2 DEF HostInv
      <4>2. CASE b # c
        BY <2>1, <4>1, <4>2
      <4>3. CASE b = c
        <5>1. ~Renegotiate(c) /\ ~GiveUpVersions(c)
          BY <4>1, <4>3 DEF Renegotiate, GiveUpVersions, Replied, Idle, Ended
        <5>2. tried' = tried
          BY <1>2, <5>1 DEF Step, StartDead, Start, Ask, Wake, Serve, Reject, Trouble
        <5>3. CASE Start(c)
          BY <4>1, <4>3, <5>2, <5>3 DEF Start, ClientInv, Types
        <5>4. CASE StartDead(c) \/ Serve(c) \/ Reject(c)
          BY <4>1, <4>3, <5>2, <5>4 DEF StartDead, Serve, Reject, Replied, ClientInv, Types,
             Idle, Ended
        <5>5. CASE Ask(c) \/ Wake(c) \/ Trouble(c)
          BY <4>1, <4>3, <5>2, <5>5 DEF Ask, Wake, Trouble, Replied, Idle, Ended
        <5>6. QED
          BY <1>2, <5>1, <5>3, <5>4, <5>5 DEF Step
      <4>4. QED
        BY <4>2, <4>3
    <3>3. QED
      BY <3>1, <3>2
  <2>15. ASSUME header # "wrong", NEW a \in Calls, NEW b \in Calls, Before(a, b),
                pc'[a] = "served"
         PROVE  tried'[b] = {} /\ (pc'[b] \notin Idle => Answers(version[b])' # {})
    BY <2>1, <2>14, <2>15 DEF Answers, bank
  <2>16. QED
    BY <2>2, <2>6, <2>7, <2>9, <2>10, <2>12, <2>13, <2>15 DEF HostInv
<1>3. QED
  BY <1>1, <1>2 DEF Next

\* After a call that found the endpoint dead none asks it, and after one that was
\* served none is refused a version, for any brands and calls, the second at a bank
\* that does not claim to have served another than it did (HostRemembered).
THEOREM HostAlwaysRemembered == Spec => []HostRemembered
<1>1. Init => HostInv
  BY DEF Init, HostInv, Abandoned, Ended, Idle
<1>2. HostInv => HostRemembered
  BY DEF HostInv, HostRemembered
<1>3. Spec => []HostInv
  BY <1>1, HostStep, ClientAlways, PTL DEF Spec
<1>4. QED
  BY <1>2, <1>3, PTL
=============================================================================
