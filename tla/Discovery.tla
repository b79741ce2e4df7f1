----------------------------- MODULE Discovery -----------------------------
(***************************************************************************)
(* Which banks are collected: register.discover and resolve_allowlist, and *)
(* the two transactions that write their result, db.upsert_brands and      *)
(* db.enable_brands, as handler._discover and `rateradar discover --apply` *)
(* run them.  A collection run reads what they leave (db.enabled_brands)   *)
(* and the health check (cli.health) judges what the runs leave.           *)
(*                                                                         *)
(* A name, an id and an allowlist entry are sequences of words.            *)
(***************************************************************************)
EXTENDS Naturals, Sequences, FiniteSets

CONSTANTS
    Discoveries,    \* invocations of discover
    Published,      \* what the register may answer: sequences of entries
    FallbackLists,  \* what the fallback list may hold; {} when none is configured
    Allowlists,     \* what the file may hold; << >> also stands for no file
    Noise,          \* words that _normalise_name drops
    TooGeneric,     \* _TOO_GENERIC
    FreshFail,      \* freshness_fail_hours, in days
    Week,           \* the span of changes_7d, in days
    MaxTime         \* bound on the clock

IdsIn(list) == {list[i].id : i \in DOMAIN list}
RegisterIds == UNION {IdsIn(list) : list \in Published}
FallbackIds == UNION {IdsIn(list) : list \in FallbackLists}  \* "fallback:" and the host
Ids == RegisterIds \cup FallbackIds

ASSUME DiscoveryAssumption ==
    /\ RegisterIds \cap FallbackIds = {}
    /\ \A list \in Published \cup FallbackLists : IsFiniteSet(DOMAIN list)
    /\ {FreshFail, Week, MaxTime} \subseteq Nat \ {0}

VARIABLES
    now,         \* the clock, in days; 0 is never
    \* The brand table.
    known,       \* ids with a row
    active,      \* is_active_in_cdr
    left,        \* left_register_at
    enabled,     \* is_enabled
    \* The discoveries.
    pc,
    listing,     \* brands, as discover returned them, in the register's order
    allow,       \* entries of the allowlist
    marked,      \* the brands its open transaction has marked as having left
    \* What collection leaves for the health check.
    lastRun,     \* finished_at of the last completed run
    lastChange,  \* detected_at of the last change
    \* Only for the properties.
    namedBy,     \* the entries that enabled a brand
    covered,     \* the last day on which some brand would have been collected
    crossed      \* two upserts had statements under way at once

table == <<known, active, left, enabled>>
call == <<pc, listing, allow, marked>>
vars == <<now, table, call, lastRun, lastChange, namedBy, covered, crossed>>

Never == 0
-----------------------------------------------------------------------------
(* resolve_allowlist                                                       *)

\* _normalise_name, on words.
Normalise(name) == SelectSeq(name, LAMBDA w : w \notin Noise)

\* The words of needle occur in the name, next to each other.
HasWords(name, needle) ==
    \E i \in 0 .. Len(name) - Len(needle) :
        SubSeq(name, i + 1, i + Len(needle)) = needle

WithId(e, list) == {i \in DOMAIN list : list[i].id = e}
WithName(needle, list) == {i \in DOMAIN list : Normalise(list[i].name) = needle}
WithWords(needle, list) == {i \in DOMAIN list : HasWords(Normalise(list[i].name), needle)}
Generic(needle) == needle = << >> \/ needle \in TooGeneric

\* Mutant: of several partial matches the first is taken.
CandidatesGuessed(e, list) ==
    LET needle == Normalise(e) IN
    IF WithId(e, list) # {} THEN {CHOOSE i \in WithId(e, list) : TRUE}
    ELSE IF Generic(needle) THEN {}
    ELSE IF WithName(needle, list) # {} THEN WithName(needle, list)
    ELSE {i \in WithWords(needle, list) : \A j \in WithWords(needle, list) : i <= j}

\* The places of the listing that an entry may stand for.  by_id holds one
\* brand for an id, however often it is listed.
Candidates(e, list) ==
    LET needle == Normalise(e) IN
    IF WithId(e, list) # {} THEN {CHOOSE i \in WithId(e, list) : TRUE}
    ELSE IF Generic(needle) THEN {}
    ELSE IF WithName(needle, list) # {} THEN WithName(needle, list)
    ELSE WithWords(needle, list)

\* Mutant: the brand's name is returned where its id is expected.
MatchedNames(e, list) ==
    IF Cardinality(Candidates(e, list)) = 1
    THEN {list[i].name : i \in Candidates(e, list)} ELSE {}

\* The id an entry resolves to, if any: nothing is guessed.
Matched(e, list) ==
    IF Cardinality(Candidates(e, list)) = 1
    THEN {list[i].id : i \in Candidates(e, list)} ELSE {}

Unmatched(entries, list) ==
    {e \in entries : Candidates(e, list) = {} /\ ~Generic(Normalise(e))}

\* Mutant: an entry that fits several names is reported nowhere.
AmbiguousGeneric(entries, list) ==
    {e \in entries : Candidates(e, list) = {} /\ Generic(Normalise(e))}

\* Too generic to match, or fitting several brands.
Ambiguous(entries, list) ==
    {e \in entries : \/ Candidates(e, list) = {} /\ Generic(Normalise(e))
                     \/ Cardinality(Candidates(e, list)) > 1}

BrandIds(entries, list) == UNION {Matched(e, list) : e \in entries}
-----------------------------------------------------------------------------
Init ==
    /\ now = 1
    /\ known = {} /\ active = {} /\ enabled = {}
    /\ left = [b \in Ids |-> Never]
    /\ pc = [d \in Discoveries |-> "waiting"]
    /\ listing = [d \in Discoveries |-> << >>]
    /\ allow = [d \in Discoveries |-> {}]
    /\ marked = [d \in Discoveries |-> {}]
    /\ lastRun = Never /\ lastChange = Never
    /\ namedBy = [b \in Ids |-> {}]
    /\ covered = now
    /\ crossed = FALSE

\* The brands of the answer that can be used, banking, with an id and an https
\* base, each at its place in the answer.
Usable(list) == [i \in {j \in DOMAIN list : list[j].usable} |-> list[i]]

\* discover has returned, and the allowlist is read.
Returned(d, list) ==
    /\ listing' = [listing EXCEPT ![d] = list]
    /\ \E file \in Allowlists : allow' = [allow EXCEPT ![d] = {file[i] : i \in DOMAIN file}]
    /\ pc' = [pc EXCEPT ![d] = "resolved"]
    /\ UNCHANGED <<now, table, marked, lastRun, lastChange, namedBy, crossed>>

\* fetch_register_brands.
AskRegister(d) ==
    /\ pc[d] = "waiting"
    /\ \E list \in Published :
        /\ Usable(list) # << >>
        /\ Returned(d, Usable(list))

\* The register fails, or answers nothing usable; the fallback is asked.  A
\* list without a usable line is an empty listing, not an error.
AskFallback(d) ==
    /\ pc[d] = "waiting"
    /\ \E list \in FallbackLists : Returned(d, Usable(list))

Leave(d) ==
    /\ pc' = [pc EXCEPT ![d] = "ended"]
    /\ listing' = [listing EXCEPT ![d] = << >>]
    /\ allow' = [allow EXCEPT ![d] = {}]
    /\ marked' = [marked EXCEPT ![d] = {}]

\* DiscoveryError (no fallback, or the fallback fails too), a run without
\* --apply, a crash before the first commit or between the two.
GiveUp(d) ==
    /\ pc[d] # "ended"
    /\ Leave(d)
    /\ UNCHANGED <<now, table, lastRun, lastChange, namedBy, crossed>>

Seen(d) == IdsIn(listing[d])

\* Rows that the open transaction of another discovery has written.
Locked(d) == UNION {Seen(e) \cup marked[e] : e \in {e \in Discoveries \ {d} : pc[e] = "written"}}

\* Mutant: a listing without brands counts as one that lists none of them.
WriteEmpty(d) ==
    LET gone == active \ Seen(d) IN
    /\ pc[d] = "resolved"
    /\ Locked(d) \cap (Seen(d) \cup gone) = {}
    /\ marked' = [marked EXCEPT ![d] = gone]
    /\ pc' = [pc EXCEPT ![d] = "written"]
    /\ crossed' = (crossed \/ \E e \in Discoveries : pc[e] = "written")
    /\ UNCHANGED <<now, table, listing, allow, lastRun, lastChange, namedBy>>

\* The statements of db.upsert_brands.  What another discovery has written and
\* not committed they do not see, or wait for when they would change it too.
Write(d) ==
    LET gone == IF Seen(d) = {} THEN {} ELSE active \ Seen(d) IN
    /\ pc[d] = "resolved"
    /\ Locked(d) \cap (Seen(d) \cup gone) = {}
    /\ marked' = [marked EXCEPT ![d] = gone]
    /\ pc' = [pc EXCEPT ![d] = "written"]
    /\ crossed' = (crossed \/ \E e \in Discoveries : pc[e] = "written")
    /\ UNCHANGED <<now, table, listing, allow, lastRun, lastChange, namedBy>>

Commit(d) ==
    /\ pc[d] = "written"
    /\ known' = known \cup Seen(d)
    /\ marked' = [marked EXCEPT ![d] = {}]
    /\ pc' = [pc EXCEPT ![d] = "upserted"]
    /\ UNCHANGED <<now, enabled, listing, allow, lastRun, lastChange, namedBy, crossed>>

\* Mutant: the date of departure moves with every discovery.
UpsertRedates(d) ==
    /\ active' = (active \ marked[d]) \cup Seen(d)
    /\ left' = [b \in Ids |-> IF b \in Seen(d) THEN Never
                              ELSE IF Seen(d) # {} /\ b \in known THEN now ELSE left[b]]
    /\ Commit(d)

\* Mutant: only the brands listed are written, and the others stay active.
UpsertOnly(d) ==
    /\ active' = active \cup Seen(d)
    /\ left' = [b \in Ids |-> IF b \in Seen(d) THEN Never ELSE left[b]]
    /\ Commit(d)

\* The commit of db.upsert_brands: listed brands are active again, the others
\* are marked and dated - unless the listing was empty.
Upsert(d) ==
    /\ active' = (active \ marked[d]) \cup Seen(d)
    /\ left' = [b \in Ids |-> IF b \in Seen(d) THEN Never
                              ELSE IF b \in marked[d] THEN now ELSE left[b]]
    /\ Commit(d)

\* db.enable_brands, with its commit: one UPDATE over every row.
Enable(d) ==
    /\ pc[d] = "upserted"
    /\ Locked(d) \cap known = {}
    /\ enabled' = BrandIds(allow[d], listing[d])
    /\ namedBy' = [b \in Ids |-> {e \in allow[d] : b \in Matched(e, listing[d])}]
    /\ Leave(d)
    /\ UNCHANGED <<now, known, active, left, lastRun, lastChange, crossed>>
-----------------------------------------------------------------------------
\* db.enabled_brands, every circuit closed.
Collectable == enabled \cap active

\* A run that completes: over no brands it completes as well.  Changes come
\* from brands only.
Collect ==
    /\ lastRun' = now
    /\ lastChange' \in {lastChange} \cup (IF Collectable = {} THEN {} ELSE {now})
    /\ UNCHANGED <<now, table, call, namedBy, crossed>>

Tick ==
    /\ now < MaxTime
    /\ now' = now + 1
    /\ UNCHANGED <<table, call, lastRun, lastChange, namedBy, crossed>>

\* Mutant: only freshness is looked at.
HealthFailsStale == lastRun = Never \/ lastRun + FreshFail < now

\* The FAIL-level problems of cli.health, of which min_changes_per_week is one.
HealthFails ==
    \/ lastRun = Never \/ lastRun + FreshFail < now
    \/ lastChange = Never \/ lastChange + Week <= now

Next ==
    /\ \/ Tick \/ Collect
       \/ \E d \in Discoveries :
            \/ AskRegister(d) \/ AskFallback(d) \/ GiveUp(d)
            \/ Write(d) \/ Upsert(d) \/ Enable(d)
    /\ covered' = IF enabled' \cap active' = {} THEN covered ELSE now'

Spec == Init /\ [][Next]_vars
-----------------------------------------------------------------------------
TypeOK ==
    /\ now \in 1 .. MaxTime
    /\ known \subseteq Ids /\ active \subseteq known /\ enabled \subseteq known
    /\ left \in [Ids -> 0 .. MaxTime]
    /\ pc \in [Discoveries -> {"waiting", "resolved", "written", "upserted", "ended"}]
    /\ \A d \in Discoveries : IdsIn(listing[d]) \subseteq Ids /\ marked[d] \subseteq known
    /\ crossed \in BOOLEAN
    /\ {lastRun, lastChange, covered} \subseteq 0 .. MaxTime

\* An entry never enables a brand by guess: with the precedence the register's
\* documentation states (id, name, words), the brand is the only one that fits
\* the entry as well as it does.
Fit(e, x) ==
    IF x.id = e THEN 3
    ELSE IF Normalise(x.name) = Normalise(e) THEN 2
    ELSE IF HasWords(Normalise(x.name), Normalise(e)) THEN 1 ELSE 0
Fitting(e, list, grade) == {list[i].id : i \in {j \in DOMAIN list : Fit(e, list[j]) >= grade}}
Enables(d) == pc[d] = "upserted" /\ pc'[d] = "ended"
NeverGuessed ==
    [][\A b \in enabled' \ enabled : \E d \in Discoveries :
        /\ Enables(d)
        /\ \E e \in allow[d], grade \in 1 .. 3 : Fitting(e, listing[d], grade) = {b}]_vars

\* A listing that has brands does not have this one, which is dated.
Departs(b, d) ==
    /\ pc[d] = "written" /\ pc'[d] = "upserted"
    /\ Seen(d) # {} /\ b \notin Seen(d)
    /\ left'[b] = now

\* Each entry that had enabled the brand is not in the allowlist as it was read,
\* selects another brand now, or is reported as unmatched or ambiguous.
Deselected(b, d) ==
    /\ Enables(d)
    /\ \A e \in namedBy[b] \cap allow[d] :
        \/ e \in Unmatched(allow[d], listing[d]) \cup Ambiguous(allow[d], listing[d])
        \/ \E c \in enabled' \ {b} : e \in namedBy'[c]

\* A brand stops being collected for one of these two reasons only, whatever
\* discoveries overlap, fall back, or stop between their two commits.  Not all
\* of it is loud: a missing file reads as an empty allowlist (register.py:150),
\* and that another brand has taken an entry over is not reported.
LossesExplained ==
    [][\A b \in Collectable \ Collectable' :
        \E d \in Discoveries : Departs(b, d) \/ Deselected(b, d)]_vars

\* Departure is data (docs/architecture.md, 4.1): exactly the brands that are
\* known and inactive have a date, it is the day they left, and it stands
\* until they return - whatever discoveries overlap, fail or stop half-way.
LeftDated ==
    [][\A b \in Ids :
        /\ left'[b] # Never <=> b \in known' \ active'
        /\ left[b] # Never /\ left'[b] # Never => left'[b] = left[b]]_vars

\* A bank is not collected under its register id and its fallback id at the
\* same time: what is active comes from one of the two sources, as long as no
\* two upserts have crossed - then neither marks what the other adds.
OneSourceAtATime ==
    crossed \/ active \subseteq RegisterIds \/ active \subseteq FallbackIds

\* Runs over no brands complete and look fresh; still an empty registry does
\* not pass for a quiet market: after a week the health check fails.
EmptyRegistryNoticed == covered + Week <= now => HealthFails
=============================================================================
