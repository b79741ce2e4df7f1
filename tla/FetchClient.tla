----------------------------- MODULE FetchClient -----------------------------
(***************************************************************************)
(* client.CDRClient.get_json for the calls of a run to one endpoint of one *)
(* host: version negotiation, the caches kept for the endpoint, retries    *)
(* with backoff, and the semaphores that bound how hard a bank is asked.   *)
(*                                                                         *)
(* The brands a host serves are collected one after the other and share    *)
(* its caches.  The detail calls of a brand are gathered: asyncio runs the *)
(* first step of every task before it polls for a reply, so every one has  *)
(* looked at the caches before the first answer.  List pages are fetched   *)
(* one after the other, and a page that fails ends the brand.              *)
(***************************************************************************)
EXTENDS Naturals, Sequences, FiniteSets

CONSTANTS
    Calls,          \* the calls, numbered in the order they are made
    Brand,          \* the brand each is made for, numbered in collection order
    Kinds,          \* the endpoints the calls may be made to: "list", "detail"
    StartVersion,   \* product_api_version
    Floor,          \* product_api_min_version
    Ceiling,        \* product_api_max_version
    SanityCap,      \* product_api_sanity_cap
    MaxRetries,     \* max_retries
    Slots,          \* the smaller of global_ and per_host_concurrency
    Served,         \* versions a bank may serve
    Named,          \* versions a bank may name when it refuses one
    Claimed         \* versions a bank may wrongly say it has served

ASSUME ClientAssumption ==
    /\ Calls \subseteq Nat /\ IsFiniteSet(Calls)
    /\ Brand \in [Calls -> Nat]
    /\ \A b, c \in Calls : b < c => Brand[b] <= Brand[c]
    /\ Kinds \subseteq {"list", "detail"}
    /\ {StartVersion, Floor, Ceiling, SanityCap} \subseteq Nat \ {0}
    /\ Floor <= StartVersion /\ StartVersion <= Ceiling /\ Ceiling <= SanityCap
    /\ MaxRetries \in Nat
    /\ Slots \in Nat \ {0}
    /\ Served \subseteq Nat \ {0} /\ IsFiniteSet(Served)
    /\ Named \subseteq Nat /\ IsFiniteSet(Named)
    /\ Claimed \subseteq Nat /\ IsFiniteSet(Claimed)

VARIABLES
    kind,       \* the endpoint the calls are made to
    \* The bank.
    serves,     \* the versions it serves at this endpoint
    says,       \* the versions its 406 answers name, {} if it names none
    ranged,     \* whether it honours x-min-v, not only x-v
    header,     \* whether the x-v it answers with is right, wrong or missing
    \* The client.
    cached,     \* _endpoint_version, 0 while nothing is agreed
    dead,       \* _endpoint_dead
    line,       \* calls that have or wait for a semaphore slot, in order
    \* Each call of get_json.
    pc,         \* where the call is, or how it ended
    version,    \* current_version
    tried,      \* tried_versions
    attempt,    \* attempt
    requests    \* its share of stats.http_requests

bank == <<kind, serves, says, ranged, header>>
caches == <<cached, dead>>
vars == <<kind, serves, says, ranged, header, cached, dead, line, pc, version, tried,
          attempt, requests>>

Gathered == kind = "detail"
Ended == {"served", "rejected", "gaveup", "unversioned"}
-----------------------------------------------------------------------------
Greatest(S) == CHOOSE v \in S : \A u \in S : u <= v

Sane(advertised) == {v \in advertised : 1 <= v /\ v <= SanityCap}

\* Mutant: a refused version may be chosen again.
ChoicesReasked(advertised, refused) ==
    IF advertised # {} /\ Sane(advertised) = {} THEN {}
    ELSE IF Sane(advertised) # {} THEN Sane(advertised)
    ELSE (Floor .. Ceiling) \ refused

\* Mutant: what the bank names is believed, with no blind step after it.
ChoicesNamedOnly(advertised, refused) ==
    IF advertised # {} THEN Sane(advertised) \ refused
    ELSE (Floor .. Ceiling) \ refused

\* The versions _choose_version picks the greatest of: what the bank names and
\* has not refused; failing that a blind step, unless all it names is absurd.
Choices(advertised, refused) ==
    IF advertised # {} /\ Sane(advertised) = {} THEN {}
    ELSE IF Sane(advertised) \ refused # {} THEN Sane(advertised) \ refused
    ELSE (Floor .. Ceiling) \ refused

\* The versions in which the bank may answer a request for v.
Answers(v) ==
    {u \in serves : u = v \/ (ranged /\ Floor <= u /\ u <= v)}

Headers == {"right", "wrong", "missing"}

\* What the answer u to a request for v may be taken for: served_version.
TakenFor(u, v) ==
    CASE header = "right" -> {u}
      [] header = "wrong" -> Claimed
      [] header = "missing" -> {v}

SE == INSTANCE SequencesExt

\* A call has one place in line at most.
Without(call) == SE!RemoveAt(line, CHOOSE i \in DOMAIN line : line[i] = call)
-----------------------------------------------------------------------------
Init ==
    /\ kind \in Kinds
    /\ serves \in SUBSET Served
    /\ says \in SUBSET Named
    /\ ranged \in BOOLEAN
    /\ header \in IF Claimed = {} THEN Headers \ {"wrong"} ELSE Headers
    /\ cached = 0
    /\ dead = FALSE
    /\ line = << >>
    /\ pc = [c \in Calls |-> "new"]
    /\ version = [c \in Calls |-> 0]
    /\ tried = [c \in Calls |-> {}]
    /\ attempt = [c \in Calls |-> 0]
    /\ requests = [c \in Calls |-> 0]

\* A page that is not served ends the listing and the brand: the pages after
\* it are not asked for.
Abandoned(c) ==
    /\ ~Gathered
    /\ \E b \in Calls : b < c /\ Brand[b] = Brand[c] /\ pc[b] \in Ended \ {"served"}

\* A brand is collected when the one before is done with.  Its gathered calls
\* take their first step one after the other; a page waits for the page before.
MyTurn(c) ==
    \A b \in Calls : b < c =>
        IF Brand[b] < Brand[c] THEN pc[b] \in Ended \/ Abandoned(b)
        ELSE IF Gathered THEN pc[b] # "new" ELSE pc[b] = "served"

\* The dead check fails the call before it asks anything.
StartDead(c) ==
    /\ pc[c] = "new" /\ MyTurn(c)
    /\ dead
    /\ pc' = [pc EXCEPT ![c] = "unversioned"]
    /\ UNCHANGED <<bank, caches, line, version, tried, attempt, requests>>

\* Mutant: the version agreed on an earlier call is not used.
StartAfresh(c) ==
    /\ pc[c] = "new" /\ MyTurn(c)
    /\ ~dead
    /\ version' = [version EXCEPT ![c] = StartVersion]
    /\ line' = Append(line, c)
    /\ pc' = [pc EXCEPT ![c] = "queued"]
    /\ UNCHANGED <<bank, caches, tried, attempt, requests>>

\* The call starts from the version agreed with the endpoint, if any, and
\* queues for a slot.
Start(c) ==
    /\ pc[c] = "new" /\ MyTurn(c)
    /\ ~dead
    /\ version' = [version EXCEPT ![c] = IF cached = 0 THEN StartVersion ELSE cached]
    /\ line' = Append(line, c)
    /\ pc' = [pc EXCEPT ![c] = "queued"]
    /\ UNCHANGED <<bank, caches, tried, attempt, requests>>

\* A call among the first in line holds a slot and sends its request.
Ask(c) ==
    /\ pc[c] = "queued"
    /\ \E i \in 1 .. Slots : i <= Len(line) /\ line[i] = c
    /\ requests' = [requests EXCEPT ![c] = @ + 1]
    /\ pc' = [pc EXCEPT ![c] = "asking"]
    /\ UNCHANGED <<bank, caches, line, version, tried, attempt>>

\* The event loop polls for replies once every ready task has run.
Replied(c) ==
    /\ pc[c] = "asking"
    /\ Gathered => \A b \in Calls : Brand[b] = Brand[c] => pc[b] # "new"

\* Mutant: a call that is answered keeps its slot.
ServeLeaks(c) ==
    /\ Replied(c)
    /\ \E u \in Answers(version[c]) : cached' \in TakenFor(u, version[c])
    /\ pc' = [pc EXCEPT ![c] = "served"]
    /\ UNCHANGED <<bank, dead, line, version, tried, attempt, requests>>

\* 200: the version its header names is remembered for the endpoint, unchecked.
Serve(c) ==
    /\ Replied(c)
    /\ \E u \in Answers(version[c]) : cached' \in TakenFor(u, version[c])
    /\ pc' = [pc EXCEPT ![c] = "served"]
    /\ line' = Without(c)
    /\ UNCHANGED <<bank, dead, version, tried, attempt, requests>>

\* Mutant: each version gets a retry budget of its own.
RenegotiateRefilled(c) ==
    LET refused == tried[c] \cup {version[c]}
        choices == Choices(says, refused)
    IN
    /\ Replied(c)
    /\ Answers(version[c]) = {}
    /\ choices # {}
    /\ tried' = [tried EXCEPT ![c] = refused]
    /\ version' = [version EXCEPT ![c] = Greatest(choices)]
    /\ attempt' = [attempt EXCEPT ![c] = 0]
    /\ line' = Append(Without(c), c)
    /\ pc' = [pc EXCEPT ![c] = "queued"]
    /\ UNCHANGED <<bank, caches, requests>>

\* 406: negotiate.  The slot is given up and queued for again.
Renegotiate(c) ==
    LET refused == tried[c] \cup {version[c]}
        choices == Choices(says, refused)
    IN
    /\ Replied(c)
    /\ Answers(version[c]) = {}
    /\ choices # {}
    /\ tried' = [tried EXCEPT ![c] = refused]
    /\ version' = [version EXCEPT ![c] = Greatest(choices)]
    /\ line' = Append(Without(c), c)
    /\ pc' = [pc EXCEPT ![c] = "queued"]
    /\ UNCHANGED <<bank, caches, attempt, requests>>

\* 406 with nothing left to try: the endpoint is marked dead.
GiveUpVersions(c) ==
    LET refused == tried[c] \cup {version[c]} IN
    /\ Replied(c)
    /\ Answers(version[c]) = {}
    /\ Choices(says, refused) = {}
    /\ tried' = [tried EXCEPT ![c] = refused]
    /\ dead' = TRUE
    /\ line' = Without(c)
    /\ pc' = [pc EXCEPT ![c] = "unversioned"]
    /\ UNCHANGED <<bank, cached, version, attempt, requests>>

\* Mutant: a rejected call leaves without giving up its slot.
RejectLeaks(c) ==
    /\ Replied(c)
    /\ pc' = [pc EXCEPT ![c] = "rejected"]
    /\ UNCHANGED <<bank, caches, line, version, tried, attempt, requests>>

\* 4xx other than 406 and 429, or a body that is not JSON: not retried.
Reject(c) ==
    /\ Replied(c)
    /\ pc' = [pc EXCEPT ![c] = "rejected"]
    /\ line' = Without(c)
    /\ UNCHANGED <<bank, caches, version, tried, attempt, requests>>

\* Timeout, transport error, 5xx or 429.  The slot is given up before the
\* sleep; only this call sleeps.
Trouble(c) ==
    /\ Replied(c)
    /\ attempt' = [attempt EXCEPT ![c] = @ + 1]
    /\ line' = Without(c)
    /\ pc' = [pc EXCEPT ![c] = IF attempt[c] + 1 > MaxRetries THEN "gaveup" ELSE "sleeping"]
    /\ UNCHANGED <<bank, caches, version, tried, requests>>

\* The backoff, or the Retry-After interval, is over.
Wake(c) ==
    /\ pc[c] = "sleeping"
    /\ line' = Append(line, c)
    /\ pc' = [pc EXCEPT ![c] = "queued"]
    /\ UNCHANGED <<bank, caches, version, tried, attempt, requests>>

Step(c) ==
    \/ StartDead(c) \/ Start(c) \/ Ask(c) \/ Wake(c)
    \/ Serve(c) \/ Renegotiate(c) \/ GiveUpVersions(c) \/ Reject(c) \/ Trouble(c)

Next == \E c \in Calls : Step(c)

Spec == Init /\ [][Next]_vars

\* The event loop runs ready tasks, timers fire and every request is answered
\* or times out.
FairSpec == Spec /\ \A c \in Calls : WF_vars(Step(c))
-----------------------------------------------------------------------------
TypeOK ==
    /\ kind \in Kinds
    /\ serves \subseteq Served
    /\ says \subseteq Named
    /\ ranged \in BOOLEAN
    /\ header \in Headers
    /\ cached \in Nat
    /\ dead \in BOOLEAN
    /\ line \in Seq(Calls)
    /\ \A c \in Calls : pc[c] \in {"queued", "asking"} <=> \E i \in DOMAIN line : line[i] = c
    /\ pc \in [Calls -> {"new", "queued", "asking", "sleeping"} \cup Ended]
    /\ version \in [Calls -> Nat]
    /\ tried \in [Calls -> SUBSET Nat]
    /\ attempt \in [Calls -> Nat]
    /\ requests \in [Calls -> Nat]

\* A call never asks again for a version it has been refused, whatever the
\* bank names, contradicts or serves in the meantime.
RefusedNotReasked ==
    \A c \in Calls : pc[c] \in {"queued", "asking", "sleeping"} => version[c] \notin tried[c]

\* What one call may cost the bank: its retries, and one request for each
\* version of the blind range, sanely named, or wrongly remembered.
Walk == Cardinality((Floor .. Ceiling) \cup Sane(says)
                        \cup IF header = "wrong" THEN Claimed ELSE {})
RequestsBounded == \A c \in Calls : requests[c] <= MaxRetries + Walk

\* A call fails for want of a version only at a bank that serves none of the
\* versions worth trying, or names absurd ones only (client.py: "giving up on
\* a bank that may serve another version perfectly well is the worse error").
VersionFailuresHonest ==
    \A c \in Calls : pc[c] = "unversioned" =>
        \/ serves \cap ((Floor .. Ceiling) \cup Sane(says)) = {}
        \/ says # {} /\ Sane(says) = {}

\* Every call comes to an end, or its brand came to one before it was made.
CallsEnd == \A c \in Calls : <>(pc[c] \in Ended \/ Abandoned(c))

\* b is over when c is made: a call of an earlier brand, or an earlier page.
Before(b, c) == Brand[b] < Brand[c] \/ (~Gathered /\ b < c)

\* What was established once is not negotiated again, however the calls it was
\* established among have crossed: after a call that found the endpoint dead none
\* asks it, and after one that was served none is refused a version, if the
\* bank does not claim to have served another than it did.
HostRemembered ==
    \A b, c \in Calls : Before(b, c) =>
        /\ pc[b] = "unversioned" => requests[c] = 0
        /\ pc[b] = "served" /\ header # "wrong" => tried[c] = {}
-----------------------------------------------------------------------------
(* What the comments say and the code does not do.                         *)

\* "Without this, one unsupported endpoint re-runs the whole version walk for
\* every single product" (client.py, of _endpoint_dead): once the endpoint is
\* known to be dead nothing more is asked of it.
DeadEndpointLeftAlone == [][dead => requests' = requests]_vars
=============================================================================
