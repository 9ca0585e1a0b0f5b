-------------------------- MODULE WebhookFallback --------------------------
(***************************************************************************)
(* GithubWebhookFallbackAdapter, the evidence source for organisations     *)
(* without an audit log (packages/drift/src/adapters/                      *)
(* github-webhook-fallback.ts).                                            *)
(*                                                                         *)
(* GitHub sends deliveries and sends some again; the receiver in front of  *)
(* the adapter stamps each on arrival and hands it over after a while, in  *)
(* any order.  recordEvent and signal are synchronous: one action each.    *)
(* The adapter keeps everything in memory.  GitHub's secret and the        *)
(* adapter's are rotated one after the other.                              *)
(***************************************************************************)
EXTENDS Integers, Sequences, FiniteSets

CONSTANTS
    Deliveries,       \* by number: type of event, source repository, soundness
    Hardened,         \* hulumiTier = "startup-hardened"
    AllowUnsigned,    \* allowUnsignedWebhooks
    Unlicensed,       \* featureLicenseMap: the types that are not licensed
    Ttl,              \* IDEMPOTENCY_TTL_MS
    Threshold,        \* ROTATION_FAILURE_THRESHOLD
    MaxQueueing,      \* the longest the receiver keeps a delivery
    Horizon,          \* bound on the clock
    MaxSecret,        \* bound on the secrets
    MaxArrivals       \* bound on the deliveries that arrive

VARIABLES
    clock,
    queue,            \* deliveries the receiver has yet to hand over
    arrivals,         \* deliveries that can still arrive
    hookSecret,       \* the secret GitHub signs with
    secret,           \* the secret the adapter verifies with
    idempotency,      \* when each delivery was last ingested
    events,           \* the events ingested, in the order of their ingestion
    failures,         \* rotationCounters
    report,           \* the last signal, and what it was asked for
    outcomes,         \* history: what became of each source's deliveries
    alarmed           \* history: the source the last step raised an alarm about

vars == <<clock, queue, arrivals, hookSecret, secret, idempotency, events, failures,
          report, outcomes, alarmed>>

Ids == DOMAIN Deliveries
Source(d) == Deliveries[d].source
Sources == {Source(d) : d \in Ids}
Types == {"branch_protection_rule", "repository_ruleset", "secret_scanning_alert",
          "dependabot_alert", "code_scanning_alert", "member", "organization"}

\* An unsigned delivery: the hook has no secret.
Unsigned == 0
Secrets == 1..MaxSecret
NoReport == [ok |-> FALSE, events |-> << >>, unlicensed |-> {}, length |-> 0]
NoSource == "none"

\* The signal and the alarm of a step are gone with the next one.
Quiet == report' = NoReport /\ alarmed' = NoSource

TypeOK ==
    /\ clock \in 0..Horizon
    /\ queue \subseteq [delivery : Ids, signed : {Unsigned} \union Secrets, at : 0..Horizon]
    /\ arrivals \in 0..MaxArrivals
    /\ hookSecret \in {Unsigned} \union Secrets
    /\ secret \in Secrets
    /\ DOMAIN idempotency \subseteq Ids /\ \A d \in DOMAIN idempotency : idempotency[d] <= clock
    /\ \A i \in DOMAIN events : events[i] \in [delivery : Ids, at : 0..Horizon]
    /\ failures \in [Sources -> 0..MaxArrivals]
    /\ report.ok \in BOOLEAN
    /\ alarmed \in Sources \union {NoSource}

Init ==
    /\ clock = 0
    /\ queue = {}
    /\ arrivals = MaxArrivals
    /\ hookSecret = 1
    /\ secret = 1
    /\ idempotency = [d \in {} |-> 0]
    /\ events = << >>
    /\ failures = [s \in Sources |-> 0]
    /\ report = NoReport
    /\ outcomes = [s \in Sources |-> << >>]
    /\ alarmed = NoSource

-----------------------------------------------------------------------------
(***************************************************************************)
(* recordEvent                                                             *)
(***************************************************************************)
\* The size, the JSON and its depth are checked first, then the event type.
WellFormed(d) == Deliveries[d].sound /\ Deliveries[d].type \in Types

\* A signature is verified whenever there is one; none at all is accepted from
\* a sandbox that asked for it.
SignatureOk(m) ==
    IF m.signed # Unsigned THEN m.signed = secret ELSE ~Hardened /\ AllowUnsigned

\* evictExpired.
\* Variant: an entry is forgotten when its time is up, not after it.
RememberedUntil == {d \in DOMAIN idempotency : clock - idempotency[d] < Ttl}

Remembered == {d \in DOMAIN idempotency : clock - idempotency[d] <= Ttl}

Forgotten == [d \in Remembered |-> idempotency[d]]

\* What happens to the counter of a source whose signature verifies.
Cleared(s) == 0

\* The history keeps as many outcomes as the threshold counts.
Latest(log) == IF Len(log) > Threshold THEN Tail(log) ELSE log

Refuse(m) ==
    /\ ~WellFormed(m.delivery)
    /\ alarmed' = NoSource
    /\ UNCHANGED <<idempotency, events, failures, outcomes>>

SignatureFails(m) ==
    LET s == Source(m.delivery)  next == failures[s] + 1
    IN  /\ WellFormed(m.delivery)
        /\ ~SignatureOk(m)
        /\ failures' = [failures EXCEPT ![s] = next]
        /\ alarmed' = IF next >= Threshold THEN s ELSE NoSource
        /\ outcomes' = [outcomes EXCEPT ![s] = Latest(Append(@, "failed"))]
        /\ UNCHANGED <<idempotency, events>>

Ingest(m) ==
    LET d == m.delivery  s == Source(d)
    IN  /\ WellFormed(d)
        /\ SignatureOk(m)
        /\ failures' = [failures EXCEPT ![s] = Cleared(s)]
        /\ alarmed' = NoSource
        /\ outcomes' = [outcomes EXCEPT ![s] = Latest(Append(@, "verified"))]
        /\ IF d \in Remembered
           THEN idempotency' = Forgotten /\ UNCHANGED events
           ELSE /\ idempotency' = [k \in Remembered \union {d} |->
                                      IF k = d THEN clock ELSE idempotency[k]]
                /\ events' = Append(events, [delivery |-> d, at |-> m.at])

RecordEvent(m) ==
    /\ queue' = queue \ {m}
    /\ report' = NoReport
    /\ Refuse(m) \/ SignatureFails(m) \/ Ingest(m)
    /\ UNCHANGED <<clock, arrivals, hookSecret, secret>>

-----------------------------------------------------------------------------
(***************************************************************************)
(* signal                                                                  *)
(***************************************************************************)
\* The filter, by the places of the events.
InWindow(source, after, before) ==
    {i \in DOMAIN events : Source(events[i].delivery) = source /\ events[i].at \in after..before}

\* The sort: by arrival, and those of one moment as they were ingested.
Before(i, j) ==
    events[i].at < events[j].at \/ (events[i].at = events[j].at /\ i < j)
Sequenced(places) ==
    {order \in [1..Cardinality(places) -> places] :
        \A i, j \in DOMAIN order : i < j => Before(order[i], order[j])}

\* A window that ends before it begins is refused.
Signal(source, after, before) ==
    /\ \/ after > before /\ report' = NoReport
       \/ /\ after <= before
          /\ \E order \in Sequenced(InWindow(source, after, before)) :
                report' =
                   [ok |-> TRUE, events |-> [k \in DOMAIN order |-> events[order[k]]],
                    unlicensed |-> {t \in Unlicensed : \E k \in DOMAIN order :
                                       Deliveries[events[order[k]].delivery].type = t},
                    length |-> before - after]
    /\ alarmed' = NoSource
    /\ UNCHANGED <<clock, queue, arrivals, hookSecret, secret, idempotency, events,
                   failures, outcomes>>

-----------------------------------------------------------------------------
(***************************************************************************)
(* GitHub, the receiver, the people who rotate the secret, the process     *)
(***************************************************************************)
\* A delivery arrives, for the first time or again, signed by the secret of
\* the hook at the time it was sent.
Arrive(d, signed) ==
    /\ arrivals > 0
    /\ arrivals' = arrivals - 1
    /\ queue' = queue \union {[delivery |-> d, signed |-> signed, at |-> clock]}
    /\ Quiet
    /\ UNCHANGED <<clock, hookSecret, secret, idempotency, events, failures, outcomes>>

\* The secret is set at GitHub, and refreshed in the adapter by a deployment.
Rotate ==
    /\ hookSecret = secret
    /\ hookSecret' \in {Unsigned, secret + 1} \intersect ({Unsigned} \union Secrets)
    /\ Quiet
    /\ UNCHANGED <<clock, queue, arrivals, secret, idempotency, events, failures, outcomes>>

Refresh ==
    /\ hookSecret # Unsigned
    /\ secret' = hookSecret
    /\ Quiet
    /\ UNCHANGED <<clock, queue, arrivals, hookSecret, idempotency, events, failures,
                   outcomes>>

\* Time does not pass a delivery by in the receiver's queue.
Tick ==
    /\ clock < Horizon
    /\ \A m \in queue : clock < m.at + MaxQueueing
    /\ clock' = clock + 1
    /\ Quiet
    /\ UNCHANGED <<queue, arrivals, hookSecret, secret, idempotency, events, failures,
                   outcomes>>

Restart ==
    /\ idempotency # << >>
    /\ idempotency' = [d \in {} |-> 0]
    /\ events' = << >>
    /\ failures' = [s \in Sources |-> 0]
    /\ outcomes' = [s \in Sources |-> << >>]
    /\ Quiet
    /\ UNCHANGED <<clock, queue, arrivals, hookSecret, secret>>

Next ==
    \/ \E m \in queue : RecordEvent(m)
    \/ \E s \in Sources, after, before \in 0..clock : Signal(s, after, before)
    \/ \E d \in Ids : Arrive(d, hookSecret)
    \/ Rotate
    \/ Refresh
    \/ Tick
    \/ Restart

Spec == Init /\ [][Next]_vars

-----------------------------------------------------------------------------
(***************************************************************************)
(* Properties                                                              *)
(***************************************************************************)
\* A signal over a window no longer than the memory for deliveries, less the
\* time the receiver may keep one, reports each delivery once, however often
\* GitHub sent it; and it reports them in the order of their arrival, in
\* whichever order they were handed over.
EvidenceIsCountedOnceInOrder ==
    /\ report.length <= Ttl - MaxQueueing =>
          \A i, j \in DOMAIN report.events :
             report.events[i].delivery = report.events[j].delivery => i = j
    /\ \A i, j \in DOMAIN report.events : i < j => report.events[i].at <= report.events[j].at

\* Suspecting a rotation means that the last deliveries of that one source all
\* failed, as many as the threshold says: one that verifies, a duplicate too,
\* starts the count again, and another source's count for nothing.  The code suspects
\* it at the third failure (ROTATION_FAILURE_THRESHOLD = 3, next >= 3 at :227); the
\* comment at the head of the file (:16, ">3 consecutive HMAC failures") and the heading
\* at docs/slo/lessons/hulumi-github-m4.md:44 would have it wait for a fourth.
AlarmsAreThreeInARow ==
    alarmed # NoSource =>
        outcomes[alarmed] = [i \in 1..Threshold |-> "failed"]
=============================================================================
