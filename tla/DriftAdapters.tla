--------------------------- MODULE DriftAdapters ---------------------------
(***************************************************************************)
(* The adapters that gather the classifier's evidence                      *)
(* (packages/drift/src/adapters: cloudtrail.ts, git-log.ts,                *)
(* provider-version.ts, kubernetes-api.ts, automation-api.ts).             *)
(*                                                                         *)
(* A call of signal makes one or more asynchronous reads of a world that   *)
(* moves between them; a read may fail, and CloudTrail's is retried under  *)
(* a budget.  What cannot be seen must not read as "no drift".             *)
(***************************************************************************)
EXTENDS Integers, Sequences

CONSTANTS
    Adapters,      \* the adapters that are asked
    Worlds,        \* what there may be to see
    Policies,      \* CloudTrail retry options, as the caller gave them
    Windows,       \* evidence windows: sound, or refused
    Unset,         \* no maxElapsedMs
    MaxSafe,       \* Number.MAX_SAFE_INTEGER
    MaxMoves       \* bound: how often the world moves during a call

VARIABLES
    world,    \* what there is to see
    adapter,  \* the one that is asked
    policy,
    window,
    call,     \* where the call stands, and what it has read
    signal,   \* its answer
    waited,   \* history: the sum of the delays between lookups
    lookups,  \* history: the lookups made
    seen,     \* history: the worlds the call has lived through
    moves     \* moves of the world left

asked == <<adapter, policy, window>>
vars == <<world, asked, call, signal, waited, lookups, seen, moves>>

NoSignal == [ok |-> FALSE, detected |-> FALSE, given |-> FALSE, delay |-> 0]
Signal(ok, detected) == [ok |-> ok, detected |-> detected, given |-> TRUE, delay |-> 0]
At(step) == [at |-> step]

\* normalizeRetry: no options mean one lookup; a negative or infinite delay is
\* none; attempts out of range throw.
Least(a, b) == IF a < b THEN a ELSE b
NotBelowZero(n) == IF n < 0 THEN 0 ELSE n

Attempts == policy.attempts
\* Variant: too few are refused, too many are not.
TooFew == Attempts < 1

Refused == Attempts \notin 1..10
Backoff == NotBelowZero(policy.backoff)
Elapsed == IF policy.maxElapsed = Unset THEN Unset ELSE NotBelowZero(policy.maxElapsed)

\* shouldFilterPrincipal: the full hulumi:iac-role tag only.
Filtered(e) == e.tag = "hulumi:iac-role"

\* compareSemver(pinned, latest) < 0: part by part, a missing part is zero.
Part(v, i) == IF i <= Len(v) THEN v[i] ELSE 0

Behind(v, w) ==
    \E i \in 1..(Len(v) + Len(w)) :
        /\ Part(v, i) < Part(w, i)
        /\ \A j \in 1..(i - 1) : Part(v, j) = Part(w, j)

Start ==
    CASE adapter = "CloudTrail" ->
            IF window = "refused" \/ Refused THEN [at |-> "refused"]
            ELSE [at |-> "lookup", attempts |-> 1, delay |-> 0, next |-> Backoff]
      [] adapter = "GitLog" -> At(IF window = "refused" THEN "refused" ELSE "available")
      [] adapter = "ProviderVersion" -> At("pinned")
      [] adapter = "KubernetesApi" -> [at |-> "snapshots", live |-> << >>, desired |-> << >>]
      [] adapter = "AutomationApi" -> At("preview")

Init ==
    /\ world \in Worlds
    /\ adapter \in Adapters
    /\ policy \in Policies
    /\ window \in Windows
    /\ call = Start
    /\ signal = NoSignal
    /\ waited = 0
    /\ lookups = IF call.at = "lookup" THEN 1 ELSE 0
    /\ seen = {world}
    /\ moves = MaxMoves

Gives(s) == signal' = s /\ call' = At("done") /\ UNCHANGED <<world, asked, waited, lookups, seen, moves>>
Reads(c) == call' = c /\ UNCHANGED <<world, asked, signal, waited, lookups, seen, moves>>

\* A window or an argument that is refused is refused before any read.
Refuse == call.at = "refused" /\ Gives(Signal(FALSE, FALSE))

-----------------------------------------------------------------------------
\* CloudTrail: lookupWithRetry.
LookupAnswers ==
    /\ call.at = "lookup"
    /\ Gives([Signal(TRUE, \E e \in world.events : ~Filtered(e)) EXCEPT !.delay = call.delay])

\* Variant: the delay to come is not counted.
RetriesBeforeCounting == Elapsed = Unset \/ call.delay <= Elapsed

Retries == Elapsed = Unset \/ call.delay + call.next <= Elapsed

LookupFails ==
    /\ call.at = "lookup"
    /\ IF call.attempts < Attempts /\ Retries
       THEN /\ call' = [call EXCEPT !.at = "wait", !.delay = @ + call.next]
            /\ UNCHANGED <<world, asked, signal, waited, lookups, seen, moves>>
       ELSE Gives([Signal(FALSE, FALSE) EXCEPT !.delay = call.delay])

\* The delay is over; the next one is twice as long.
WaitEnds ==
    /\ call.at = "wait"
    /\ waited' = waited + call.next
    /\ lookups' = lookups + 1
    /\ call' = [call EXCEPT !.at = "lookup", !.attempts = @ + 1,
                            !.next = Least(MaxSafe, 2 * call.next)]
    /\ UNCHANGED <<world, asked, signal, seen, moves>>

-----------------------------------------------------------------------------
\* Git: a shallow clone or no repository is not evidence of no commits.
GitAvailable ==
    /\ call.at = "available"
    /\ IF world.shallow THEN Gives(Signal(FALSE, FALSE)) ELSE Reads(At("log"))

GitLog == call.at = "log" /\ Gives(Signal(TRUE, world.commits > 0))

-----------------------------------------------------------------------------
\* ProviderVersion: two reads, one after the other.
ReadPinned == call.at = "pinned" /\ Reads([at |-> "latest", pinned |-> world.pinned])

ReadLatest == call.at = "latest" /\ Gives(Signal(TRUE, Behind(call.pinned, world.latest)))

-----------------------------------------------------------------------------
\* Kubernetes: two reads in any order, within one timeout.
ReadSnapshot ==
    /\ call.at = "snapshots"
    /\ \/ call.live = << >> /\ Reads([call EXCEPT !.live = <<world.live>>])
       \/ call.desired = << >> /\ Reads([call EXCEPT !.desired = <<world.desired>>])

CompareSnapshots ==
    /\ call.at = "snapshots"
    /\ call.live # << >> /\ call.desired # << >>
    /\ Gives(Signal(TRUE, call.live # call.desired))

-----------------------------------------------------------------------------
\* Automation API: a preview of the whole stack.
Preview ==
    /\ call.at = "preview"
    /\ Gives(Signal(TRUE, world.diff \/ world.updates > 0 \/ world.replaces > 0))

-----------------------------------------------------------------------------
\* A read that fails, or the timeout of the snapshots.
\* Variant: it is taken for an answer.
FailsQuietly ==
    /\ call.at \in {"available", "log", "pinned", "latest", "snapshots", "preview"}
    /\ Gives(Signal(TRUE, FALSE))

ReadFails ==
    /\ call.at \in {"available", "log", "pinned", "latest", "snapshots", "preview"}
    /\ Gives(Signal(FALSE, FALSE))

\* Everybody else.  A clone does not become shallow, and CloudTrail forgets
\* nothing of the window while it is asked about it.
Move ==
    /\ call.at # "done"
    /\ moves > 0
    /\ moves' = moves - 1
    /\ \E w \in Worlds \ {world} :
          /\ w.shallow = world.shallow
          /\ world.events \subseteq w.events
          /\ world' = w
          /\ seen' = seen \union {w}
    /\ UNCHANGED <<asked, call, signal, waited, lookups>>

Next ==
    \/ Refuse
    \/ LookupAnswers \/ LookupFails \/ WaitEnds
    \/ GitAvailable \/ GitLog
    \/ ReadPinned \/ ReadLatest
    \/ ReadSnapshot \/ CompareSnapshots
    \/ Preview
    \/ ReadFails
    \/ Move

Spec == Init /\ [][Next]_vars

-----------------------------------------------------------------------------
TypeOK ==
    /\ world \in Worlds /\ seen \subseteq Worlds
    /\ signal \in [ok : BOOLEAN, detected : BOOLEAN, given : BOOLEAN, delay : Nat]
    /\ lookups \in 0..10
    /\ moves \in 0..MaxMoves

\* Drift, in the terms of each source, between what v says and what w says of it.
Drifted(v, w) ==
    CASE adapter = "CloudTrail" -> \E e \in w.events : e.tag # "hulumi:iac-role"
      [] adapter = "GitLog" -> w.commits > 0
      [] adapter = "ProviderVersion" -> Behind(v.pinned, w.latest)
      [] adapter = "KubernetesApi" -> v.live # w.desired
      [] adapter = "AutomationApi" -> w.diff \/ w.updates > 0 \/ w.replaces > 0

\* An adapter says that it looked and saw no drift only if there was none at
\* some moment of the call, or between two moments of it: a failed read, a
\* shallow clone, a refused window or a timeout is no such answer.
LastingDriftIsSeen ==
    signal.ok /\ ~signal.detected => \E v, w \in seen : ~Drifted(v, w)

\* The lookups and the delays between them stay in the budget of the policy,
\* the last delay included, and the signal tells them.
RetriesStayInBudget ==
    /\ adapter = "CloudTrail" /\ ~Refused => lookups <= Attempts
    /\ Elapsed # Unset => waited <= Elapsed
    /\ signal.given /\ adapter = "CloudTrail" => signal.delay = waited
=============================================================================
