--------------------------- MODULE LiveValidator ---------------------------
(***************************************************************************)
(* "hulumi validate live" and the validation it runs                       *)
(* (packages/drift/src/live-validator.ts): a pool of workers takes one     *)
(* provider adapter after another from a shared cursor, bounds each by a   *)
(* timeout and a page cap, and turns what they find into a report, its     *)
(* artifacts and an exit code.                                             *)
(*                                                                         *)
(* An adapter may answer in time, fail, answer too late or never.  The     *)
(* GitHub adapter answers with evaluateGitHubRunnerGovernance of the       *)
(* settings it read; the others answer with findings.                      *)
(***************************************************************************)
EXTENDS Integers, Sequences, FiniteSets

CONSTANTS
    Requests,      \* what the validation is asked to do, and what there is to see
    Workers,       \* the most workers there can be
    Formats        \* LIVE_FORMATS

VARIABLES
    request,       \* what was asked
    at,            \* where the command stands
    cursor,        \* the adapters the cursor has passed
    worker,        \* the adapter each worker waits for
    findings,      \* what each bounded run contributed, in the order they ended
    artifacts,     \* formats whose file in the output directory is of this run
    code           \* the exit code

vars == <<request, at, cursor, worker, findings, artifacts, code>>

NoAdapter == 0
Free == [state |-> "free", adapter |-> NoAdapter]
Running == -1   \* no exit code yet

Adapters == DOMAIN request.adapters
Provider(a) == request.adapters[a].provider

Finding(id, status, resource) == [id |-> id, status |-> status, resource |-> resource]
Status == {"pass", "fail", "degraded", "skipped"}

-----------------------------------------------------------------------------
(***************************************************************************)
(* evaluateGitHubRunnerGovernance                                          *)
(***************************************************************************)
EnvironmentFindings(g) ==
    UNION {
      IF e \notin DOMAIN g.live
      THEN {Finding("environment-exists", "fail", e)}
      ELSE {Finding("environment-exists", "pass", e)} \union
           (IF e \notin g.production THEN {}
            ELSE {Finding("requires-reviewers", IF g.live[e] THEN "pass" ELSE "fail", e)}) :
      e \in g.expected}

SelfHosted(j) == "self-hosted" \in j.runsOn

Approved(j, g) ==
    LET labels == j.runsOn \ {"self-hosted"}
    IN  g.approved # {} /\ labels # {} /\ labels \subseteq g.approved

RunnerFindings(g) ==
    {Finding("self-hosted-approved", IF Approved(j, g) THEN "pass" ELSE "fail", j.name) :
        j \in {k \in g.jobs : SelfHosted(k)}}
    \union
    {Finding("no-long-lived-secrets", "fail", j.name) :
        j \in {k \in g.jobs : ~k.oidc \/ k.secrets}}
    \union
    (IF \E j \in g.jobs : SelfHosted(j) THEN {}
     ELSE {Finding("self-hosted-approved", "pass", "runners")})

Governance(g) ==
    EnvironmentFindings(g) \union RunnerFindings(g) \union
    (IF g.complete THEN {} ELSE {Finding("page-cap-complete", "degraded", "runners")})

\* What an adapter has to say, if it comes to that.
Answer(a) ==
    IF Provider(a) = "github" THEN Governance(request.adapters[a].settings)
    ELSE request.adapters[a].findings

-----------------------------------------------------------------------------
(***************************************************************************)
(* runLiveValidation                                                       *)
(***************************************************************************)
\* A bad flag and an unusable configuration end the command; otherwise the
\* workers start, no more than there are adapters, and at least one.
Concurrency == LET n == Cardinality(Adapters)  m == IF n = 0 THEN 1 ELSE n
               IN  IF request.concurrency < m THEN request.concurrency ELSE m

Exit(c) == at' = "done" /\ code' = c

Parse ==
    /\ at = "parse"
    /\ \/ request.usage # "good" /\ Exit(IF request.usage = "bad flag" THEN 2 ELSE 1)
          /\ UNCHANGED worker
       \/ /\ request.usage = "good"
          /\ at' = "run"
          /\ worker' = [w \in Workers |->
                          [state |-> IF w <= Concurrency THEN "ready" ELSE "free",
                           adapter |-> NoAdapter]]
          /\ UNCHANGED code
    /\ UNCHANGED <<request, cursor, findings, artifacts>>

\* The adapters go by the name of their provider, in a sort that keeps the order of
\* equal ones; the cursor moves before the worker waits.
Before(a, b) ==
    \/ request.adapters[a].rank < request.adapters[b].rank
    \/ request.adapters[a].rank = request.adapters[b].rank /\ a <= b

Ahead == Adapters \ cursor

Take(w) ==
    /\ worker[w].state = "ready"
    /\ \E a \in Ahead :
          /\ \A b \in Ahead : Before(a, b)
          /\ worker' = [worker EXCEPT ![w] = [state |-> "waiting", adapter |-> a]]
          /\ cursor' = cursor \union {a}
    /\ UNCHANGED <<request, at, findings, artifacts, code>>

Finish(w) ==
    /\ worker[w].state = "ready"
    /\ Ahead = {}
    /\ worker' = [worker EXCEPT ![w] = Free]
    /\ UNCHANGED <<request, at, cursor, findings, artifacts, code>>

Contributes(w, fs) ==
    /\ findings' = Append(findings, [adapter |-> worker[w].adapter, findings |-> fs])
    /\ worker' = [worker EXCEPT ![w] = [state |-> "ready", adapter |-> NoAdapter]]
    /\ UNCHANGED <<request, at, cursor, artifacts, code>>

Degraded(a) == Finding("degraded", "degraded", Provider(a))

\* A page cap keeps the first findings, and says so.
Firsts(fs) == {s \in SUBSET fs : Cardinality(s) = request.pageCap}

\* Variant: what is over the cap is left out without a word.
CapQuietly(a, fs) == IF Cardinality(fs) <= request.pageCap THEN {fs} ELSE Firsts(fs)

Cap(a, fs) ==
    IF Cardinality(fs) <= request.pageCap THEN {fs}
    ELSE {s \union {Degraded(a)} : s \in Firsts(fs)}

AnswerInTime(w) ==
    /\ worker[w].state = "waiting"
    /\ LET a == worker[w].adapter
       IN  /\ request.adapters[a].answers = "ok"
           /\ \E fs \in Cap(a, Answer(a)) : Contributes(w, fs)

\* Variant: no timer runs, and who awaits an adapter that hangs does so for ever.
WaitsForAnAnswer(w) ==
    /\ worker[w].state = "waiting"
    /\ request.adapters[worker[w].adapter].answers \in {"ok", "fails"}
    /\ Contributes(w, {Degraded(worker[w].adapter)})

\* The adapter rejects, or the timeout is over before it settles: an adapter
\* that never answers leaves no other way.
FailsOrTimesOut(w) ==
    /\ worker[w].state = "waiting"
    /\ request.adapters[worker[w].adapter].answers \in {"ok", "fails", "hangs"}
    /\ Contributes(w, {Degraded(worker[w].adapter)})

\* Promise.all, normalizeFinding of every finding, summarize: a finding that
\* is malformed throws, and no finding at all is an error too.
AllFindings == UNION {findings[i].findings : i \in DOMAIN findings}

ExitCode == IF \E f \in AllFindings : f.status \in {"fail", "degraded"} THEN 1 ELSE 0

Summarize ==
    /\ at = "run"
    /\ \A w \in Workers : worker[w] = Free
    /\ IF AllFindings = {} \/ \E f \in AllFindings : f.status \notin Status
       THEN Exit(1)
       ELSE at' = "render" /\ UNCHANGED code
    /\ UNCHANGED <<request, cursor, worker, findings, artifacts>>

-----------------------------------------------------------------------------
(***************************************************************************)
(* runLiveValidatorCli                                                     *)
(***************************************************************************)
\* Every format is rendered and measured before the first is written.
Render ==
    /\ at = "render"
    /\ IF request.formats \intersect request.tooLong # {} THEN Exit(1)
       ELSE IF request.outDir THEN at' = "write" /\ UNCHANGED code
       ELSE Exit(ExitCode)
    /\ UNCHANGED <<request, cursor, worker, findings, artifacts>>

Write(f) ==
    /\ at = "write"
    /\ f \in request.formats \ artifacts
    /\ artifacts' = artifacts \union {f}
    /\ UNCHANGED <<request, at, cursor, worker, findings, code>>

WriteFails ==
    /\ at = "write"
    /\ request.formats # artifacts
    /\ request.diskFails
    /\ Exit(1)
    /\ UNCHANGED <<request, cursor, worker, findings, artifacts>>

Written ==
    /\ at = "write"
    /\ request.formats \subseteq artifacts
    /\ Exit(ExitCode)
    /\ UNCHANGED <<request, cursor, worker, findings, artifacts>>

Init ==
    /\ request \in Requests
    /\ at = "parse"
    /\ cursor = {}
    /\ worker = [w \in Workers |-> Free]
    /\ findings = << >>
    /\ artifacts = {}
    /\ code = Running

Works(w) == Take(w) \/ Finish(w) \/ AnswerInTime(w) \/ FailsOrTimesOut(w)

Next ==
    \/ Parse
    \/ \E w \in Workers : Works(w)
    \/ Summarize
    \/ Render
    \/ \E f \in Formats : Write(f)
    \/ WriteFails
    \/ Written

Spec == Init /\ [][Next]_vars

\* Timers fire, and nothing of the command but an adapter can hang.
FairSpec == Spec /\ WF_vars(Next)

-----------------------------------------------------------------------------
(***************************************************************************)
(* Properties                                                              *)
(***************************************************************************)
TypeOK ==
    /\ at \in {"parse", "run", "render", "write", "done"}
    /\ cursor \subseteq Adapters
    /\ worker \in [Workers -> [state : {"free", "ready", "waiting"},
                               adapter : {NoAdapter} \union Adapters]]
    /\ artifacts \subseteq Formats
    /\ code \in {Running, 0, 1, 2}

\* What is wrong at GitHub, said without the evaluation's words: an expected
\* environment is missing, a production one has no reviewers, a job may land on
\* a self-hosted runner nobody approved or holds a secret, or not all was seen.
Wrong(g) ==
    \/ \E e \in g.expected : e \notin DOMAIN g.live
    \/ \E e \in g.expected \intersect g.production : ~g.live[e]
    \/ \E j \in g.jobs : \/ SelfHosted(j) /\ j.runsOn \ {"self-hosted"} = {}
                         \/ SelfHosted(j) /\ \E l \in j.runsOn \ {"self-hosted"} : l \notin g.approved
                         \/ j.secrets \/ ~j.oidc
    \/ ~g.complete

\* Exit 0 is earned: every adapter that was asked to run contributed, exactly
\* once and with all it found, in time; nothing it looked at failed or is
\* wrong; and every artifact that was asked for is of this run.
CleanExitIsEarned ==
    code = 0 =>
        /\ \A a \in Adapters : \E i \in DOMAIN findings :
              /\ findings[i] = [adapter |-> a, findings |-> Answer(a)]
              /\ \A j \in DOMAIN findings : findings[j].adapter = a => j = i
              /\ request.adapters[a].answers = "ok"
              /\ Provider(a) = "github" => ~Wrong(request.adapters[a].settings)
              /\ Provider(a) # "github" =>
                    \A f \in request.adapters[a].findings : f.status \in {"pass", "skipped"}
        /\ request.outDir => artifacts = request.formats

=============================================================================
