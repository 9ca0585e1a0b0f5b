------------------------------ MODULE MCTools ------------------------------
(***************************************************************************)
(* Small instances of the programs of Tools: what there is for each, and   *)
(* where those stand that are not at work.                                 *)
(***************************************************************************)
EXTENDS Tools

CONSTANTS e1, e2, c1

-----------------------------------------------------------------------------
(***************************************************************************)
(* The orphan reconciler                                                   *)
(***************************************************************************)
Thing(kind, id, place, marks) ==
    [kind |-> kind, id |-> id, place |-> place, prefixed |-> TRUE, named |-> FALSE,
     selected |-> TRUE, marks |-> marks, singleton |-> FALSE, locked |-> FALSE, held |-> {}]

Inventory ==
    <<Thing("bucket", "b", "here", {"tag"}),
      Thing("logGroup", "l", "here", {"tag"}),
      Thing("logGroup", "l", "there", {"tag"}),
      Thing("recorder", "r", "here", {"tag"}),
      Thing("channel", "c", "here", {"tag"}),
      [Thing("detector", "d", "here", {"tag"}) EXCEPT !.named = TRUE, !.prefixed = FALSE],
      [Thing("bucket", "h", "here", {"tag"}) EXCEPT !.held = {1}]>>

All == 1..7

ScopeOf(places, listed, singletons) ==
    [prefix |-> "narrow", tags |-> FALSE, urns |-> All, listed |-> listed, places |-> places,
     minAge |-> TRUE, minSignals |-> 2, singletons |-> singletons, maxActions |-> 3]

Ask(mode, scope, wish) == [mode |-> mode, scope |-> scope, wish |-> wish]

Everywhere == {"here", "there"}
Scenario(requests, recorded, executions, units) ==
    [cloud |-> All, state |-> recorded, asked |-> requests,
     calls |-> executions, budget |-> units]

OrphanSituations ==
    {\* Two plans delete one bucket in different modes.
     Scenario({Ask("sweep-only", ScopeOf(Everywhere, {1, 6}, FALSE), "none"),
               Ask("reconcile", ScopeOf(Everywhere, {1, 7}, FALSE), "none")}, {}, 2, 0),
     \* One bucket, and others about.
     Scenario({Ask("sweep-only", ScopeOf(Everywhere, {1}, FALSE), "none")}, {}, 1, 2),
     \* Log groups of one name in two places.
     Scenario({Ask("sweep-only", ScopeOf({"there"}, {2, 3}, FALSE), "none")}, {2}, 1, 1),
     Scenario({Ask("sweep-only", ScopeOf(Everywhere, {2, 3}, FALSE), "none")}, {}, 1, 1),
     \* Executors of the caller's, in the order of their dependency.
     Scenario({Ask("sweep-only", ScopeOf({"here"}, {4, 5, 6}, TRUE), "none")}, {}, 1, 1),
     \* A token used twice; a plan that is too long.
     Scenario({Ask("sweep-only", ScopeOf(Everywhere, {6}, TRUE), "none")}, {}, 2, 1),
     Scenario({Ask("reconcile", ScopeOf(Everywhere, {1, 2, 3, 4}, FALSE), "none")}, {}, 1, 0),
     \* The state's side.
     Scenario({Ask("state-only", ScopeOf(Everywhere, {1, 2}, FALSE), "refreshState")}, {1}, 1, 1),
     Scenario({Ask("reconcile", ScopeOf(Everywhere, {2}, FALSE), "importToState")}, {}, 1, 1)}

Executors ==
    {"drainS3BucketVersions", "deleteCloudWatchLogGroup", "deleteConfigRecorder",
     "deleteConfigDeliveryChannel", "deleteGuardDutyDetector",
     "stateDeleteAlreadyAbsentResource"}

Allowed == {{}, {"deleteCloudResource"}}

-----------------------------------------------------------------------------
(***************************************************************************)
(* The live validator                                                      *)
(***************************************************************************)
Job(labels, oidc, secrets) ==
    [name |-> "j", runsOn |-> labels, oidc |-> oidc, secrets |-> secrets]

Sound ==
    [expected |-> {"prod", "dev"}, production |-> {"prod"},
     live |-> [e \in {"prod", "dev"} |-> e = "prod"],
     approved |-> {"x"}, jobs |-> {Job({"self-hosted", "x"}, TRUE, FALSE)}, complete |-> TRUE]

WithJob(labels, oidc, secrets) == [Sound EXCEPT !.jobs = {Job(labels, oidc, secrets)}]

Settings ==
    {Sound, [Sound EXCEPT !.complete = FALSE], [Sound EXCEPT !.expected = @ \union {"new"}],
     [Sound EXCEPT !.production = {"prod", "dev"}],
     WithJob({"hosted"}, TRUE, FALSE), WithJob({"self-hosted", "x", "y"}, TRUE, FALSE),
     WithJob({"self-hosted"}, TRUE, FALSE), WithJob({"hosted"}, FALSE, TRUE)}

GitHub(s) == [provider |-> "github", rank |-> 2, answers |-> "ok", settings |-> s]
Provider(p, r, how, fs) == [provider |-> p, rank |-> r, answers |-> how, findings |-> fs]
Check(resource, status) == [id |-> "check", status |-> status, resource |-> resource]
Aws(how) == Provider("aws-org", 1, how, {Check("a", "pass"), Check("b", "pass")})
Eks(how) == Provider("eks", 3, how, {Check("c", "pass")})

Request(adapters) ==
    [usage |-> "good", adapters |-> adapters, concurrency |-> 2, pageCap |-> 4,
     formats |-> {"json", "sarif"}, tooLong |-> {}, outDir |-> TRUE, diskFails |-> FALSE]

Two == Request(<<Aws("ok"), Eks("ok")>>)

LiveOrders ==
    {Request(<<GitHub(s), Aws("ok")>>) : s \in Settings}
    \union {Request(<<Eks(how), Aws(how2), GitHub(Sound)>>) :
               how, how2 \in {"ok", "fails", "hangs"}}
    \union {Two, [Two EXCEPT !.pageCap = 1], [Two EXCEPT !.diskFails = TRUE],
            [Two EXCEPT !.tooLong = {"sarif"}], [Two EXCEPT !.outDir = FALSE],
            [Two EXCEPT !.usage = "bad flag"], [Request(<< >>) EXCEPT !.usage = "bad config"],
            Request(<< >>),
            Request(<<Provider("aws-org", 1, "ok", {Check("a", "unheard of")})>>)}

-----------------------------------------------------------------------------
(***************************************************************************)
(* The evidence adapters                                                   *)
(***************************************************************************)
Look(shallow, tags, commits, pinned, latest, live, desired, diff) ==
    [shallow |-> shallow, events |-> {[tag |-> t] : t \in tags}, commits |-> commits,
     pinned |-> pinned, latest |-> latest, live |-> live, desired |-> desired,
     diff |-> diff, updates |-> 0, replaces |-> 0]

AdapterLooks ==
    {Look(FALSE, {}, 0, <<6, 9>>, <<6, 9, 0>>, 1, 1, FALSE),
     Look(FALSE, {"iac-role"}, 2, <<6, 9, 1>>, <<6, 10>>, 1, 2, TRUE),
     Look(FALSE, {"hulumi:iac-role"}, 2, <<6, 9>>, <<6, 10>>, 2, 2, FALSE),
     Look(TRUE, {"iac-role", "hulumi:iac-role"}, 2, <<7>>, <<6, 10>>, 2, 1, FALSE)}

Retry(attempts, backoff, elapsed) ==
    [attempts |-> attempts, backoff |-> backoff, maxElapsed |-> elapsed]

AdapterPolicies ==
    {Retry(1, 0, -1), Retry(4, 2, 6), Retry(4, -1, 0), Retry(10, 3, -1), Retry(5, 1, 3),
     Retry(11, 1, -1)}

NoLimit == -1

-----------------------------------------------------------------------------
(***************************************************************************)
(* The decision kernel                                                     *)
(***************************************************************************)
KernelTaints == <<[key |-> "dedicated", value |-> "trusted", effect |-> "NoSchedule"]>>

-----------------------------------------------------------------------------
(***************************************************************************)
(* The broker of tokens                                                    *)
(***************************************************************************)
Granting(repositories, permissions) == [repos |-> repositories, permissions |-> permissions]
Mine == <<"o", "r">>

BrokerRequests == {Mine, <<"p", "s">>}

BrokerScopes ==
    {Granting(<<<<"*", "*">>>>, {"contents"}), Granting(<<Mine>>, {"contents", "issues"}),
     Granting(<<Mine, Mine>>, {"contents"})}

-----------------------------------------------------------------------------
(***************************************************************************)
(* Remediation and merge                                                   *)
(***************************************************************************)
Reviewed ==
    [apply |-> TRUE, emergencies |-> 1, rows |-> 1, pnpm |-> FALSE, green |-> TRUE,
     fixes |-> << >>, reviewFixes |-> <<"inside", "inside">>, sideEffects |-> TRUE,
     state |-> "in_progress", tools |-> {"read_diff"}, dependencyReview |-> TRUE,
     malicious |-> FALSE, advisory |-> "x"]

Protected ==
    [autoMerge |-> FALSE, bypass |-> FALSE, checks |-> TRUE, dismissStale |-> TRUE,
     approvals |-> 1, reviewer |-> "A", remediator |-> "B", merger |-> "C", probe |-> TRUE]

\* packages.lock.json, and worker-dotnet.csproj, which is text.
TwoFiles == <<"lock", "csproj">>

\* The version is in both, in one of them, next to JSON that cannot be parsed, or in none.
RemediationFiles ==
    LET Affected(c) == Remediation!Content("vulnerable", c)
        Else(c) == Remediation!Content("other", c)
    IN  {[lock |-> Affected(FALSE), csproj |-> Affected(TRUE)],
         [lock |-> Else(FALSE), csproj |-> Affected(TRUE)],
         [lock |-> Affected(TRUE), csproj |-> Else(TRUE)],
         [lock |-> Remediation!Garbled, csproj |-> Affected(TRUE)],
         [lock |-> Else(FALSE), csproj |-> Else(TRUE)]}

RemediationCommands ==
    {{Reviewed, [Reviewed EXCEPT !.apply = FALSE, !.advisory = "y"]},
     {[Reviewed EXCEPT !.malicious = TRUE], Reviewed},
     {[Reviewed EXCEPT !.emergencies = 0], [Reviewed EXCEPT !.rows = 2]}}

RemediationRulesets == {Protected, [Protected EXCEPT !.merger = "B"]}

-----------------------------------------------------------------------------
(***************************************************************************)
(* Those that are not at work stay in one of the states they start from,   *)
(* always the same.                                                        *)
(***************************************************************************)
OrphanRests ==
    LET w == CHOOSE x \in OrphanSituations : x.calls = 1 /\ x.budget = 0
    IN  <<cloud, state, asked, calls, budget>> = <<w.cloud, w.state, w.asked, w.calls, w.budget>>
LiveRests == request = Two
AdapterRests ==
    <<adapter, policy, window, world>> = <<"GitLog", Retry(1, 0, -1), "sound", CHOOSE w \in AdapterLooks : TRUE>>

BrokerRests ==
    /\ tag = Broker!Canonical(Granting(<<Mine>>, {"contents", "issues"}))
    /\ keys = {"k1"} /\ installation.owner = "o" /\ installation.grants = {"contents"}

RemediationRests ==
    /\ files = [f \in {"lock", "csproj"} |-> Remediation!Content("vulnerable", f # "lock")]
    /\ remediations = {[Reviewed EXCEPT !.emergencies = 0], [Reviewed EXCEPT !.rows = 2]}
    /\ ruleset = Protected

\* Init, taken program by program.
MCInit ==
    /\ part \in Programs
    /\ Orphan!Init /\ (part # "orphan" => OrphanRests)
    /\ Live!Init /\ (part # "live" => LiveRests)
    /\ Adapter!Init /\ (part # "adapter" => AdapterRests)
    /\ Kernel!Init
    /\ Broker!Init /\ (part # "broker" => BrokerRests)
    /\ Remediation!Init /\ files \in RemediationFiles
    /\ (part # "remediation" => RemediationRests)

MCSpec == MCInit /\ [][Next]_vars /\ WF_vars(Progress)
=============================================================================
