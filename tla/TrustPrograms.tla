----------------------------- MODULE TrustPrograms -----------------------------
(***************************************************************************)
(* Programs that give GitHub's jobs a way into a cloud, and the jobs.      *)
(***************************************************************************)
EXTENDS Sequences

Work == "o/r/w@main"
Other == "o/r/x@main"

JobOf(repo, workflow, environment, ref, event) ==
    [repo |-> repo, workflow |-> workflow, environment |-> environment, ref |-> ref,
     event |-> event]

TrustJobs ==
    {JobOf("o/r", Work, "prod", "main", "push"), JobOf("o/r", Other, "prod", "main", "push"),
     JobOf("o/r", Work, "", "main", "push"), JobOf("o/r", Work, "", "pull", "pull_request"),
     JobOf("p/s", Work, "prod", "main", "push")}

SubjectTemplates ==
    {<<"repo", "context", "job_workflow_ref">>, <<"repo", "context">>,
     <<"repo", "ref", "job_workflow_ref">>}

Equals(key, value) ==
    [operator |-> "StringEquals", key |-> key, values |-> {value}, scalar |-> TRUE]
Matching(value) == [Equals("sub", value) EXCEPT !.operator = "StringLike"]
From(issuer, restrictions) == [issuers |-> {issuer}, restrictions |-> restrictions]

Readable(statements) == [readable |-> TRUE, statements |-> statements]
Role(statements) ==
    [type |-> "role", name |-> "ci", parent |-> "none", known |-> TRUE, trust |-> Readable(statements),
     tags |-> <<>>, managed |-> {}, inline |-> {}]

OnMain == <<"repo", "o/r", "ref", "main", "job_workflow_ref", Work>>
InProd == <<"repo", "o/r", "environment", "prod", "job_workflow_ref", Work>>
OfRepo == <<"repo", "o/r", "environment", "prod">>

\* Exact statements beside one of another issuer; every subject of one repository.
TwoDoors == Role({From("github", {Equals("sub", OnMain)}), From("github", {Equals("sub", InProd)}),
                  From("lookalike", {})})
AnyContext == Role({From("github", {Matching(<<"repo", "o/r", "*">>)})})

ArgsOf(policies, known) ==
    [name |-> "ci", repository |-> "o/r", mode |-> <<>>, environment |-> "prod", audience |-> "sts",
     workflow |-> Work, policies |-> policies, known |-> known]

Allow(actions, resources) ==
    [effect |-> "Allow", actions |-> actions, resources |-> resources, complement |-> FALSE]
Policy(name, document) == [type |-> "policy", name |-> name, document |-> document]
Attachment(policy) ==
    [type |-> "attachment", name |-> policy.to, roles |-> {"ci"}, policies |-> {policy}]

AdminArn == [by |-> "arn", to |-> "AdministratorAccess"]
ByProperty(name) == [by |-> "property", to |-> name]

ClusterAdmin(scope) ==
    [type |-> "accessPolicy", name |-> "eks", roles |-> {"ci"}, clusterAdmin |-> TRUE,
     scope |-> scope]

Repository == [type |-> "repository", name |-> "o/r", deploys |-> TRUE]
Environment == [type |-> "environment", name |-> "prod", of |-> "o/r", protected |-> TRUE]
Runners(labels) ==
    [type |-> "runners", name |-> "runners", approved |-> {"ours"}, pageCap |-> 100,
     environments |-> {[name |-> "prod", reviewers |-> TRUE, branches |-> TRUE]},
     workflows |-> {[environment |-> "prod", labels |-> labels, oidc |-> TRUE, secrets |-> {}]}]

Clause(assertion, operator, value) ==
    {[assertion |-> assertion, operator |-> operator, value |-> value]}
Condition(clauses) ==
    [type |-> "gcp", name |-> "gcp", condition |-> [readable |-> TRUE, clauses |-> clauses]]
Bindings ==
    <<Clause("repository", "==", "o/r"), Clause("job_workflow_ref", "==", Work),
      Clause("environment", "==", "prod")>>
Azure(subject) == [type |-> "azure", name |-> "azure", subject |-> subject]

Program(resources) == [resources |-> resources, suppressions |-> {}]

\* declared(args) is what a deployment role's component declares.
ProgramsOf(declared(_)) ==
    [component |-> Program(declared(ArgsOf({ByProperty("p")}, TRUE))
                           \cup {Policy("p", {Allow({"a1"}, {"*"})}), Environment}),
     \* A policy that allows everything, with another's name; known late.
     powerful |-> Program(declared(ArgsOf({ByProperty("q")}, TRUE))
                          \cup {Policy("q", {Allow({"*"}, {"*"})})}),
     complement |-> Program({TwoDoors, Attachment(ByProperty("q")),
                             Policy("q", {[Allow({"a3"}, {"*"}) EXCEPT !.complement = TRUE]})}),
     doors |-> Program({TwoDoors, ClusterAdmin("namespace")}),
     cluster |-> Program({TwoDoors, ClusterAdmin("cluster")}),
     \* A role of people's that GitHub is let into later.
     people |-> Program({Role({From("other", {})}), Attachment(AdminArn)}),
     anyContext |-> Program({AnyContext}),
     late |-> Program({[AnyContext EXCEPT !.known = FALSE]}),
     excused |-> [Program({AnyContext}) EXCEPT !.suppressions =
                     {[rule |-> "G_OIDC_1", reason |-> "r", scope |-> {<<"role", "ci">>}, expires |-> 1]}],
     bare |-> Program({Role({From("github", {Equals("sub", OfRepo)})})}),
     federated |-> Program({Azure(InProd), Condition(Bindings)}),
     wide |-> Program({Condition([Bindings EXCEPT ![3] = Clause("environment", "!=", "prod")])}),
     repository |-> Program(declared(ArgsOf({}, TRUE)) \cup {Repository, Environment}),
     runners |-> Program({Runners({"self-hosted", "ours"})}),
     bareRunners |-> Program({Runners({"self-hosted"})})]
=============================================================================
